--------------------------- MODULE ClientPoolProofs ---------------------------
(* Proofs about the client's pool, for any configuration, any number of    *)
(* coroutines that add workers and any number of handlers posted.          *)
EXTENDS ClientPool, FiniteSetTheorems, SequenceTheorems, TLAPS

Handlers == {"provide", "wait", "resume", "check", "drain"}
Bit(b) == IF b THEN 1 ELSE 0

(* How many of the handlers s are h.                                       *)
At(s, h) == {i \in DOMAIN s : s[i] = h}
N(s, h) == Cardinality(At(s, h))

(* The workers there are, in whatever state, but for those about to end.   *)
Held == idle + visited + vq + N(ready, "provide") + N(ready, "resume") + Bit(answering)
Counted == nr >= Held + ending

Filling == IF ctrl = "filling" THEN filling >= 1 ELSE filling = 0

(* As long as the share is open its forwarder has posted one wait, and at  *)
(* most one worker resumes, or is about to, when the wait has run.         *)
OneWait(s) == \A i, j \in At(s, "wait") : i = j
OneAfter(s) ==
  \A i \in At(s, "wait") : \A j, k \in At(s, "resume") : i < j /\ i < k => j = k
NoneAfter(s) == \A i \in At(s, "wait"), j \in At(s, "resume") : j < i
WaitInTurn ==
  /\ At(ready, "wait") # {} => fwd = "waiting" /\ ~waiting
  /\ OneWait(ready) /\ OneAfter(ready)
  /\ answering => NoneAfter(ready)

(* The two workers the forwarder may count although they are spent.        *)
TwoSpent == N(ready, "resume") + Bit(answering) <= 2

QueuedWait ==
  waiting => fwd = "waiting" /\ vq = 0 /\ ~answering /\ N(ready, "resume") <= 1

Turns == At(ready, "drain") = {} /\ WaitInTurn /\ QueuedWait /\ TwoSpent

(* The workers to come: one for each check and each coroutine that has yet *)
(* to add its first worker is enough.                                      *)
Started == IF cfg.more = 0 THEN 0 ELSE adding[cfg.more]
Promised == filling + Bit(fwd = "got") + N(ready, "check") + Started

(* Only the lost and the leaked are counted beyond those there are, and    *)
(* what is short of the mark, by more than two, is on its way.             *)
Known == nr <= Held + lost
Supplied ==
  ctrl \in {"filling", "serving"} /\ ~failed =>
    idle + visited + vq + N(ready, "provide") + Promised + lost + 2 >= Mark

(* What makes PoolKeepsUp inductive.                                       *)
OpenInv == ~closing => Turns /\ Known /\ Supplied
PoolInv == TypeOK /\ Counted /\ Filling /\ OpenInv

-----------------------------------------------------------------------------
(* How many handlers there are of a kind when some are appended or one has *)
(* run.                                                                    *)
LEMMA AtFinite ==
  ASSUME NEW s \in Seq(Handlers), NEW h
  PROVE  IsFiniteSet(At(s, h)) /\ N(s, h) \in Nat /\ At(s, h) \subseteq 1..Len(s)
<1>1. At(s, h) \subseteq 1..Len(s) /\ Len(s) \in Nat
  BY LenProperties DEF At
<1>2. IsFiniteSet(1..Len(s))
  BY <1>1, FS_Interval
<1> QED BY <1>1, <1>2, FS_Subset, FS_CardinalityType DEF N

LEMMA CountAppended ==
  ASSUME NEW s \in Seq(Handlers), NEW e \in Handlers, NEW h
  PROVE  /\ Append(s, e) \in Seq(Handlers)
         /\ At(Append(s, e), h) = IF e = h THEN At(s, h) \cup {Len(s) + 1} ELSE At(s, h)
         /\ N(Append(s, e), h) = N(s, h) + Bit(e = h)
<1>1. /\ Append(s, e) \in Seq(Handlers) /\ Len(s) \in Nat /\ DOMAIN s = 1..Len(s)
      /\ DOMAIN Append(s, e) = 1..(Len(s) + 1)
      /\ \A i \in 1..Len(s) : Append(s, e)[i] = s[i]
      /\ Append(s, e)[Len(s) + 1] = e
  BY LenProperties
<1>2. At(Append(s, e), h) = IF e = h THEN At(s, h) \cup {Len(s) + 1} ELSE At(s, h)
  BY <1>1 DEF At
<1>3. IsFiniteSet(At(s, h)) /\ Len(s) + 1 \notin At(s, h) /\ N(s, h) \in Nat
  BY <1>1, AtFinite
<1>4. Cardinality(At(s, h) \cup {Len(s) + 1}) = Cardinality(At(s, h)) + 1
  BY <1>3, FS_AddElement
<1>5. CASE e = h
  BY <1>2, <1>4, <1>5 DEF N, Bit
<1>6. CASE e # h
  BY <1>2, <1>3, <1>6 DEF N, Bit
<1> QED BY <1>1, <1>2, <1>5, <1>6

LEMMA TailAt ==
  ASSUME NEW s \in Seq(Handlers), s # <<>>
  PROVE  /\ Tail(s) \in Seq(Handlers) /\ Head(s) \in Handlers
         /\ \A h : \A i \in Nat : i \in At(Tail(s), h) <=> i + 1 \in At(s, h) /\ i >= 1
         /\ \A h : 1 \in At(s, h) <=> Head(s) = h
<1>1. /\ Tail(s) \in Seq(Handlers) /\ Head(s) \in Handlers /\ Head(s) = s[1]
      /\ Len(s) \in Nat /\ Len(s) >= 1 /\ DOMAIN s = 1..Len(s)
      /\ DOMAIN Tail(s) = 1..(Len(s) - 1)
      /\ \A i \in 1..(Len(s) - 1) : Tail(s)[i] = s[i + 1]
  BY EmptySeq, LenProperties, HeadTailProperties
<1> QED BY <1>1 DEF At

LEMMA CountRun ==
  ASSUME NEW s \in Seq(Handlers), s # <<>>, NEW h
  PROVE  N(s, h) = N(Tail(s), h) + Bit(Head(s) = h)
<1> DEFINE T == At(Tail(s), h)
           S == At(s, h) \ {1}
           f == [i \in T |-> i + 1]
<1>1. /\ IsFiniteSet(T) /\ T \subseteq 1..Len(Tail(s)) /\ N(Tail(s), h) \in Nat
      /\ IsFiniteSet(At(s, h)) /\ At(s, h) \subseteq 1..Len(s) /\ N(s, h) \in Nat
      /\ Len(s) \in Nat /\ Len(Tail(s)) \in Nat
  BY AtFinite, TailAt, LenProperties
<1>2. /\ \A i \in T : i \in Nat
      /\ \A i \in At(s, h) : i \in Nat /\ i >= 1
  BY <1>1
<1>3. f \in Bijection(T, S)
  <2>1. \A i \in T : i + 1 \in S
    BY <1>2, TailAt
  <2>2. \A i, j \in T : f[i] = f[j] => i = j
    BY <1>2
  <2>3. ASSUME NEW j \in S PROVE \E i \in T : f[i] = j
    <3>1. j \in Nat /\ j > 1 /\ j - 1 \in Nat /\ j - 1 >= 1 /\ (j - 1) + 1 = j
      BY <1>2
    <3>2. j - 1 \in T
      BY <3>1, TailAt
    <3> QED BY <3>1, <3>2
  <2>4. f \in [T -> S]
    BY <2>1
  <2> HIDE DEF f, T, S
  <2> QED BY <2>2, <2>3, <2>4 DEF Bijection, Injection, Surjection, IsInjective
<1>4. Cardinality(S) = Cardinality(T)
  <2>1. ExistsBijection(T, S)
    BY <1>3 DEF ExistsBijection
  <2> QED BY <1>1, <2>1, FS_Bijection
<1>5. Cardinality(S) = IF 1 \in At(s, h) THEN Cardinality(At(s, h)) - 1 ELSE Cardinality(At(s, h))
  BY <1>1, FS_RemoveElement
<1>6. 1 \in At(s, h) <=> Head(s) = h
  BY TailAt
<1> QED BY <1>1, <1>4, <1>5, <1>6 DEF N, Bit

LEMMA CountRepeated ==
  ASSUME NEW s \in Seq(Handlers), NEW t \in Seq(Handlers), NEW e \in Handlers, NEW h,
         \A i \in 1..Len(t) : t[i] = e
  PROVE  /\ s \o t \in Seq(Handlers)
         /\ N(s \o t, h) = N(s, h) + IF e = h THEN Len(t) ELSE 0
<1> DEFINE k == Len(t)
           B == (Len(s) + 1)..(Len(s) + k)
<1>1. k \in Nat
  BY LenProperties
<1>2. /\ s \o t \in Seq(Handlers) /\ Len(s) \in Nat /\ DOMAIN s = 1..Len(s)
      /\ DOMAIN (s \o t) = 1..(Len(s) + k)
      /\ \A i \in 1..Len(s) : (s \o t)[i] = s[i]
      /\ \A i \in B : (s \o t)[i] = e
  BY <1>1, ConcatProperties, LenProperties
<1> HIDE DEF k
<1>3. At(s \o t, h) = IF e = h THEN At(s, h) \cup B ELSE At(s, h)
  BY <1>1, <1>2 DEF At
<1>4. IsFiniteSet(B) /\ Cardinality(B) = k
  <2> DEFINE a == Len(s) + 1
             b == Len(s) + k
  <2>1. a \in Int /\ b \in Int /\ (a > b <=> k = 0) /\ b - a + 1 = k
    BY <1>1, <1>2
  <2> HIDE DEF a, b
  <2>2. IsFiniteSet(a..b) /\ Cardinality(a..b) = IF a > b THEN 0 ELSE b - a + 1
    BY <2>1, FS_Interval
  <2>3. IsFiniteSet(a..b) /\ Cardinality(a..b) = k
    BY <2>1, <2>2
  <2> QED BY <2>3 DEF a, b
<1>5. IsFiniteSet(At(s, h)) /\ At(s, h) \cap B = {} /\ N(s, h) \in Nat
  BY <1>1, <1>2, AtFinite
<1>6. Cardinality(At(s, h) \cup B) = Cardinality(At(s, h)) + Cardinality(B)
  <2>1. Cardinality(At(s, h) \cap B) = 0
    BY <1>5, FS_EmptySet
  <2>2. Cardinality(At(s, h)) \in Nat /\ k \in Nat
    BY <1>1, <1>5 DEF N
  <2>3. Cardinality(At(s, h) \cup B) = Cardinality(At(s, h)) + Cardinality(B) - 0
    <3> HIDE DEF B
    <3> QED BY <1>4, <1>5, <2>1, FS_Union
  <2> QED BY <1>4, <2>2, <2>3
<1> QED BY <1>2, <1>3, <1>4, <1>5, <1>6 DEF N, k

LEMMA CountOne ==
  ASSUME NEW s \in Seq(Handlers), NEW h, \A i, j \in At(s, h) : i = j
  PROVE  N(s, h) <= 1
<1>1. CASE At(s, h) = {}
  BY <1>1, FS_EmptySet DEF N
<1>2. CASE At(s, h) # {}
  <2>1. PICK i \in At(s, h) : TRUE
    BY <1>2
  <2>2. At(s, h) = {i}
    BY <2>1
  <2>3. Cardinality({i}) = 1
    BY FS_Singleton
  <2> QED BY <2>2, <2>3 DEF N
<1> QED BY <1>1, <1>2

-----------------------------------------------------------------------------
(* What the configuration and the types give every step.                   *)
LEMMA RefillSet ==
  /\ \A n \in Refills : n \in Nat \ {0}
  /\ \A n \in Refills : n > 1 => n - 1 \in Refills
<1>1. \A c \in Configs : c.more \in Nat
  BY PoolAssumption DEF PoolAssumption
<1>2. \A n : n \in Refills <=> \E c \in Configs : n \in 1..c.more
  BY DEF Refills
<1> QED BY <1>1, <1>2

LEMMA Parameters ==
  ASSUME TypeOK
  PROVE  /\ cfg.low \in Nat /\ cfg.initial \in Nat /\ cfg.maxWorkers \in Nat
         /\ cfg.more \in Nat /\ (cfg.more > 0 => cfg.more \in Refills)
         /\ MaxLosses \in Nat
         /\ Mark \in Nat /\ Mark <= cfg.low /\ Mark <= cfg.initial
<1>1. cfg \in Configs /\ MaxLosses \in Nat
  BY PoolAssumption DEF TypeOK, PoolAssumption
<1>2. cfg.low \in Nat /\ cfg.initial \in Nat /\ cfg.maxWorkers \in Nat /\ cfg.more \in Nat
  BY <1>1, PoolAssumption DEF PoolAssumption
<1>3. cfg.more > 0 => cfg.more \in Refills
  BY <1>1, <1>2 DEF Refills
<1>4. Mark \in Nat /\ Mark <= cfg.low /\ Mark <= cfg.initial
  BY <1>2 DEF Mark
<1> QED BY <1>1, <1>2, <1>3, <1>4

LEMMA Same ==
  ASSUME cfg' = cfg
  PROVE  Mark' = Mark /\ (adding' = adding => Started' = Started)
BY DEF Mark, Started

LEMMA Numbers ==
  ASSUME TypeOK
  PROVE  /\ idle \in Nat /\ visited \in Nat /\ ending \in Nat /\ nr \in Nat /\ vq \in Nat
         /\ filling \in Nat /\ lost \in Nat /\ Started \in Nat
         /\ ready \in Seq(Handlers) /\ \A h : N(ready, h) \in Nat
         /\ \A b \in BOOLEAN : Bit(b) \in {0, 1}
         /\ Bit(answering) \in {0, 1} /\ Bit(fwd = "got") \in {0, 1}
         /\ Held \in Nat
<1>1. ready \in Seq(Handlers)
  BY DEF TypeOK, Handlers
<1>2. \A h : N(ready, h) \in Nat
  BY <1>1, AtFinite
<1>3. \A b \in BOOLEAN : Bit(b) \in {0, 1}
  BY DEF Bit
<1>4. /\ idle \in Nat /\ visited \in Nat /\ ending \in Nat /\ nr \in Nat /\ vq \in Nat
      /\ filling \in Nat /\ lost \in Nat /\ answering \in BOOLEAN
  BY Parameters DEF TypeOK
<1>5. Started \in Nat
  BY Parameters DEF TypeOK, Started
<1>6. Bit(answering) \in {0, 1} /\ Bit(fwd = "got") \in {0, 1}
  BY <1>3, <1>4
<1>7. Held \in Nat
  BY <1>2, <1>4, <1>6 DEF Held
<1> QED BY <1>1, <1>2, <1>3, <1>4, <1>5, <1>6, <1>7

-----------------------------------------------------------------------------
LEMMA PoolInit == Init => PoolInv
<1> SUFFICES ASSUME Init PROVE PoolInv
  OBVIOUS
<1>1. \A h : At(ready, h) = {} /\ N(ready, h) = 0
  BY EmptySeq, FS_EmptySet DEF Init, At, N
<1>2. TypeOK
  <2>1. cfg \in Configs /\ cfg.initial \in Nat /\ cfg.maxWorkers \in Nat /\ MaxLosses \in Nat
    BY PoolAssumption DEF Init, PoolAssumption
  <2>2. adding \in [Refills -> Nat]
    BY DEF Init
  <2>3. ready \in Seq({"provide", "wait", "resume", "check", "drain"})
    BY DEF Init
  <2>4. filling \in 0..cfg.initial /\ nr \in 0..cfg.maxWorkers /\ lost \in 0..MaxLosses
    BY <2>1 DEF Init
  <2>5. waiting \in BOOLEAN /\ answering \in BOOLEAN /\ closing \in BOOLEAN
        /\ failed \in BOOLEAN /\ armed \in BOOLEAN
    BY DEF Init
  <2>6. VisitsTyped
    BY DEF Init, VisitsTyped
  <2> QED BY <2>1, <2>2, <2>3, <2>4, <2>5, <2>6 DEF Init, TypeOK
<1> DEFINE b == Bit(answering)
<1>b. b = 0
  BY DEF Init, Bit
<1> HIDE DEF b
<1>3. Held = 0
  <2>1. Held = idle + visited + vq + N(ready, "provide") + N(ready, "resume") + b
    BY DEF Held, b
  <2> QED BY <2>1, <1>1, <1>b DEF Init
<1>4. Counted /\ Filling /\ Known
  BY <1>3 DEF Init, Counted, Filling, Known
<1>5. Turns
  <2>1. TwoSpent
    <3>1. TwoSpent <=> N(ready, "resume") + b <= 2
      BY DEF TwoSpent, b
    <3> QED BY <3>1, <1>1, <1>b
  <2>2. WaitInTurn
    BY <1>1 DEF WaitInTurn, OneWait, OneAfter, NoneAfter
  <2>3. QueuedWait
    BY DEF Init, QueuedWait
  <2> QED BY <1>1, <2>1, <2>2, <2>3 DEF Turns
<1>6. Supplied
  BY DEF Init, Supplied
<1> QED BY <1>2, <1>4, <1>5, <1>6 DEF PoolInv, OpenInv

(* A stop closes the share: what was promised while it was open is over.   *)
LEMMA StopKeeps ==
  ASSUME PoolInv, StopShare, UNCHANGED <<visited, vq, answering>>
  PROVE  /\ closing' = TRUE /\ Counted' /\ OpenInv'
         /\ idle' \in Nat /\ ending' \in Nat /\ ready' \in Seq(Handlers)
         /\ nr' = nr
<1>0. TypeOK /\ Counted
  BY DEF PoolInv
<1>1. CASE closing
  <2>1. UNCHANGED <<idle, visited, ending, nr, ready, closing>> /\ closing = TRUE
    BY <1>1, <1>0 DEF StopShare, pool, TypeOK
  <2>2. Counted'
    BY <1>0, <2>1 DEF Counted, Held
  <2> QED BY <1>0, <2>1, <2>2, Numbers DEF OpenInv
<1>2. CASE ~closing
  <2>1. /\ closing' = TRUE /\ ready' = Append(ready, "drain")
        /\ ending' = ending + idle /\ idle' = 0 /\ nr' = nr
    BY <1>2 DEF StopShare
  <2>2. /\ ready' \in Seq(Handlers)
        /\ N(ready', "provide") = N(ready, "provide") /\ N(ready', "resume") = N(ready, "resume")
    <3>1. "drain" \in Handlers /\ ready \in Seq(Handlers) /\ \A h : N(ready, h) \in Nat
      BY <1>0, Numbers DEF Handlers
    <3>2. /\ ready' \in Seq(Handlers)
          /\ N(ready', "provide") = N(ready, "provide") + Bit("drain" = "provide")
          /\ N(ready', "resume") = N(ready, "resume") + Bit("drain" = "resume")
      BY <3>1, <2>1, CountAppended
    <3>3. Bit("drain" = "provide") = 0 /\ Bit("drain" = "resume") = 0
      BY DEF Bit
    <3> QED BY <3>1, <3>2, <3>3
  <2>3. Held' + ending' = Held + ending
    <3>1. Held' = 0 + visited + vq + N(ready, "provide") + N(ready, "resume") + Bit(answering)
      BY <2>1, <2>2 DEF Held
    <3>2. Held = idle + visited + vq + N(ready, "provide") + N(ready, "resume") + Bit(answering)
      BY DEF Held
    <3>3. /\ idle \in Nat /\ visited \in Nat /\ vq \in Nat /\ ending \in Nat
          /\ N(ready, "provide") \in Nat /\ N(ready, "resume") \in Nat
          /\ Bit(answering) \in Nat
      BY <1>0, Numbers
    <3> QED BY <3>1, <3>2, <3>3, <2>1
  <2>4. Counted'
    BY <1>0, <2>1, <2>3 DEF Counted
  <2> QED BY <1>0, <2>1, <2>2, <2>4, Numbers DEF OpenInv
<1> QED BY <1>1, <1>2

-----------------------------------------------------------------------------
(* The stops.                                                              *)
LEMMA SigintKeeps == ASSUME PoolInv, VisitsTyped', Sigint PROVE PoolInv'
<1>1. StopShare /\ UNCHANGED <<visited, vq, answering>>
  <2>1. StopShare /\ UNCHANGED queue
    BY DEF Sigint, TryStop
  <2>2. UNCHANGED visited
    BY <2>1 DEF StopShare, pool
  <2> QED BY <2>1, <2>2 DEF queue
<1>2. /\ closing' = TRUE /\ Counted' /\ OpenInv'
      /\ idle' \in Nat /\ ending' \in Nat /\ ready' \in Seq(Handlers) /\ nr' = nr
  BY <1>1, StopKeeps
<1>3. TypeOK'
  BY <1>1, <1>2 DEF PoolInv, TypeOK, Sigint, TryStop, queue, adders, process, Handlers
<1>4. Filling'
  BY DEF PoolInv, Filling, Sigint, adders
<1> QED BY <1>2, <1>3, <1>4 DEF PoolInv

LEMMA CtrlFailsKeeps == ASSUME PoolInv, VisitsTyped', CtrlFails PROVE PoolInv'
<1>1. StopShare /\ UNCHANGED <<visited, vq, answering>>
  <2>1. StopShare /\ UNCHANGED queue
    BY DEF CtrlFails, TryStop
  <2>2. UNCHANGED visited
    BY <2>1 DEF StopShare, pool
  <2> QED BY <2>1, <2>2 DEF queue
<1>2. /\ closing' = TRUE /\ Counted' /\ OpenInv'
      /\ idle' \in Nat /\ ending' \in Nat /\ ready' \in Seq(Handlers) /\ nr' = nr
  BY <1>1, StopKeeps
<1>3. TypeOK'
  <2>1. filling' \in 0..cfg.initial
    BY Parameters DEF PoolInv, CtrlFails
  <2> QED BY <1>1, <1>2, <2>1 DEF PoolInv, TypeOK, CtrlFails, TryStop, queue, process, Handlers
<1>4. Filling'
  BY DEF Filling, CtrlFails
<1> QED BY <1>2, <1>3, <1>4 DEF PoolInv

LEMMA PingFailsKeeps == ASSUME PoolInv, VisitsTyped', PingFails PROVE PoolInv'
<1>1. StopShare /\ UNCHANGED <<visited, vq, answering>>
  <2>1. StopShare /\ UNCHANGED queue
    BY DEF PingFails
  <2>2. UNCHANGED visited
    BY <2>1 DEF StopShare, pool
  <2> QED BY <2>1, <2>2 DEF queue
<1>2. /\ closing' = TRUE /\ Counted' /\ OpenInv'
      /\ idle' \in Nat /\ ending' \in Nat /\ ready' \in Seq(Handlers) /\ nr' = nr
  BY <1>1, StopKeeps
<1>3. TypeOK'
  BY <1>1, <1>2 DEF PoolInv, TypeOK, PingFails, queue, adders, process, Handlers
<1>4. Filling'
  BY DEF PoolInv, Filling, PingFails, adders
<1> QED BY <1>2, <1>3, <1>4 DEF PoolInv

LEMMA FwdFailsKeeps == ASSUME PoolInv, VisitsTyped', FwdFails PROVE PoolInv'
<1>1. StopShare /\ UNCHANGED <<visited, vq, answering>>
  <2>1. StopShare /\ UNCHANGED queue
    BY DEF FwdFails, TryStop
  <2>2. UNCHANGED visited
    BY <2>1 DEF StopShare, pool
  <2> QED BY <2>1, <2>2 DEF queue
<1>2. /\ closing' = TRUE /\ Counted' /\ OpenInv'
      /\ idle' \in Nat /\ ending' \in Nat /\ ready' \in Seq(Handlers) /\ nr' = nr
  BY <1>1, StopKeeps
<1>3. TypeOK'
  BY <1>1, <1>2 DEF PoolInv, TypeOK, FwdFails, TryStop, queue, adders, process, Handlers
<1>4. Filling'
  BY DEF PoolInv, Filling, FwdFails, adders
<1> QED BY <1>2, <1>3, <1>4 DEF PoolInv

-----------------------------------------------------------------------------
(* The steps that leave the queue and the handlers posted as they are.     *)
LEMMA QueueSame ==
  ASSUME TypeOK, UNCHANGED <<queue, ready, fwd, closing>>
  PROVE  /\ closing' = closing /\ (Turns => Turns')
         /\ Held' = idle' + visited' + vq + N(ready, "provide") + N(ready, "resume") + Bit(answering)
         /\ Promised' = filling' + Bit(fwd = "got") + N(ready, "check") + Started'
         /\ N(ready', "provide") = N(ready, "provide")
<1>1. /\ ready' = ready /\ fwd' = fwd /\ closing' = closing
      /\ waiting' = waiting /\ vq' = vq /\ answering' = answering
  BY DEF queue
<1>2. \A h : N(ready', h) = N(ready, h) /\ At(ready', h) = At(ready, h)
  BY <1>1
<1>3. Turns => Turns'
  BY <1>1, <1>2 DEF Turns, WaitInTurn, QueuedWait, TwoSpent
<1> QED BY <1>1, <1>2, <1>3, Same DEF Held, Promised

(* What such a step must keep of the numbers.                              *)
CountKept == nr' + idle + visited + ending >= nr + idle' + visited' + ending'
KnownKept == nr' + idle + visited + lost <= nr + idle' + visited' + lost'
SupplyKept ==
  ctrl' \in {"filling", "serving"} /\ ~failed' =>
    \/ filling' >= Mark
    \/ /\ ctrl \in {"filling", "serving"} /\ ~failed
       /\ idle' + visited' + lost' + filling' + Started'
            >= idle + visited + lost + filling + Started

LEMMA QueueSameKeeps ==
  ASSUME PoolInv, UNCHANGED <<queue, ready, fwd, closing>>, TypeOK', Filling', cfg' = cfg,
         CountKept, ~closing => KnownKept /\ SupplyKept
  PROVE  PoolInv'
<1> DEFINE p == N(ready, "provide")
           r == N(ready, "resume")
           k == N(ready, "check")
           a == Bit(answering)
           g == Bit(fwd = "got")
<1>0. TypeOK /\ Counted
  BY DEF PoolInv
<1>1. /\ p \in Nat /\ r \in Nat /\ a \in Nat /\ vq \in Nat
      /\ idle \in Nat /\ visited \in Nat /\ {idle', visited'} \subseteq Nat
  BY <1>0, Numbers DEF TypeOK
<1>2. /\ ending \in Nat /\ nr \in Nat /\ lost \in Nat
      /\ {ending', nr', lost'} \subseteq Nat
  <2>1. cfg.maxWorkers \in Nat /\ MaxLosses \in Nat
    BY <1>0, Parameters
  <2> QED BY <2>1, <1>0, Numbers DEF TypeOK
<1>3. /\ k \in Nat /\ g \in Nat /\ filling \in Nat /\ Started \in Nat
      /\ {filling', Started'} \subseteq Nat /\ Mark \in Nat
  <2>1. /\ cfg.initial \in Nat /\ cfg.more \in Nat /\ (cfg.more > 0 => cfg.more \in Refills)
    BY <1>0, Parameters
  <2> QED BY <2>1, <1>0, Numbers, Parameters DEF TypeOK, Started
<1>4. {Held, Held'} \subseteq Nat /\ Held' + idle + visited = Held + idle' + visited'
  <2>1. /\ Held = idle + visited + vq + p + r + a
        /\ Held' = idle' + visited' + vq + p + r + a
    BY <1>0, QueueSame DEF Held
  <2> HIDE DEF p, r, a
  <2> QED BY <1>1, <2>1
<1>5. Counted'
  <2>1. nr >= Held + ending
    BY <1>0 DEF Counted
  <2>2. nr' >= Held' + ending'
    BY <2>1, <1>1, <1>2, <1>4 DEF CountKept
  <2> QED BY <2>2 DEF Counted
<1>6. ASSUME ~closing PROVE Known'
  <2>1. nr <= Held + lost
    BY <1>6 DEF PoolInv, OpenInv, Known
  <2>2. nr' + idle + visited + lost <= nr + idle' + visited' + lost'
    BY <1>6 DEF KnownKept
  <2>3. nr' <= Held' + lost'
    BY <2>1, <2>2, <1>1, <1>2, <1>4
  <2> QED BY <2>3 DEF Known
<1>7. /\ {Promised, Promised'} \subseteq Nat /\ Promised' >= filling'
      /\ Promised' + filling + Started = Promised + filling' + Started'
  <2>1. /\ Promised = filling + g + k + Started
        /\ Promised' = filling' + g + k + Started'
    BY <1>0, QueueSame DEF Promised
  <2> HIDE DEF g, k
  <2> QED BY <1>3, <2>1
<1>8. /\ N(ready', "provide") = p /\ closing' = closing /\ (Turns => Turns')
      /\ vq' = vq /\ Mark' = Mark
  BY <1>0, QueueSame, Same DEF queue
<1> HIDE DEF p, r, k, a, g
<1>9. ASSUME ~closing PROVE Supplied'
  <2> SUFFICES ASSUME ctrl' \in {"filling", "serving"}, ~failed'
               PROVE  idle' + visited' + vq + p + Promised' + lost' + 2 >= Mark
    BY <1>8 DEF Supplied
  <2>1. CASE filling' >= Mark
    <3>1. Promised' >= Mark
      BY <2>1, <1>3, <1>7
    <3> QED BY <3>1, <1>1, <1>2, <1>3, <1>7
  <2>2. CASE /\ ctrl \in {"filling", "serving"} /\ ~failed
             /\ idle' + visited' + lost' + filling' + Started'
                  >= idle + visited + lost + filling + Started
    <3>1. idle + visited + vq + p + Promised + lost + 2 >= Mark
      BY <1>9, <2>2 DEF PoolInv, OpenInv, Supplied, p
    <3>2. idle' + visited' + lost' + Promised' >= idle + visited + lost + Promised
      BY <2>2, <1>1, <1>2, <1>3, <1>7
    <3> QED BY <3>1, <3>2, <1>1, <1>2, <1>3, <1>7
  <2> QED BY <1>9, <2>1, <2>2, Same DEF SupplyKept
<1>10. OpenInv'
  BY <1>8, <1>6, <1>9 DEF PoolInv, OpenInv
<1> QED BY <1>5, <1>10 DEF PoolInv

LEMMA ServerHelloKeeps == ASSUME PoolInv, VisitsTyped', ServerHello PROVE PoolInv'
<1>0. /\ TypeOK /\ cfg.initial \in Nat /\ Mark \in Nat /\ Mark <= cfg.initial
      /\ UNCHANGED <<queue, ready, fwd, closing>> /\ UNCHANGED <<idle, visited, ending, nr, lost>>
      /\ cfg' = cfg /\ adding' = adding /\ failed' = failed /\ filling' = cfg.initial
      /\ ctrl' = IF cfg.initial = 0 THEN "serving" ELSE "filling"
  BY Parameters DEF PoolInv, ServerHello, SetPingTimer, process, pool
<1>1. TypeOK'
  <2>1. ping' \in {"waiting", "writing", "ended"} /\ armed' \in BOOLEAN
    BY <1>0 DEF TypeOK, ServerHello, SetPingTimer, pinger
  <2>2. main' = main
    BY DEF ServerHello, process
  <2> QED BY <1>0, <2>1, <2>2 DEF TypeOK, queue
<1>2. Filling'
  BY <1>0 DEF Filling
<1>3. CountKept /\ KnownKept /\ SupplyKept
  BY <1>0, Numbers DEF CountKept, KnownKept, SupplyKept
<1> QED BY <1>0, <1>1, <1>2, <1>3, QueueSameKeeps

LEMMA PongKeeps == ASSUME PoolInv, VisitsTyped', Pong PROVE PoolInv'
<1>0. /\ TypeOK /\ UNCHANGED <<queue, ready, fwd, closing>>
      /\ UNCHANGED <<pool, adders, lost, cfg>>
  BY DEF PoolInv, Pong, process
<1>1. TypeOK'
  BY <1>0 DEF TypeOK, Pong, SetPingTimer, pool, queue, adders, process
<1>2. Filling'
  BY <1>0 DEF PoolInv, Filling, adders
<1>3. CountKept /\ KnownKept /\ SupplyKept
  <2>1. /\ filling \in Nat /\ idle \in Nat /\ nr \in Nat
        /\ visited \in Nat /\ ending \in Nat /\ lost \in Nat /\ Started \in Nat
    BY <1>0, Numbers
  <2> QED BY <1>0, <2>1, Same DEF CountKept, KnownKept, SupplyKept, pool, adders
<1> QED BY <1>0, <1>1, <1>2, <1>3, QueueSameKeeps

LEMMA PingDueKeeps == ASSUME PoolInv, VisitsTyped', PingDue PROVE PoolInv'
<1>0. /\ TypeOK /\ UNCHANGED <<queue, ready, fwd, closing>>
      /\ UNCHANGED <<pool, adders, lost, cfg>>
  BY DEF PoolInv, PingDue, process
<1>1. TypeOK'
  BY <1>0 DEF TypeOK, PingDue, SetPingTimer, pool, queue, adders, process
<1>2. Filling'
  BY <1>0 DEF PoolInv, Filling, adders
<1>3. CountKept /\ KnownKept /\ SupplyKept
  <2>1. /\ filling \in Nat /\ idle \in Nat /\ nr \in Nat
        /\ visited \in Nat /\ ending \in Nat /\ lost \in Nat /\ Started \in Nat
    BY <1>0, Numbers
  <2> QED BY <1>0, <2>1, Same DEF CountKept, KnownKept, SupplyKept, pool, adders
<1> QED BY <1>0, <1>1, <1>2, <1>3, QueueSameKeeps

LEMMA PingSentKeeps == ASSUME PoolInv, VisitsTyped', PingSent PROVE PoolInv'
<1>0. /\ TypeOK /\ UNCHANGED <<queue, ready, fwd, closing>>
      /\ UNCHANGED <<pool, adders, lost, cfg>>
  BY DEF PoolInv, PingSent, process
<1>1. TypeOK'
  BY <1>0 DEF TypeOK, PingSent, SetPingTimer, pool, queue, adders, process
<1>2. Filling'
  BY <1>0 DEF PoolInv, Filling, adders
<1>3. CountKept /\ KnownKept /\ SupplyKept
  <2>1. /\ filling \in Nat /\ idle \in Nat /\ nr \in Nat
        /\ visited \in Nat /\ ending \in Nat /\ lost \in Nat /\ Started \in Nat
    BY <1>0, Numbers
  <2> QED BY <1>0, <2>1, Same DEF CountKept, KnownKept, SupplyKept, pool, adders
<1> QED BY <1>0, <1>1, <1>2, <1>3, QueueSameKeeps

LEMMA AdderFailsKeeps == ASSUME PoolInv, VisitsTyped', NEW n \in Refills, AdderFails(n) PROVE PoolInv'
<1>0. /\ TypeOK /\ UNCHANGED <<queue, ready, fwd, closing>>
      /\ UNCHANGED <<pool, ctrl, filling, lost, cfg>> /\ failed' = TRUE
  BY DEF PoolInv, AdderFails, process
<1>1. TypeOK'
  <2>1. adding' \in [Refills -> Nat]
    BY <1>0 DEF TypeOK, AdderFails
  <2> QED BY <1>0, <2>1 DEF TypeOK, AdderFails, pool, queue, pinger, process
<1>2. Filling'
  BY <1>0 DEF PoolInv, Filling
<1>3. CountKept /\ KnownKept /\ SupplyKept
  BY <1>0, Numbers, Same DEF CountKept, KnownKept, SupplyKept, pool
<1> QED BY <1>0, <1>1, <1>2, <1>3, QueueSameKeeps

-----------------------------------------------------------------------------
(* Workers are added, visited, lost and destroyed.                         *)
LEMMA CtrlAddsWorkerKeeps == ASSUME PoolInv, VisitsTyped', CtrlAddsWorker PROVE PoolInv'
<1>0. /\ TypeOK /\ Filling /\ UNCHANGED <<queue, ready, fwd, closing>>
      /\ UNCHANGED <<visited, ending, adding, failed, lost, cfg>>
      /\ nr < cfg.maxWorkers /\ nr' = nr + 1 /\ idle' = idle + 1
      /\ ctrl = "filling" /\ filling' = filling - 1
      /\ ctrl' = IF filling = 1 THEN "serving" ELSE "filling"
  BY DEF PoolInv, CtrlAddsWorker, AddWorker, SetPingTimer, process
<1>1. /\ filling \in Nat /\ filling >= 1 /\ filling' \in Nat /\ idle \in Nat /\ nr \in Nat
      /\ visited \in Nat /\ ending \in Nat /\ lost \in Nat /\ Started \in Nat
      /\ cfg.initial \in Nat /\ cfg.maxWorkers \in Nat
  BY <1>0, Numbers, Parameters DEF Filling
<1>2. TypeOK'
  <2>1. /\ filling' \in 0..cfg.initial /\ nr' \in 0..cfg.maxWorkers /\ idle' \in Nat
        /\ ctrl' \in {"filling", "serving"}
    BY <1>0, <1>1 DEF TypeOK
  <2>2. ping' \in {"waiting", "writing", "ended"} /\ armed' \in BOOLEAN
    BY <1>0 DEF TypeOK, CtrlAddsWorker, SetPingTimer, pinger
  <2> QED BY <1>0, <2>1, <2>2 DEF TypeOK, CtrlAddsWorker, queue, process
<1>3. Filling'
  BY <1>0, <1>1 DEF Filling
<1>4. CountKept /\ KnownKept /\ SupplyKept
  BY <1>0, <1>1, Same DEF CountKept, KnownKept, SupplyKept
<1> QED BY <1>0, <1>2, <1>3, <1>4, QueueSameKeeps

LEMMA AdderAddsWorkerKeeps == ASSUME PoolInv, VisitsTyped', NEW n \in Refills, AdderAddsWorker(n) PROVE PoolInv'
<1>0. /\ TypeOK /\ UNCHANGED <<queue, ready, fwd, closing>>
      /\ UNCHANGED <<visited, ending, ctrl, filling, failed, lost, cfg>>
      /\ nr < cfg.maxWorkers /\ nr' = nr + 1 /\ idle' = idle + 1
  BY DEF PoolInv, AdderAddsWorker, AddWorker, process
<1>1. /\ filling \in Nat /\ idle \in Nat /\ nr \in Nat
      /\ visited \in Nat /\ ending \in Nat /\ lost \in Nat /\ Started \in Nat
      /\ cfg.maxWorkers \in Nat /\ cfg.more \in Nat /\ (cfg.more > 0 => cfg.more \in Refills)
  BY <1>0, Numbers, Parameters
<1>2. /\ adding' \in [Refills -> Nat]
      /\ {Started'} \subseteq Nat /\ Started' + 1 >= Started
  <2>1. adding \in [Refills -> Nat] /\ adding[n] > 0 /\ Advance(n)
    BY <1>0 DEF TypeOK, AdderAddsWorker
  <2>2. \A m \in Refills : adding'[m] \in Nat /\ adding'[m] + 1 >= adding[m]
    BY <2>1 DEF Advance
  <2>3. adding' \in [Refills -> Nat]
    BY <2>1, <2>2 DEF Advance
  <2> QED BY <1>0, <1>1, <2>2, <2>3 DEF Started
<1>3. TypeOK'
  <2>1. nr' \in 0..cfg.maxWorkers /\ idle' \in Nat
    BY <1>0, <1>1
  <2> QED BY <1>0, <1>2, <2>1 DEF TypeOK, AdderAddsWorker, queue, pinger, process
<1>4. Filling'
  BY <1>0 DEF PoolInv, Filling
<1>5. CountKept /\ KnownKept /\ SupplyKept
  BY <1>0, <1>1, <1>2, Same DEF CountKept, KnownKept, SupplyKept
<1> QED BY <1>0, <1>3, <1>4, <1>5, QueueSameKeeps

LEMMA VisitKeeps == ASSUME PoolInv, VisitsTyped', Visit PROVE PoolInv'
<1>0. /\ TypeOK /\ UNCHANGED <<queue, ready, fwd, closing>>
      /\ UNCHANGED <<ending, nr, adders, lost, cfg>>
      /\ idle > 0 /\ idle' = idle - 1 /\ visited' = visited + 1
  BY DEF PoolInv, Visit, process
<1>1. /\ filling \in Nat /\ idle \in Nat /\ nr \in Nat
      /\ visited \in Nat /\ ending \in Nat /\ lost \in Nat /\ Started \in Nat
  BY <1>0, Numbers
<1>2. TypeOK'
  <2>1. idle' \in Nat /\ visited' \in Nat
    BY <1>0, <1>1
  <2> QED BY <1>0, <2>1 DEF TypeOK, Visit, queue, adders, pinger, process
<1>3. Filling'
  BY <1>0 DEF PoolInv, Filling, adders
<1>4. CountKept /\ KnownKept /\ SupplyKept
  BY <1>0, <1>1, Same DEF CountKept, KnownKept, SupplyKept, adders
<1> QED BY <1>0, <1>2, <1>3, <1>4, QueueSameKeeps

LEMMA LoseKeeps == ASSUME PoolInv, VisitsTyped', Lose PROVE PoolInv'
<1>0. /\ TypeOK /\ UNCHANGED <<queue, ready, fwd, closing>>
      /\ UNCHANGED <<nr, adders, cfg>> /\ ending' = ending + 1
      /\ \/ idle > 0 /\ idle' = idle - 1 /\ visited' = visited
         \/ visited > 0 /\ visited' = visited - 1 /\ idle' = idle
      /\ \/ closing /\ lost' = lost
         \/ ~closing /\ lost' = lost + 1 /\ lost < MaxLosses
  BY DEF PoolInv, Lose, process
<1>1. /\ filling \in Nat /\ idle \in Nat /\ nr \in Nat
      /\ visited \in Nat /\ ending \in Nat /\ lost \in Nat /\ Started \in Nat
      /\ MaxLosses \in Nat
  BY <1>0, Numbers, Parameters
<1>2. idle' \in Nat /\ visited' \in Nat /\ ending' \in Nat /\ idle' + visited' + 1 = idle + visited
  BY <1>0, <1>1
<1>3. TypeOK'
  <2>1. lost' \in 0..MaxLosses
    BY <1>0, <1>1 DEF TypeOK
  <2> QED BY <1>0, <1>2, <2>1 DEF TypeOK, Lose, queue, adders, pinger, process
<1>4. Filling'
  BY <1>0 DEF PoolInv, Filling, adders
<1>5. CountKept
  <2>1. nr' = nr /\ ending' = ending + 1
    BY <1>0
  <2>2. CASE idle' = idle - 1 /\ visited' = visited
    BY <1>1, <2>1, <2>2 DEF CountKept
  <2>3. CASE idle' = idle /\ visited' = visited - 1
    BY <1>1, <2>1, <2>3 DEF CountKept
  <2> QED BY <1>0, <2>2, <2>3
<1>6. ASSUME ~closing PROVE KnownKept /\ SupplyKept
  BY <1>0, <1>1, <1>2, <1>6, Same DEF KnownKept, SupplyKept, adders
<1> QED BY <1>0, <1>3, <1>4, <1>5, <1>6, QueueSameKeeps

LEMMA DestroyKeeps == ASSUME PoolInv, VisitsTyped', Destroy PROVE PoolInv'
<1>0. /\ TypeOK /\ Counted /\ UNCHANGED <<queue, ready, fwd, closing>>
      /\ UNCHANGED <<idle, visited, adders, lost, cfg>>
      /\ ending > 0 /\ ending' = ending - 1 /\ nr' \in {nr - 1, nr}
  BY DEF PoolInv, Destroy, process
<1>1. /\ filling \in Nat /\ idle \in Nat /\ nr \in Nat /\ Held \in Nat
      /\ visited \in Nat /\ ending \in Nat /\ lost \in Nat /\ Started \in Nat
      /\ cfg.maxWorkers \in Nat /\ nr >= Held + ending
  BY <1>0, Numbers, Parameters DEF Counted
<1>2. TypeOK'
  <2>1. ending' \in Nat /\ nr' \in 0..cfg.maxWorkers
    BY <1>0, <1>1 DEF TypeOK
  <2> QED BY <1>0, <2>1 DEF TypeOK, Destroy, queue, adders, pinger, process
<1>3. Filling'
  BY <1>0 DEF PoolInv, Filling, adders
<1>4. CountKept /\ KnownKept /\ SupplyKept
  <2>1. /\ idle' = idle /\ visited' = visited /\ lost' = lost /\ filling' = filling
        /\ ctrl' = ctrl /\ failed' = failed /\ Started' = Started
    BY <1>0, Same DEF adders
  <2>2. CASE nr' = nr
    BY <1>0, <1>1, <2>1, <2>2 DEF CountKept, KnownKept, SupplyKept
  <2>3. CASE nr' = nr - 1
    BY <1>0, <1>1, <2>1, <2>3 DEF CountKept, KnownKept, SupplyKept
  <2> QED BY <1>0, <2>2, <2>3
<1> QED BY <1>0, <1>2, <1>3, <1>4, QueueSameKeeps

LEMMA MainEndsKeeps == ASSUME PoolInv, VisitsTyped', MainEnds PROVE PoolInv'
<1>0. /\ TypeOK /\ UNCHANGED <<queue, ready, fwd, closing>>
      /\ UNCHANGED <<pool, adders, lost, cfg>>
  BY DEF PoolInv, MainEnds
<1>1. TypeOK'
  BY <1>0 DEF TypeOK, MainEnds, pool, queue, adders, pinger
<1>2. Filling'
  BY <1>0 DEF PoolInv, Filling, adders
<1>3. CountKept /\ KnownKept /\ SupplyKept
  <2>1. /\ filling \in Nat /\ idle \in Nat /\ nr \in Nat
        /\ visited \in Nat /\ ending \in Nat /\ lost \in Nat /\ Started \in Nat
    BY <1>0, Numbers
  <2> QED BY <1>0, <2>1, Same DEF CountKept, KnownKept, SupplyKept, pool, adders
<1> QED BY <1>0, <1>1, <1>2, <1>3, QueueSameKeeps

-----------------------------------------------------------------------------
(* The order of what is posted, when something is appended or has run.     *)
LEMMA AppendedOrder ==
  ASSUME NEW s \in Seq(Handlers), NEW e \in Handlers
  PROVE  /\ \A h : e # h => At(Append(s, e), h) = At(s, h)
         /\ e \notin {"wait", "resume"} =>
              /\ OneWait(s) => OneWait(Append(s, e))
              /\ OneAfter(s) => OneAfter(Append(s, e))
              /\ NoneAfter(s) => NoneAfter(Append(s, e))
         /\ e = "resume" /\ OneWait(s) /\ NoneAfter(s) =>
              OneWait(Append(s, e)) /\ OneAfter(Append(s, e))
         /\ e = "wait" /\ At(s, "wait") = {} =>
              OneWait(Append(s, e)) /\ OneAfter(Append(s, e)) /\ NoneAfter(Append(s, e))
<1>1. \A h : At(Append(s, e), h) = IF e = h THEN At(s, h) \cup {Len(s) + 1} ELSE At(s, h)
  BY CountAppended
<1>2. \A h : At(s, h) \subseteq 1..Len(s)
  BY AtFinite
<1>3. Len(s) \in Nat
  BY LenProperties
<1>4. \A h : e # h => At(Append(s, e), h) = At(s, h)
  BY <1>1
<1>5. ASSUME e \notin {"wait", "resume"}
      PROVE  /\ At(Append(s, e), "wait") = At(s, "wait")
             /\ At(Append(s, e), "resume") = At(s, "resume")
  BY <1>4, <1>5
<1>6. ASSUME e = "resume", OneWait(s), NoneAfter(s)
      PROVE  OneWait(Append(s, e)) /\ OneAfter(Append(s, e))
  <2>1. /\ At(Append(s, e), "wait") = At(s, "wait")
        /\ At(Append(s, e), "resume") = At(s, "resume") \cup {Len(s) + 1}
    BY <1>1, <1>6
  <2>2. \A i \in At(s, "wait"), j \in At(s, "resume") : ~(i < j)
    BY <1>2, <1>6 DEF NoneAfter
  <2> QED BY <1>6, <2>1, <2>2 DEF OneWait, OneAfter
<1>7. ASSUME e = "wait", At(s, "wait") = {}
      PROVE  OneWait(Append(s, e)) /\ OneAfter(Append(s, e)) /\ NoneAfter(Append(s, e))
  <2>1. /\ At(Append(s, e), "wait") = {Len(s) + 1}
        /\ At(Append(s, e), "resume") = At(s, "resume")
    BY <1>1, <1>7
  <2>2. \A j \in At(s, "resume") : j < Len(s) + 1 /\ ~(Len(s) + 1 < j)
    BY <1>2, <1>3
  <2> QED BY <2>1, <2>2 DEF OneWait, OneAfter, NoneAfter
<1> QED BY <1>4, <1>5, <1>6, <1>7 DEF OneWait, OneAfter, NoneAfter

LEMMA RunOrder ==
  ASSUME NEW s \in Seq(Handlers), s # <<>>
  PROVE  /\ \A h : At(s, h) = {} => At(Tail(s), h) = {}
         /\ OneWait(s) => OneWait(Tail(s))
         /\ OneAfter(s) => OneAfter(Tail(s))
         /\ NoneAfter(s) => NoneAfter(Tail(s))
<1>1. Tail(s) \in Seq(Handlers)
  BY TailAt
<1>2. \A h : \A i \in At(Tail(s), h) : i \in Nat /\ i + 1 \in At(s, h)
  <2> SUFFICES ASSUME NEW h, NEW i \in At(Tail(s), h) PROVE i \in Nat /\ i + 1 \in At(s, h)
    OBVIOUS
  <2>1. i \in Nat
    <3>1. At(Tail(s), h) \subseteq 1..Len(Tail(s)) /\ Len(Tail(s)) \in Nat
      BY <1>1, AtFinite, LenProperties
    <3> QED BY <3>1
  <2> QED BY <2>1, TailAt
<1>3. OneWait(s) => OneWait(Tail(s))
  BY <1>2 DEF OneWait
<1>4. OneAfter(s) => OneAfter(Tail(s))
  BY <1>2 DEF OneAfter
<1>5. NoneAfter(s) => NoneAfter(Tail(s))
  BY <1>2 DEF NoneAfter
<1> QED BY <1>2, <1>3, <1>4, <1>5

(* A wait that runs is the only one there is, and at most one worker       *)
(* resumes after it.                                                       *)
LEMMA RunWaitOrder ==
  ASSUME NEW s \in Seq(Handlers), s # <<>>, Head(s) = "wait", OneWait(s), OneAfter(s)
  PROVE  1 \in At(s, "wait") /\ At(Tail(s), "wait") = {} /\ N(Tail(s), "resume") <= 1
<1>1. Tail(s) \in Seq(Handlers) /\ 1 \in At(s, "wait") /\ 1 \notin At(s, "resume")
  BY TailAt
<1>2. \A h : \A i \in At(Tail(s), h) : i \in Nat /\ i >= 1 /\ i + 1 \in At(s, h)
  <2> SUFFICES ASSUME NEW h, NEW i \in At(Tail(s), h) PROVE i \in Nat /\ i >= 1 /\ i + 1 \in At(s, h)
    OBVIOUS
  <2>1. i \in Nat
    <3>1. At(Tail(s), h) \subseteq 1..Len(Tail(s)) /\ Len(Tail(s)) \in Nat
      BY <1>1, AtFinite, LenProperties
    <3> QED BY <3>1
  <2> QED BY <2>1, TailAt
<1>3. At(Tail(s), "wait") = {}
  BY <1>1, <1>2 DEF OneWait
<1>4. \A i, j \in At(Tail(s), "resume") : i = j
  BY <1>1, <1>2 DEF OneAfter
<1> QED BY <1>1, <1>3, <1>4, CountOne

-----------------------------------------------------------------------------
(* The handlers that come and go.                                          *)

(* What the numbers are before such a step.                                *)
Books(p, r, k, a, g, d) ==
  /\ p \in Nat /\ r \in Nat /\ k \in Nat /\ a \in Nat /\ g \in Nat /\ d \in Nat
  /\ idle \in Nat /\ visited \in Nat /\ ending \in Nat /\ nr \in Nat /\ vq \in Nat
  /\ filling \in Nat /\ lost \in Nat /\ Mark \in Nat
  /\ nr >= idle + visited + vq + p + r + a + ending
  /\ ~closing =>
       /\ r + a <= 2
       /\ nr <= idle + visited + vq + p + r + a + lost
       /\ ctrl \in {"filling", "serving"} /\ ~failed =>
            idle + visited + vq + p + (filling + g + k + d) + lost + 2 >= Mark

LEMMA Balanced ==
  ASSUME PoolInv
  PROVE  Books(N(ready, "provide"), N(ready, "resume"), N(ready, "check"),
               Bit(answering), Bit(fwd = "got"), Started)
<1> DEFINE p == N(ready, "provide")
           r == N(ready, "resume")
           k == N(ready, "check")
           a == Bit(answering)
           g == Bit(fwd = "got")
           d == Started
<1>1. TypeOK
  BY DEF PoolInv
<1>2. /\ p \in Nat /\ r \in Nat /\ k \in Nat /\ a \in Nat /\ g \in Nat /\ d \in Nat
      /\ idle \in Nat /\ visited \in Nat /\ ending \in Nat /\ nr \in Nat /\ vq \in Nat
      /\ filling \in Nat /\ lost \in Nat /\ Mark \in Nat
  BY <1>1, Numbers, Parameters
<1>3. nr >= idle + visited + vq + p + r + a + ending
  BY DEF PoolInv, Counted, Held
<1>4. ASSUME ~closing
      PROVE  /\ r + a <= 2
             /\ nr <= idle + visited + vq + p + r + a + lost
             /\ ctrl \in {"filling", "serving"} /\ ~failed =>
                  idle + visited + vq + p + (filling + g + k + d) + lost + 2 >= Mark
  BY <1>4 DEF PoolInv, OpenInv, Turns, TwoSpent, Known, Held, Supplied, Promised
<1> HIDE DEF p, r, k, a, g, d
<1>5. Books(p, r, k, a, g, d)
  BY <1>2, <1>3, <1>4 DEF Books
<1> QED BY <1>5 DEF p, r, k, a, g, d

LEMMA ConfirmKeeps == ASSUME PoolInv, VisitsTyped', Confirm PROVE PoolInv'
<1>0. /\ TypeOK /\ UNCHANGED <<idle, ending, nr, queue, adders, fwd, closing, lost, cfg>>
      /\ visited > 0 /\ visited' = visited - 1 /\ ready' = Append(ready, "provide")
  BY DEF PoolInv, Confirm, process
<1>1. /\ ready' \in Seq(Handlers)
      /\ N(ready', "provide") = N(ready, "provide") + 1
      /\ N(ready', "resume") = N(ready, "resume") /\ N(ready', "check") = N(ready, "check")
      /\ \A h : h # "provide" => At(ready', h) = At(ready, h)
      /\ OneWait(ready) => OneWait(ready')
      /\ OneAfter(ready) => OneAfter(ready')
      /\ NoneAfter(ready) => NoneAfter(ready')
  <2>1. "provide" \in Handlers /\ ready \in Seq(Handlers) /\ N(ready, "provide") \in Nat
    BY <1>0, Numbers DEF Handlers
  <2>2. \A h : h # "provide" => At(ready', h) = At(ready, h)
    BY <2>1, <1>0, AppendedOrder
  <2>3. N(ready', "provide") = N(ready, "provide") + Bit("provide" = "provide")
    BY <2>1, <1>0, CountAppended
  <2>4. Bit("provide" = "provide") = 1
    BY DEF Bit
  <2>5. ready' \in Seq(Handlers)
    BY <2>1, <1>0, CountAppended
  <2> QED BY <2>1, <2>2, <2>3, <2>4, <2>5, <1>0, AppendedOrder DEF N
<1> DEFINE p == N(ready, "provide")
           r == N(ready, "resume")
           k == N(ready, "check")
           a == Bit(answering)
           g == Bit(fwd = "got")
           d == Started
<1>2. Books(p, r, k, a, g, d)
  BY Balanced
<1>3. /\ Held' = idle + (visited - 1) + vq + (p + 1) + r + a
      /\ Promised' = filling + g + k + d
      /\ N(ready', "provide") = p + 1
  BY <1>0, <1>1, Same DEF Held, Promised, queue, adders
<1> HIDE DEF p, r, k, a, g, d
<1>4. TypeOK'
  <2>1. visited' \in Nat
    BY <1>0, <1>2 DEF Books
  <2> QED BY <1>0, <1>1, <2>1 DEF TypeOK, Handlers, Confirm, queue, adders, pinger, process
<1>5. Counted'
  <2>1. nr >= Held' + ending
    BY <1>2, <1>3 DEF Books
  <2> QED BY <1>0, <2>1 DEF Counted
<1>6. Filling'
  BY <1>0 DEF PoolInv, Filling, adders
<1>7. ASSUME ~closing PROVE Turns' /\ Known' /\ Supplied'
  <2>1. Turns'
    <3>1. Turns
      BY <1>7 DEF PoolInv, OpenInv
    <3> QED BY <3>1, <1>0, <1>1 DEF Turns, WaitInTurn, QueuedWait, TwoSpent, queue
  <2>2. Known'
    <3>1. nr <= Held' + lost
      BY <1>2, <1>3, <1>7 DEF Books
    <3> QED BY <1>0, <3>1 DEF Known
  <2>3. Supplied'
    <3>1. ctrl \in {"filling", "serving"} /\ ~failed =>
            idle + (visited - 1) + vq + (p + 1) + Promised' + lost + 2 >= Mark
      BY <1>2, <1>3, <1>7 DEF Books
    <3>2. /\ ctrl' = ctrl /\ failed' = failed /\ idle' = idle /\ visited' = visited - 1
          /\ vq' = vq /\ lost' = lost /\ cfg' = cfg
      BY <1>0 DEF queue, adders
    <3> QED BY <1>3, <3>1, <3>2, Same DEF Supplied
  <2> QED BY <2>1, <2>2, <2>3
<1>8. OpenInv'
  BY <1>0, <1>7 DEF OpenInv
<1> QED BY <1>4, <1>5, <1>6, <1>8 DEF PoolInv

LEMMA AfterRun ==
  ASSUME TypeOK, NEW h, Run(h)
  PROVE  /\ Tail(ready) \in Seq(Handlers) /\ ready # <<>> /\ ready \in Seq(Handlers)
         /\ ~answering
         /\ N(Tail(ready), h) + 1 = N(ready, h)
         /\ \A x : x # h => N(Tail(ready), x) = N(ready, x)
<1>1. ready \in Seq(Handlers) /\ ready # <<>> /\ Head(ready) = h /\ ~answering
  BY Numbers DEF Run, MainFree
<1>2. Tail(ready) \in Seq(Handlers)
  BY <1>1, TailAt
<1>3. \A x : N(ready, x) \in Nat /\ N(Tail(ready), x) \in Nat
  BY <1>1, <1>2, AtFinite
<1>4. \A x : N(ready, x) = N(Tail(ready), x) + Bit(h = x)
  BY <1>1, CountRun
<1>5. Bit(h = h) = 1 /\ \A x : x # h => Bit(h = x) = 0
  BY DEF Bit
<1>6. N(ready, h) = N(Tail(ready), h) + Bit(h = h)
  BY <1>4
<1>7. \A x : x # h => N(ready, x) = N(Tail(ready), x) + 0
  BY <1>4, <1>5
<1> QED BY <1>1, <1>2, <1>3, <1>5, <1>6, <1>7

LEMMA AfterAppend ==
  ASSUME NEW s \in Seq(Handlers), NEW e \in Handlers
  PROVE  /\ Append(s, e) \in Seq(Handlers)
         /\ N(Append(s, e), e) = N(s, e) + 1
         /\ \A x : x # e => N(Append(s, e), x) = N(s, x)
<1>1. \A x : N(s, x) \in Nat
  BY AtFinite
<1>2. Append(s, e) \in Seq(Handlers) /\ \A x : N(Append(s, e), x) = N(s, x) + Bit(e = x)
  BY CountAppended
<1>3. Bit(e = e) = 1 /\ \A x : x # e => Bit(e = x) = 0
  BY DEF Bit
<1>4. \A x : x # e => N(Append(s, e), x) = N(s, x) + 0
  BY <1>2, <1>3
<1>5. N(Append(s, e), e) = N(s, e) + Bit(e = e)
  BY <1>2
<1> QED BY <1>1, <1>2, <1>3, <1>4, <1>5

LEMMA RunCheckKeeps == ASSUME PoolInv, VisitsTyped', RunCheck PROVE PoolInv'
<1>0. /\ TypeOK /\ Run("check") /\ ready' = Tail(ready)
      /\ UNCHANGED <<pool, queue, ctrl, filling, failed, fwd, closing, lost, cfg>>
      /\ adding' = IF ~closing /\ nr < cfg.low /\ cfg.more > 0
                   THEN [adding EXCEPT ![cfg.more] = @ + 1] ELSE adding
  BY DEF PoolInv, RunCheck, process
<1>1. /\ ready' \in Seq(Handlers) /\ ready # <<>> /\ ready \in Seq(Handlers)
      /\ N(ready', "check") + 1 = N(ready, "check")
      /\ N(ready', "resume") = N(ready, "resume")
      /\ N(ready', "provide") = N(ready, "provide") /\ N(ready', "check") \in Nat
  <2>1. "check" # "resume" /\ "check" # "provide"
    OBVIOUS
  <2> QED BY <1>0, <2>1, AfterRun, AtFinite
<1> DEFINE p == N(ready, "provide")
           r == N(ready, "resume")
           k == N(ready, "check")
           a == Bit(answering)
           g == Bit(fwd = "got")
           d == Started
<1>2. Books(p, r, k, a, g, d)
  BY Balanced
<1> DEFINE e == Started'
           l == N(ready', "check")
<1>3. /\ adding' \in [Refills -> Nat] /\ e \in Nat
      /\ ~closing /\ nr < cfg.low => e = d + 1 \/ Mark = 0
  <2>1. adding \in [Refills -> Nat] /\ cfg.more \in Nat /\ (cfg.more > 0 => cfg.more \in Refills)
    BY <1>0, Parameters DEF TypeOK
  <2> QED BY <2>1, <1>0 DEF Started, Mark
<1>4. /\ Held' = idle + visited + vq + p + r + a
      /\ Promised' = filling + g + l + e
      /\ N(ready', "provide") = p /\ l \in Nat /\ l + 1 = k
  BY <1>0, <1>1, Same DEF Held, Promised, queue, pool
<1> HIDE DEF p, r, k, a, g, d, e, l
<1>5. TypeOK'
  BY <1>0, <1>1, <1>3 DEF TypeOK, Handlers, RunCheck, pool, queue, pinger, process
<1>6. Counted'
  <2>1. nr >= Held' + ending
    BY <1>2, <1>4 DEF Books
  <2> QED BY <1>0, <2>1 DEF Counted, pool
<1>7. Filling'
  BY <1>0 DEF PoolInv, Filling
<1>8. ASSUME ~closing PROVE Turns' /\ Known' /\ Supplied'
  <2>1. Turns'
    <3>1. Turns
      BY <1>8 DEF PoolInv, OpenInv
    <3>2. /\ At(ready', "drain") = {}
          /\ At(ready', "wait") # {} => At(ready, "wait") # {}
          /\ OneWait(ready') /\ OneAfter(ready')
          /\ NoneAfter(ready) => NoneAfter(ready')
      BY <3>1, <1>0, <1>1, RunOrder DEF Turns, WaitInTurn
    <3> QED BY <3>1, <3>2, <1>0, <1>1 DEF Turns, WaitInTurn, QueuedWait, TwoSpent, queue
  <2>2. Known'
    <3>1. nr <= Held' + lost
      BY <1>2, <1>4, <1>8 DEF Books
    <3> QED BY <1>0, <3>1 DEF Known, pool
  <2>3. Supplied'
    <3>1. CASE nr < cfg.low
      <4>1. ctrl \in {"filling", "serving"} /\ ~failed =>
              idle + visited + vq + p + Promised' + lost + 2 >= Mark
        BY <1>2, <1>3, <1>4, <1>8, <3>1 DEF Books
      <4> QED BY <1>0, <1>4, <4>1, Same DEF Supplied, pool, queue
    <3>2. CASE ~(nr < cfg.low)
      <4>1. Mark <= cfg.low /\ cfg.low \in Nat
        BY <1>0, Parameters
      <4>2. idle + visited + vq + p + Promised' + lost + 2 >= Mark
        BY <1>2, <1>3, <1>4, <1>8, <3>2, <4>1 DEF Books
      <4> QED BY <1>0, <1>4, <4>2, Same DEF Supplied, pool, queue
    <3> QED BY <3>1, <3>2
  <2> QED BY <2>1, <2>2, <2>3
<1>9. OpenInv'
  BY <1>0, <1>8 DEF OpenInv
<1> QED BY <1>5, <1>6, <1>7, <1>9 DEF PoolInv

LEMMA RunResumeKeeps == ASSUME PoolInv, VisitsTyped', RunResume PROVE PoolInv'
<1>0. /\ TypeOK /\ Run("resume") /\ ready' = Tail(ready)
      /\ UNCHANGED <<idle, visited, ending, queue, adders, fwd, closing, cfg>>
      /\ \/ nr' = nr - 1 /\ lost' = lost
         \/ nr' = nr /\ lost' = lost + 1 /\ lost < MaxLosses
  BY DEF PoolInv, RunResume, process
<1>1. /\ ready' \in Seq(Handlers) /\ ready # <<>> /\ ready \in Seq(Handlers)
      /\ N(ready', "resume") + 1 = N(ready, "resume") /\ N(ready', "resume") \in Nat
      /\ N(ready', "check") = N(ready, "check")
      /\ N(ready', "provide") = N(ready, "provide")
  <2>1. "check" # "resume" /\ "resume" # "provide"
    OBVIOUS
  <2> QED BY <1>0, <2>1, AfterRun, AtFinite
<1> DEFINE p == N(ready, "provide")
           r == N(ready, "resume")
           k == N(ready, "check")
           a == Bit(answering)
           g == Bit(fwd = "got")
           d == Started
<1>2. Books(p, r, k, a, g, d)
  BY Balanced
<1> DEFINE q == N(ready', "resume")
<1>3. /\ Held' = idle + visited + vq + p + q + a
      /\ Promised' = filling + g + k + d
      /\ N(ready', "provide") = p /\ q \in Nat /\ q + 1 = r
  BY <1>0, <1>1, Same DEF Held, Promised, queue, adders
<1> HIDE DEF p, r, k, a, g, d, q
<1>4. nr >= 1 /\ nr' \in Nat /\ lost' \in Nat
  BY <1>0, <1>2, <1>3 DEF Books
<1>5. TypeOK'
  <2>1. nr' \in 0..cfg.maxWorkers /\ lost' \in 0..MaxLosses
    BY <1>0, <1>4, Parameters DEF TypeOK
  <2> QED BY <1>0, <1>1, <2>1 DEF TypeOK, Handlers, RunResume, queue, adders, pinger, process
<1>6. Counted'
  <2>1. nr' >= Held' + ending
    BY <1>0, <1>2, <1>3 DEF Books
  <2> QED BY <1>0, <2>1 DEF Counted
<1>7. Filling'
  BY <1>0 DEF PoolInv, Filling, adders
<1>8. ASSUME ~closing PROVE Turns' /\ Known' /\ Supplied'
  <2>1. Turns'
    <3>1. Turns
      BY <1>8 DEF PoolInv, OpenInv
    <3>2. /\ At(ready', "drain") = {}
          /\ At(ready', "wait") # {} => At(ready, "wait") # {}
          /\ OneWait(ready') /\ OneAfter(ready')
          /\ NoneAfter(ready) => NoneAfter(ready')
      BY <3>1, <1>0, <1>1, RunOrder DEF Turns, WaitInTurn
    <3>3. q + a <= 2 /\ (r <= 1 => q <= 1)
      BY <1>2, <1>3, <1>8 DEF Books
    <3>4. TwoSpent'
      BY <3>3, <1>0 DEF TwoSpent, queue, q, a
    <3>5. QueuedWait'
      BY <3>1, <3>3, <1>0 DEF Turns, QueuedWait, queue, q, r
    <3> QED BY <3>1, <3>2, <3>4, <3>5, <1>0 DEF Turns, WaitInTurn, queue
  <2>2. Known'
    <3>1. nr' <= Held' + lost'
      BY <1>0, <1>2, <1>3, <1>8 DEF Books
    <3> QED BY <3>1 DEF Known
  <2>3. Supplied'
    <3>1. ctrl \in {"filling", "serving"} /\ ~failed =>
            idle + visited + vq + p + Promised' + lost' + 2 >= Mark
      BY <1>0, <1>2, <1>3, <1>8 DEF Books
    <3> QED BY <1>0, <1>3, <3>1, Same DEF Supplied, queue, adders
  <2> QED BY <2>1, <2>2, <2>3
<1>9. OpenInv'
  BY <1>0, <1>8 DEF OpenInv
<1> QED BY <1>5, <1>6, <1>7, <1>9 DEF PoolInv

(* A provide that runs is aborted, meets the wait, or is queued.           *)
LEMMA RunProvideKeeps == ASSUME PoolInv, VisitsTyped', RunProvide PROVE PoolInv'
<1>0. /\ TypeOK /\ Run("provide")
      /\ UNCHANGED <<pool, adders, closing, lost, cfg>>
  BY DEF PoolInv, RunProvide, process
<1>1. /\ Tail(ready) \in Seq(Handlers) /\ ready # <<>> /\ ready \in Seq(Handlers) /\ ~answering
      /\ N(Tail(ready), "provide") + 1 = N(ready, "provide")
      /\ N(Tail(ready), "provide") \in Nat
      /\ N(Tail(ready), "resume") = N(ready, "resume")
      /\ N(Tail(ready), "check") = N(ready, "check")
  <2>1. "check" # "provide" /\ "resume" # "provide"
    OBVIOUS
  <2> QED BY <1>0, <2>1, AfterRun, AtFinite
<1> DEFINE p == N(ready, "provide")
           r == N(ready, "resume")
           k == N(ready, "check")
           a == Bit(answering)
           g == Bit(fwd = "got")
           d == Started
<1>2. Books(p, r, k, a, g, d)
  BY Balanced
<1> DEFINE o == N(Tail(ready), "provide")
<1>3. o \in Nat /\ o + 1 = p /\ a = 0
  BY <1>1 DEF Bit
<1>4. Filling'
  BY <1>0 DEF PoolInv, Filling, adders
<1>5. CASE /\ closing /\ ready' = Append(Tail(ready), "resume")
           /\ UNCHANGED <<queue, fwd>>
  <2>1. /\ ready' \in Seq(Handlers) /\ N(ready', "resume") = r + 1
        /\ N(ready', "provide") = o
    <3>1. "resume" \in Handlers /\ "resume" # "provide"
      BY DEF Handlers
    <3> QED BY <1>1, <1>5, <3>1, AfterAppend
  <2>2. Held' = idle + visited + vq + o + (r + 1) + a
    BY <1>0, <1>5, <2>1 DEF Held, pool, queue
  <2> HIDE DEF p, r, k, a, g, d, o
  <2>3. TypeOK'
    BY <1>0, <1>5, <2>1 DEF TypeOK, Handlers, RunProvide, pool, queue, adders, pinger, process
  <2>4. nr >= Held' + ending
    BY <1>2, <1>3, <2>2 DEF Books
  <2>5. Counted' /\ OpenInv'
    BY <1>0, <1>5, <2>4 DEF Counted, OpenInv, pool
  <2> QED BY <1>4, <2>3, <2>5 DEF PoolInv
<1>6. CASE /\ ~closing /\ waiting
           /\ waiting' = FALSE /\ fwd' = "got" /\ answering' = TRUE
           /\ ready' = Tail(ready) /\ vq' = vq
  <2>1. Turns
    BY <1>6 DEF PoolInv, OpenInv
  <2>2. /\ fwd = "waiting" /\ vq = 0 /\ r <= 1 /\ At(ready, "wait") = {} /\ At(ready, "drain") = {}
    BY <1>6, <2>1 DEF Turns, WaitInTurn, QueuedWait
  <2>3. g = 0 /\ Bit(answering') = 1 /\ Bit(fwd' = "got") = 1
    BY <1>6, <2>2 DEF Bit
  <2>4. /\ Held' = idle + visited + vq + o + r + 1
        /\ Promised' = filling + 1 + k + d
        /\ N(ready', "provide") = o /\ N(ready', "resume") = r
    BY <1>0, <1>1, <1>6, <2>3, Same DEF Held, Promised, pool, adders
  <2> HIDE DEF p, r, k, a, g, d, o
  <2>5. TypeOK'
    BY <1>0, <1>1, <1>6 DEF TypeOK, Handlers, RunProvide, pool, queue, adders, pinger, process
  <2>6. Counted'
    <3>1. nr >= Held' + ending
      BY <1>2, <1>3, <2>4 DEF Books
    <3> QED BY <1>0, <3>1 DEF Counted, pool
  <2>7. Turns'
    <3>1. At(ready', "wait") = {} /\ At(ready', "drain") = {}
      BY <1>1, <1>6, <2>2, RunOrder
    <3>2. WaitInTurn'
      BY <3>1 DEF WaitInTurn, OneWait, OneAfter, NoneAfter
    <3>3. N(ready', "resume") + Bit(answering') <= 2
      BY <1>2, <2>2, <2>3, <2>4 DEF Books
    <3> QED BY <1>6, <3>1, <3>2, <3>3 DEF Turns, QueuedWait, TwoSpent
  <2>8. Known'
    <3>1. nr <= Held' + lost
      BY <1>2, <1>3, <1>6, <2>4 DEF Books
    <3> QED BY <1>0, <3>1 DEF Known, pool
  <2>9. Supplied'
    <3>1. ctrl \in {"filling", "serving"} /\ ~failed =>
            idle + visited + vq + o + Promised' + lost + 2 >= Mark
      BY <1>2, <1>3, <1>6, <2>3, <2>4 DEF Books
    <3> QED BY <1>0, <1>6, <2>4, <3>1, Same DEF Supplied, pool, adders
  <2> QED BY <1>4, <2>5, <2>6, <2>7, <2>8, <2>9 DEF PoolInv, OpenInv
<1>7. CASE /\ ~closing /\ ~waiting
           /\ vq' = vq + 1 /\ ready' = Tail(ready)
           /\ UNCHANGED <<waiting, answering, fwd>>
  <2>1. Turns
    BY <1>7 DEF PoolInv, OpenInv
  <2>2. /\ Held' = idle + visited + (vq + 1) + o + r + a
        /\ Promised' = filling + g + k + d
        /\ N(ready', "provide") = o
    BY <1>0, <1>1, <1>7, Same DEF Held, Promised, pool, adders
  <2> HIDE DEF p, r, k, a, g, d, o
  <2>3. TypeOK'
    <3>1. vq' \in Nat
      BY <1>2, <1>7 DEF Books
    <3> QED BY <1>0, <1>1, <1>7, <3>1 DEF TypeOK, Handlers, RunProvide, pool, adders, pinger, process
  <2>4. Counted'
    <3>1. nr >= Held' + ending
      BY <1>2, <1>3, <2>2 DEF Books
    <3> QED BY <1>0, <3>1 DEF Counted, pool
  <2>5. Turns'
    <3>1. /\ At(ready', "drain") = {}
          /\ At(ready', "wait") # {} => At(ready, "wait") # {}
          /\ OneWait(ready') /\ OneAfter(ready')
      BY <2>1, <1>1, <1>7, RunOrder DEF Turns, WaitInTurn
    <3> QED BY <2>1, <3>1, <1>1, <1>7 DEF Turns, WaitInTurn, QueuedWait, TwoSpent
  <2>6. Known'
    <3>1. nr <= Held' + lost
      BY <1>2, <1>3, <1>7, <2>2 DEF Books
    <3> QED BY <1>0, <3>1 DEF Known, pool
  <2>7. Supplied'
    <3>1. ctrl \in {"filling", "serving"} /\ ~failed =>
            idle + visited + (vq + 1) + o + Promised' + lost + 2 >= Mark
      BY <1>2, <1>3, <1>7, <2>2 DEF Books
    <3> QED BY <1>0, <1>7, <2>2, <3>1, Same DEF Supplied, pool, adders
  <2> QED BY <1>4, <2>3, <2>4, <2>5, <2>6, <2>7 DEF PoolInv, OpenInv
<1> QED BY <1>5, <1>6, <1>7 DEF RunProvide

(* A wait that runs is aborted, gets what was provided, or is queued.      *)
LEMMA RunWaitKeeps == ASSUME PoolInv, VisitsTyped', RunWait PROVE PoolInv'
<1>0. /\ TypeOK /\ Run("wait") /\ ready' = Tail(ready)
      /\ UNCHANGED <<pool, adders, closing, lost, cfg>>
  BY DEF PoolInv, RunWait, process
<1>1. /\ ready' \in Seq(Handlers) /\ ready # <<>> /\ ready \in Seq(Handlers) /\ ~answering
      /\ N(ready', "provide") = N(ready, "provide")
      /\ N(ready', "resume") = N(ready, "resume")
      /\ N(ready', "check") = N(ready, "check")
  <2>1. "check" # "wait" /\ "resume" # "wait" /\ "provide" # "wait"
    OBVIOUS
  <2> QED BY <1>0, <2>1, AfterRun
<1> DEFINE p == N(ready, "provide")
           r == N(ready, "resume")
           k == N(ready, "check")
           a == Bit(answering)
           g == Bit(fwd = "got")
           d == Started
<1>2. Books(p, r, k, a, g, d)
  BY Balanced
<1>3. a = 0
  BY <1>1 DEF Bit
<1>4. Filling'
  BY <1>0 DEF PoolInv, Filling, adders
<1>5. ASSUME ~closing
      PROVE  /\ Turns /\ fwd = "waiting" /\ ~waiting /\ r <= 1
             /\ At(ready', "wait") = {} /\ At(ready', "drain") = {}
  <2>1. Turns
    BY <1>5 DEF PoolInv, OpenInv
  <2>2. 1 \in At(ready, "wait") /\ At(ready', "wait") = {} /\ N(ready', "resume") <= 1
    BY <1>0, <1>1, <2>1, RunWaitOrder DEF Run, Turns, WaitInTurn
  <2>3. At(ready', "drain") = {}
    BY <1>0, <1>1, <2>1, RunOrder DEF Turns
  <2> QED BY <1>1, <2>1, <2>2, <2>3 DEF Turns, WaitInTurn
<1>6. CASE closing /\ fwd' = "aborted" /\ UNCHANGED queue
  <2>1. Held' = Held
    BY <1>0, <1>1, <1>6 DEF Held, pool, queue
  <2>2. TypeOK'
    BY <1>0, <1>1, <1>6 DEF TypeOK, Handlers, RunWait, pool, queue, adders, pinger, process
  <2>3. Counted' /\ OpenInv'
    BY <1>0, <1>6, <2>1 DEF PoolInv, Counted, OpenInv, pool
  <2> QED BY <1>4, <2>2, <2>3 DEF PoolInv
<1>7. CASE /\ ~closing /\ vq > 0
           /\ vq' = vq - 1 /\ fwd' = "got" /\ answering' = TRUE
           /\ waiting' = waiting
  <2>1. g = 0 /\ Bit(answering') = 1 /\ Bit(fwd' = "got") = 1
    BY <1>5, <1>7 DEF Bit
  <2>2. /\ Held' = idle + visited + (vq - 1) + p + r + 1
        /\ Promised' = filling + 1 + k + d
        /\ N(ready', "provide") = p /\ N(ready', "resume") = r
    BY <1>0, <1>1, <1>7, <2>1, Same DEF Held, Promised, pool, adders
  <2> HIDE DEF p, r, k, a, g, d
  <2>3. TypeOK'
    <3>1. vq' \in Nat
      BY <1>2, <1>7 DEF Books
    <3> QED BY <1>0, <1>1, <1>7, <3>1 DEF TypeOK, Handlers, RunWait, pool, adders, pinger, process
  <2>4. Counted'
    <3>1. nr >= Held' + ending
      BY <1>2, <1>3, <1>7, <2>2 DEF Books
    <3> QED BY <1>0, <3>1 DEF Counted, pool
  <2>5. Turns'
    <3>1. WaitInTurn'
      BY <1>5, <1>7 DEF WaitInTurn, OneWait, OneAfter, NoneAfter
    <3>2. N(ready', "resume") + Bit(answering') <= 2
      BY <1>2, <1>5, <1>7, <2>1, <2>2 DEF Books
    <3> QED BY <1>5, <1>7, <3>1, <3>2 DEF Turns, QueuedWait, TwoSpent
  <2>6. Known'
    <3>1. nr <= Held' + lost
      BY <1>2, <1>3, <1>7, <2>2 DEF Books
    <3> QED BY <1>0, <3>1 DEF Known, pool
  <2>7. Supplied'
    <3>1. ctrl \in {"filling", "serving"} /\ ~failed =>
            idle + visited + (vq - 1) + p + Promised' + lost + 2 >= Mark
      BY <1>2, <1>7, <2>1, <2>2 DEF Books
    <3> QED BY <1>0, <1>7, <2>2, <3>1, Same DEF Supplied, pool, adders
  <2> QED BY <1>4, <2>3, <2>4, <2>5, <2>6, <2>7 DEF PoolInv, OpenInv
<1>8. CASE /\ ~closing /\ vq = 0 /\ waiting' = TRUE
           /\ UNCHANGED <<vq, answering, fwd>>
  <2>1. /\ Held' = idle + visited + vq + p + r + a
        /\ Promised' = filling + g + k + d
        /\ N(ready', "provide") = p /\ N(ready', "resume") = r
    BY <1>0, <1>1, <1>8, Same DEF Held, Promised, pool, adders
  <2>2. Turns'
    <3>1. WaitInTurn'
      BY <1>1, <1>5, <1>8 DEF WaitInTurn, OneWait, OneAfter, NoneAfter
    <3>2. TwoSpent'
      BY <1>1, <1>5, <1>8 DEF Turns, TwoSpent
    <3>3. QueuedWait'
      BY <1>1, <1>5, <1>8, <2>1 DEF QueuedWait
    <3> QED BY <1>5, <1>8, <3>1, <3>2, <3>3 DEF Turns
  <2> HIDE DEF p, r, k, a, g, d
  <2>3. TypeOK'
    BY <1>0, <1>1, <1>8 DEF TypeOK, Handlers, RunWait, pool, adders, pinger, process
  <2>4. Counted'
    <3>1. nr >= Held' + ending
      BY <1>2, <2>1 DEF Books
    <3> QED BY <1>0, <3>1 DEF Counted, pool
  <2>6. Known'
    <3>1. nr <= Held' + lost
      BY <1>2, <1>8, <2>1 DEF Books
    <3> QED BY <1>0, <3>1 DEF Known, pool
  <2>7. Supplied'
    <3>1. ctrl \in {"filling", "serving"} /\ ~failed =>
            idle + visited + vq + p + Promised' + lost + 2 >= Mark
      BY <1>2, <1>8, <2>1 DEF Books
    <3> QED BY <1>0, <1>8, <2>1, <3>1, Same DEF Supplied, pool, adders
  <2> QED BY <1>4, <2>2, <2>3, <2>4, <2>6, <2>7 DEF PoolInv, OpenInv
<1> QED BY <1>6, <1>7, <1>8 DEF RunWait

LEMMA AnswerProvideKeeps == ASSUME PoolInv, VisitsTyped', AnswerProvide PROVE PoolInv'
<1>0. /\ TypeOK /\ answering = TRUE /\ answering' = FALSE /\ ready' = Append(ready, "resume")
      /\ UNCHANGED <<pool, waiting, vq, adders, fwd, closing, lost, cfg>>
  BY DEF PoolInv, AnswerProvide, process, TypeOK
<1>1. /\ ready' \in Seq(Handlers) /\ ready \in Seq(Handlers) /\ "resume" \in Handlers
      /\ N(ready', "resume") = N(ready, "resume") + 1
      /\ N(ready', "provide") = N(ready, "provide")
      /\ N(ready', "check") = N(ready, "check")
  <2>1. "check" # "resume" /\ "provide" # "resume" /\ "resume" \in Handlers
    BY DEF Handlers
  <2> QED BY <1>0, <2>1, AfterAppend, Numbers
<1> DEFINE p == N(ready, "provide")
           r == N(ready, "resume")
           k == N(ready, "check")
           a == Bit(answering)
           g == Bit(fwd = "got")
           d == Started
<1>2. Books(p, r, k, a, g, d)
  BY Balanced
<1>3. a = 1 /\ Bit(answering') = 0
  BY <1>0 DEF Bit
<1>4. /\ Held' = idle + visited + vq + p + (r + 1) + 0
      /\ Promised' = filling + g + k + d
      /\ N(ready', "provide") = p /\ N(ready', "resume") = r + 1
  BY <1>0, <1>1, <1>3, Same DEF Held, Promised, pool, adders
<1>5. ASSUME ~closing PROVE Turns'
  <2>1. Turns
    BY <1>5 DEF PoolInv, OpenInv
  <2>2. ~waiting
    BY <1>0, <2>1 DEF Turns, QueuedWait
  <2>3. /\ At(ready', "wait") = At(ready, "wait") /\ At(ready', "drain") = {}
        /\ OneWait(ready') /\ OneAfter(ready')
    <3>1. "resume" # "wait" /\ "resume" # "drain"
      OBVIOUS
    <3> QED BY <1>0, <1>1, <2>1, <3>1, AppendedOrder DEF Turns, WaitInTurn
  <2>4. WaitInTurn'
    BY <1>0, <2>1, <2>2, <2>3 DEF Turns, WaitInTurn
  <2>5. r + 1 + 0 <= 2
    <3> HIDE DEF p, r, k, a, g, d
    <3> QED BY <1>2, <1>3, <1>5 DEF Books
  <2> QED BY <1>0, <1>3, <1>4, <2>2, <2>3, <2>4, <2>5 DEF Turns, QueuedWait, TwoSpent
<1> HIDE DEF p, r, k, a, g, d
<1>6. TypeOK'
  BY <1>0, <1>1 DEF TypeOK, Handlers, AnswerProvide, pool, adders, pinger, process
<1>7. Filling'
  BY <1>0 DEF PoolInv, Filling, adders
<1>8. Counted'
  <2>1. nr >= Held' + ending
    BY <1>2, <1>3, <1>4 DEF Books
  <2> QED BY <1>0, <2>1 DEF Counted, pool
<1>9. ASSUME ~closing PROVE Known' /\ Supplied'
  <2>1. nr <= Held' + lost
    BY <1>2, <1>3, <1>4, <1>9 DEF Books
  <2>2. ctrl \in {"filling", "serving"} /\ ~failed =>
          idle + visited + vq + p + Promised' + lost + 2 >= Mark
    BY <1>2, <1>4, <1>9 DEF Books
  <2> QED BY <1>0, <1>4, <2>1, <2>2, Same DEF Known, Supplied, pool, adders
<1>10. OpenInv'
  BY <1>0, <1>5, <1>9 DEF OpenInv
<1> QED BY <1>6, <1>7, <1>8, <1>10 DEF PoolInv

(* Only a closed queue is drained: its sockets' workers resume.            *)
LEMMA RunDrainKeeps == ASSUME PoolInv, VisitsTyped', RunDrain PROVE PoolInv'
<1>0. /\ TypeOK /\ Run("drain") /\ ready' = Tail(ready) \o [i \in 1..vq |-> "resume"]
      /\ fwd' = (IF waiting THEN "aborted" ELSE fwd) /\ waiting' = FALSE /\ vq' = 0
      /\ UNCHANGED <<answering, pool, adders, closing, lost, cfg>>
  BY DEF PoolInv, RunDrain, process
<1>1. closing
  <2> SUFFICES ASSUME ~closing PROVE FALSE
    OBVIOUS
  <2>1. At(ready, "drain") = {}
    BY DEF PoolInv, OpenInv, Turns
  <2>2. 1 \in At(ready, "drain")
    BY <1>0, AfterRun, TailAt DEF Run
  <2> QED BY <2>1, <2>2
<1>2. /\ ready' \in Seq(Handlers)
      /\ N(ready', "resume") = N(ready, "resume") + vq
      /\ N(ready', "provide") = N(ready, "provide")
  <2>1. /\ Tail(ready) \in Seq(Handlers) /\ N(Tail(ready), "provide") \in Nat
        /\ N(Tail(ready), "provide") = N(ready, "provide")
        /\ N(Tail(ready), "resume") = N(ready, "resume")
    <3>1. "drain" # "resume" /\ "drain" # "provide"
      OBVIOUS
    <3> QED BY <1>0, <3>1, AfterRun, AtFinite
  <2>2. vq \in Nat /\ "resume" \in Handlers /\ "resume" # "provide"
    BY <1>0, Numbers DEF Handlers
  <2> DEFINE s == Tail(ready)
             f == [i \in 1..vq |-> "resume"]
             u == s \o f
  <2>3. /\ s \in Seq(Handlers)
        /\ f \in Seq(Handlers) /\ Len(f) = vq /\ \A i \in 1..Len(f) : f[i] = "resume"
    <3>1. f \in [1..vq -> Handlers]
      BY <2>2
    <3>2. f \in Seq(Handlers)
      BY <2>2, <3>1, SeqDef
    <3>3. Len(f) = vq
      BY <2>2, <3>1, <3>2, LenProperties
    <3> QED BY <2>1, <3>2, <3>3
  <2> HIDE DEF s, f
  <2>4. u \in Seq(Handlers) /\ \A h : N(u, h) = N(s, h) + IF "resume" = h THEN vq ELSE 0
    BY <2>2, <2>3, CountRepeated
  <2>5. ready' = u
    BY <1>0 DEF s, f
  <2> HIDE DEF u
  <2>6. N(u, "resume") = N(s, "resume") + vq
    BY <2>4
  <2>7. N(u, "provide") = N(s, "provide") + 0
    BY <2>2, <2>4
  <2> QED BY <2>1, <2>4, <2>5, <2>6, <2>7 DEF s
<1>3. Counted'
  <2>1. /\ idle \in Nat /\ visited \in Nat /\ vq \in Nat /\ ending \in Nat /\ nr \in Nat
        /\ N(ready, "provide") \in Nat /\ N(ready, "resume") \in Nat /\ Bit(answering) \in Nat
    BY <1>0, Numbers
  <2>2. Held' = idle + visited + 0 + N(ready, "provide") + (N(ready, "resume") + vq) + Bit(answering)
    BY <1>0, <1>2 DEF Held, pool
  <2>3. Held' = Held
    BY <2>1, <2>2 DEF Held
  <2> QED BY <1>0, <2>3 DEF PoolInv, Counted, pool
<1>4. TypeOK'
  <2>1. fwd' \in {"start", "waiting", "got", "checked", "aborted", "failing", "ended"}
    BY <1>0 DEF TypeOK
  <2>2. waiting' \in BOOLEAN /\ vq' \in Nat
    BY <1>0
  <2> QED BY <1>0, <1>2, <2>1, <2>2 DEF TypeOK, Handlers, RunDrain, pool, adders, pinger, process
<1>5. Filling' /\ OpenInv'
  BY <1>0, <1>1 DEF PoolInv, Filling, OpenInv, adders
<1> QED BY <1>3, <1>4, <1>5 DEF PoolInv

-----------------------------------------------------------------------------
(* The forwarder's thread.                                                 *)

(* The check: either the pool is not short, even if the two spent workers  *)
(* are still counted, or a refill is posted.                               *)
LEMMA FwdCheckKeeps == ASSUME PoolInv, VisitsTyped', FwdCheck PROVE PoolInv'
<1>0. /\ TypeOK /\ fwd = "got" /\ fwd' = "checked"
      /\ ready' = IF nr < cfg.low THEN Append(ready, "check") ELSE ready
      /\ UNCHANGED <<pool, queue, adders, closing, lost, cfg>>
  BY DEF PoolInv, FwdCheck, process
<1> DEFINE p == N(ready, "provide")
           r == N(ready, "resume")
           k == N(ready, "check")
           a == Bit(answering)
           g == Bit(fwd = "got")
           d == Started
<1>2. Books(p, r, k, a, g, d)
  BY Balanced
<1>1. /\ ready \in Seq(Handlers) /\ "check" \in Handlers
      /\ ready' \in Seq(Handlers)
      /\ N(ready', "provide") = p /\ N(ready', "resume") = r
      /\ N(ready', "check") = IF nr < cfg.low THEN k + 1 ELSE k
      /\ At(ready', "wait") = At(ready, "wait") /\ At(ready', "drain") = At(ready, "drain")
  <2>1. /\ "check" \in Handlers /\ "check" # "provide" /\ "check" # "resume"
        /\ "check" # "wait" /\ "check" # "drain" /\ ready \in Seq(Handlers)
    BY <1>0, Numbers DEF Handlers
  <2>2. CASE nr < cfg.low
    BY <1>0, <2>1, <2>2, AfterAppend, AppendedOrder
  <2>3. CASE ~(nr < cfg.low)
    BY <1>0, <2>1, <2>3
  <2> QED BY <2>1, <2>2, <2>3
<1>3. g = 1 /\ Bit(fwd' = "got") = 0
  BY <1>0 DEF Bit
<1> DEFINE l == N(ready', "check")
<1>4. /\ Held' = idle + visited + vq + p + r + a
      /\ Promised' = filling + 0 + l + d
      /\ l = IF nr < cfg.low THEN k + 1 ELSE k
  BY <1>0, <1>1, <1>3, Same DEF Held, Promised, pool, queue, adders
<1>5. ASSUME ~closing PROVE Turns'
  <2>1. Turns
    BY <1>5 DEF PoolInv, OpenInv
  <2>2. ~waiting /\ At(ready, "wait") = {}
    BY <1>0, <2>1 DEF Turns, WaitInTurn, QueuedWait
  <2>3. WaitInTurn'
    BY <1>1, <2>2 DEF WaitInTurn, OneWait, OneAfter, NoneAfter
  <2> QED BY <1>0, <1>1, <2>1, <2>2, <2>3 DEF Turns, QueuedWait, TwoSpent, queue
<1> HIDE DEF p, r, k, a, g, d, l
<1>6. TypeOK'
  BY <1>0, <1>1 DEF TypeOK, Handlers, FwdCheck, pool, queue, adders, pinger, process
<1>7. Filling'
  BY <1>0 DEF PoolInv, Filling, adders
<1>8. Counted'
  <2>1. nr >= Held' + ending
    BY <1>2, <1>4 DEF Books
  <2> QED BY <1>0, <2>1 DEF Counted, pool
<1>9. ASSUME ~closing PROVE Known' /\ Supplied'
  <2>1. nr <= Held' + lost
    BY <1>2, <1>4, <1>9 DEF Books
  <2>2. CASE nr < cfg.low
    <3>1. ctrl \in {"filling", "serving"} /\ ~failed =>
            idle + visited + vq + p + Promised' + lost + 2 >= Mark
      BY <1>2, <1>3, <1>4, <1>9, <2>2 DEF Books
    <3> QED BY <1>0, <1>1, <2>1, <3>1, Same DEF Known, Supplied, pool, queue, adders
  <2>3. CASE ~(nr < cfg.low)
    <3>1. Mark <= cfg.low /\ cfg.low \in Nat
      BY <1>0, Parameters
    <3>2. idle + visited + vq + p + Promised' + lost + 2 >= Mark
      BY <1>2, <1>4, <1>9, <2>3, <3>1 DEF Books
    <3> QED BY <1>0, <1>1, <2>1, <3>2, Same DEF Known, Supplied, pool, queue, adders
  <2> QED BY <2>2, <2>3
<1>10. OpenInv'
  BY <1>0, <1>5, <1>9 DEF OpenInv
<1> QED BY <1>6, <1>7, <1>8, <1>10 DEF PoolInv

LEMMA FwdNextKeeps == ASSUME PoolInv, VisitsTyped', FwdNext PROVE PoolInv'
<1>0. /\ TypeOK /\ fwd \in {"start", "checked"} /\ fwd' = "waiting"
      /\ ready' = Append(ready, "wait")
      /\ UNCHANGED <<pool, queue, adders, closing, lost, cfg>>
  BY DEF PoolInv, FwdNext, process
<1> DEFINE p == N(ready, "provide")
           r == N(ready, "resume")
           k == N(ready, "check")
           a == Bit(answering)
           g == Bit(fwd = "got")
           d == Started
<1>2. Books(p, r, k, a, g, d)
  BY Balanced
<1>1. /\ ready \in Seq(Handlers) /\ "wait" \in Handlers /\ ready' \in Seq(Handlers)
      /\ N(ready', "provide") = p /\ N(ready', "resume") = r /\ N(ready', "check") = k
      /\ At(ready', "drain") = At(ready, "drain")
  <2>1. /\ "wait" \in Handlers /\ "wait" # "provide" /\ "wait" # "resume"
        /\ "wait" # "check" /\ "wait" # "drain" /\ ready \in Seq(Handlers)
    BY <1>0, Numbers DEF Handlers
  <2> QED BY <1>0, <2>1, AfterAppend, AppendedOrder
<1>3. g = 0 /\ Bit(fwd' = "got") = 0
  BY <1>0 DEF Bit
<1>4. /\ Held' = idle + visited + vq + p + r + a
      /\ Promised' = filling + 0 + k + d
  BY <1>0, <1>1, <1>3, Same DEF Held, Promised, pool, queue, adders
<1>5. ASSUME ~closing PROVE Turns'
  <2>1. Turns
    BY <1>5 DEF PoolInv, OpenInv
  <2>2. ~waiting /\ At(ready, "wait") = {}
    BY <1>0, <2>1 DEF Turns, WaitInTurn, QueuedWait
  <2>3. OneWait(ready') /\ OneAfter(ready') /\ NoneAfter(ready')
    BY <1>0, <1>1, <2>2, AppendedOrder
  <2>4. WaitInTurn'
    BY <1>0, <2>2, <2>3 DEF WaitInTurn, queue
  <2> QED BY <1>0, <1>1, <2>1, <2>2, <2>4 DEF Turns, QueuedWait, TwoSpent, queue
<1> HIDE DEF p, r, k, a, g, d
<1>6. TypeOK'
  BY <1>0, <1>1 DEF TypeOK, Handlers, FwdNext, pool, queue, adders, pinger, process
<1>7. Filling'
  BY <1>0 DEF PoolInv, Filling, adders
<1>8. Counted'
  <2>1. nr >= Held' + ending
    BY <1>2, <1>4 DEF Books
  <2> QED BY <1>0, <2>1 DEF Counted, pool
<1>9. ASSUME ~closing PROVE Known' /\ Supplied'
  <2>1. nr <= Held' + lost
    BY <1>2, <1>4, <1>9 DEF Books
  <2>2. ctrl \in {"filling", "serving"} /\ ~failed =>
          idle + visited + vq + p + Promised' + lost + 2 >= Mark
    BY <1>2, <1>3, <1>4, <1>9 DEF Books
  <2> QED BY <1>0, <1>1, <2>1, <2>2, Same DEF Known, Supplied, pool, queue, adders
<1>10. OpenInv'
  BY <1>0, <1>5, <1>9 DEF OpenInv
<1> QED BY <1>6, <1>7, <1>8, <1>10 DEF PoolInv

(* A forwarder that fails holds no wait and no socket.                     *)
LEMMA FwdThrowsKeeps == ASSUME PoolInv, VisitsTyped', FwdThrows PROVE PoolInv'
<1>0. /\ TypeOK /\ fwd \in {"checked", "aborted"} /\ fwd' = "failing"
      /\ UNCHANGED <<pool, queue, adders, ready, closing, lost, pinger, process>>
  BY DEF PoolInv, FwdThrows
<1>1. \A h : N(ready', h) = N(ready, h) /\ At(ready', h) = At(ready, h)
  BY <1>0
<1>2. Bit(fwd' = "got") = Bit(fwd = "got")
  BY <1>0 DEF Bit
<1>3. /\ idle' = idle /\ visited' = visited /\ vq' = vq /\ lost' = lost /\ cfg' = cfg
      /\ nr' = nr /\ ending' = ending /\ ctrl' = ctrl /\ failed' = failed
      /\ filling' = filling /\ adding' = adding /\ answering' = answering
  BY <1>0 DEF pool, queue, adders, process
<1>4. Held' = Held /\ Promised' = Promised /\ Mark' = Mark
  BY <1>1, <1>2, <1>3, Same DEF Held, Promised
<1>5. TypeOK'
  BY <1>0, <1>3 DEF TypeOK, queue, pinger, process
<1>6. Counted' /\ Filling'
  BY <1>3, <1>4 DEF PoolInv, Counted, Filling
<1>7. OpenInv'
  <2> SUFFICES ASSUME ~closing' PROVE Turns' /\ Known' /\ Supplied'
    BY DEF OpenInv
  <2>1. Turns /\ Known /\ Supplied
    BY <1>0 DEF PoolInv, OpenInv
  <2>2. Turns'
    <3>1. At(ready, "wait") = {} /\ ~waiting
      BY <1>0, <2>1 DEF Turns, WaitInTurn, QueuedWait
    <3> QED BY <1>0, <1>1, <1>3, <2>1, <3>1 DEF Turns, WaitInTurn, QueuedWait, TwoSpent, queue
  <2>3. Known' /\ Supplied'
    BY <1>1, <1>3, <1>4, <2>1 DEF Known, Supplied
  <2> QED BY <2>2, <2>3
<1> QED BY <1>5, <1>6, <1>7 DEF PoolInv

-----------------------------------------------------------------------------
(* What the visits do that go on leaves the pool as it is.                 *)
LEMMA VisitsKeep ==
  ASSUME PoolInv, VisitsTyped', Connected \/ ConnectFails \/ PipesEnd \/ SweepPipes
  PROVE  PoolInv'
<1>1. /\ TypeOK /\ UNCHANGED <<queue, ready, fwd, closing>>
      /\ UNCHANGED <<pool, adders, lost, pinger, process>>
  BY DEF PoolInv, Connected, ConnectFails, PipesEnd, SweepPipes
<1>2. TypeOK'
  BY <1>1 DEF TypeOK, pool, queue, adders, pinger, process
<1>3. Filling'
  BY <1>1 DEF PoolInv, Filling, adders
<1>4. CountKept /\ KnownKept /\ SupplyKept
  <2>1. /\ filling \in Nat /\ idle \in Nat /\ nr \in Nat
        /\ visited \in Nat /\ ending \in Nat /\ lost \in Nat /\ Started \in Nat
    BY <1>1, Numbers
  <2> QED BY <1>1, <2>1, Same DEF CountKept, KnownKept, SupplyKept, pool, adders, process
<1>5. cfg' = cfg
  BY <1>1 DEF process
<1> QED BY <1>1, <1>2, <1>3, <1>4, <1>5, QueueSameKeeps

LEMMA VisitsStayTyped ==
  ASSUME VisitsTyped, [Next]_vars
  PROVE  VisitsTyped'
<1> USE DEF VisitsTyped, visits
<1>1. StopShare => told' \in {"no", "due", "done"}
  BY DEF StopShare, PostStop
<1>2. \A what \in {"worker", "pipe"} : Late(what) => late' \subseteq {"worker", "pipe"}
  BY DEF Late
<1>3. CASE Sigint \/ CtrlFails \/ PingFails \/ FwdFails
  BY <1>1, <1>3 DEF Sigint, CtrlFails, PingFails, FwdFails, TryStop
<1>4. CASE CtrlAddsWorker \/ \E n \in Refills : AdderConnects(n)
  BY <1>2, <1>4 DEF CtrlAddsWorker, AdderConnects, AdderAddsWorker, AdderFails, AddWorker
<1>5. CASE ServerHello \/ Pong \/ PingDue \/ PingSent \/ MainEnds
  BY <1>5 DEF ServerHello, Pong, PingDue, PingSent, MainEnds
<1>6. CASE Visit \/ Confirm \/ Lose \/ Destroy \/ AnswerProvide
  BY <1>6 DEF Visit, Confirm, Lose, Destroy, AnswerProvide
<1>7. CASE RunHandler
  BY <1>7 DEF RunHandler, RunCheck, RunResume, RunProvide, RunWait, RunDrain
<1>8. CASE FwdCheck \/ FwdNext \/ FwdThrows
  BY <1>8 DEF FwdCheck, FwdNext, FwdThrows
<1>9. CASE Connected \/ ConnectFails \/ PipesEnd \/ SweepPipes
  BY <1>9 DEF Connected, ConnectFails, PipesEnd, SweepPipes
<1>10. CASE UNCHANGED vars
  BY <1>10 DEF vars
<1> QED BY <1>3, <1>4, <1>5, <1>6, <1>7, <1>8, <1>9, <1>10 DEF Next

LEMMA PoolStutter == ASSUME PoolInv, VisitsTyped', UNCHANGED vars PROVE PoolInv'
<1>1. /\ TypeOK /\ UNCHANGED <<queue, ready, fwd, closing>>
      /\ UNCHANGED <<pool, adders, lost, pinger, process>>
  BY DEF PoolInv, vars
<1>2. TypeOK'
  BY <1>1 DEF TypeOK, pool, queue, adders, pinger, process
<1>3. Filling'
  BY <1>1 DEF PoolInv, Filling, adders
<1>4. CountKept /\ KnownKept /\ SupplyKept
  <2>1. /\ filling \in Nat /\ idle \in Nat /\ nr \in Nat
        /\ visited \in Nat /\ ending \in Nat /\ lost \in Nat /\ Started \in Nat
    BY <1>1, Numbers
  <2>2. /\ idle' = idle /\ visited' = visited /\ lost' = lost /\ filling' = filling
        /\ ending' = ending /\ nr' = nr
        /\ ctrl' = ctrl /\ failed' = failed /\ Started' = Started
    BY <1>1, Same DEF pool, adders, process
  <2> QED BY <2>1, <2>2 DEF CountKept, KnownKept, SupplyKept
<1>5. cfg' = cfg
  BY <1>1 DEF process
<1> QED BY <1>1, <1>2, <1>3, <1>4, <1>5, QueueSameKeeps

LEMMA PoolInvariance == Spec => []PoolInv
<1>1. PoolInv /\ [Next]_vars => PoolInv'
  <2> SUFFICES ASSUME PoolInv, [Next]_vars PROVE PoolInv'
    OBVIOUS
  <2>0. VisitsTyped'
    BY VisitsStayTyped DEF PoolInv, TypeOK
  <2>1. CASE Sigint \/ CtrlFails \/ PingFails \/ FwdFails
    BY <2>0, <2>1, SigintKeeps, CtrlFailsKeeps, PingFailsKeeps, FwdFailsKeeps
  <2>2. CASE ServerHello \/ Pong \/ PingDue \/ PingSent \/ MainEnds
    BY <2>0, <2>2, ServerHelloKeeps, PongKeeps, PingDueKeeps, PingSentKeeps, MainEndsKeeps
  <2>3. CASE CtrlAddsWorker \/ Visit \/ Confirm \/ Lose \/ Destroy
    BY <2>0, <2>3, CtrlAddsWorkerKeeps, VisitKeeps, ConfirmKeeps, LoseKeeps, DestroyKeeps
  <2>4. ASSUME NEW n \in Refills, AdderConnects(n) PROVE PoolInv'
    BY <2>0, <2>4, AdderAddsWorkerKeeps, AdderFailsKeeps DEF AdderConnects
  <2>5. CASE RunHandler
    BY <2>0, <2>5, RunCheckKeeps, RunResumeKeeps, RunProvideKeeps, RunWaitKeeps, RunDrainKeeps
       DEF RunHandler
  <2>6. CASE AnswerProvide \/ FwdCheck \/ FwdNext \/ FwdThrows
    BY <2>0, <2>6, AnswerProvideKeeps, FwdCheckKeeps, FwdNextKeeps, FwdThrowsKeeps
  <2>7. CASE UNCHANGED vars
    BY <2>0, <2>7, PoolStutter
  <2>8. CASE Connected \/ ConnectFails \/ PipesEnd \/ SweepPipes
    BY <2>0, <2>8, VisitsKeep
  <2> QED BY <2>1, <2>2, <2>3, <2>4, <2>5, <2>6, <2>7, <2>8 DEF Next
<1> QED BY <1>1, PoolInit, PTL DEF Spec

(* The types of the pool's variables, and that nr_workers_ stays within    *)
(* what was connected: no worker's end takes it below zero.                *)
THEOREM TypeCorrect == Spec => []TypeOK
<1>1. PoolInv => TypeOK
  BY DEF PoolInv
<1> QED BY <1>1, PoolInvariance, PTL

(* For every configuration: a share with nothing under way is short of its *)
(* mark, the lower of worker_count_initial and worker_count_low, by no     *)
(* more than the two spent workers the forwarder may have counted, the     *)
(* lost and the leaked ones.                                               *)
THEOREM KeepsUp == Spec => []PoolKeepsUp
<1>1. PoolInv => PoolKeepsUp
  <2> SUFFICES ASSUME PoolInv, Quiet, ~failed PROVE idle + lost + 2 >= Mark
    BY DEF PoolKeepsUp
  <2>1. TypeOK /\ ~closing /\ Filling /\ Supplied /\ QueuedWait
    BY DEF PoolInv, OpenInv, Turns, Quiet
  <2>2. filling = 0 /\ ctrl = "serving" /\ visited = 0 /\ vq = 0 /\ fwd = "waiting"
    BY <2>1 DEF Quiet, Filling, QueuedWait
  <2>3. Started = 0
    BY <2>1, Parameters DEF Started, Quiet, NobodyAdds
  <2>4. N(ready, "provide") = 0 /\ N(ready, "check") = 0
    <3>1. \A h : At(ready, h) = {}
      BY EmptySeq DEF Quiet, At
    <3> QED BY <3>1, FS_EmptySet DEF N
  <2>5. Bit(fwd = "got") = 0
    BY <2>2 DEF Bit
  <2>6. idle + 0 + 0 + 0 + (0 + 0 + 0 + 0) + lost + 2 >= Mark
    BY <2>1, <2>2, <2>3, <2>4, <2>5, Same DEF Supplied, Promised
  <2>7. idle \in Nat /\ lost \in Nat
    BY <2>1, Numbers
  <2> QED BY <2>6, <2>7
<1> QED BY <1>1, PoolInvariance, PTL

=============================================================================
