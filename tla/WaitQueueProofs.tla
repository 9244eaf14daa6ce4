--------------------------- MODULE WaitQueueProofs ---------------------------
(* Proofs that waitqueue keeps its promises for any number of calls.       *)
EXTENDS WaitQueue, SequenceTheorems, TLAPS

(* The lambdas that exec_ has not run yet.                                 *)
Unrun == (ran + 1)..Len(posted)

(* A call is in one place at a time: among the lambdas still to run, once, *)
(* or in one of the queues, once.                                          *)
OnePlace ==
  /\ \A i \in Unrun : stage[posted[i]] = "posted"
  /\ \A i, j \in Unrun : posted[i] = posted[j] => i = j
  /\ \A i \in 1..Len(q) : stage[q[i]] = "queued"
  /\ \A i, j \in 1..Len(q) : q[i] = q[j] => i = j
  /\ \A i \in 1..Len(vq) : stage[vq[i]] = "queued"
  /\ \A i, j \in 1..Len(vq) : vq[i] = vq[j] => i = j

(* A handler has been invoked when its call is done, and not before.       *)
AnsweredWhenDone ==
  \A c \in Calls : Len(results[c]) = IF stage[c] = "done" THEN 1 ELSE 0

(* What makes OneShot inductive.                                           *)
CallInv == TypeOK /\ OnePlace /\ AnsweredWhenDone

-----------------------------------------------------------------------------
(* The three kinds of calls are apart.                                     *)
LEMMA CallSets ==
  /\ Waits \subseteq Calls /\ Provides \subseteq Calls
  /\ \A c \in Calls : c \in Waits \/ c \in Provides
  /\ \A w \in Waits : w \notin Provides
  /\ \A k \in Closers : k \notin Calls
BY CallsAssumption DEF CallsAssumption, Calls

LEMMA NoLength == Len(<<>>) = 0
BY EmptySeq

(* Posting a lambda.                                                       *)
LEMMA PostType ==
  ASSUME TypeOK, NEW c \in Calls \cup Closers, Post(c),
         UNCHANGED <<q, vq, closed, ran, results>>
  PROVE  TypeOK'
BY DEF TypeOK, Post, Stages

(* Invoking a handler leaves every call with a sequence of answers.        *)
LEMMA InvokeType ==
  ASSUME NEW res \in [Calls -> Seq(Answers)], NEW c \in Calls, NEW r \in Answers
  PROVE  Invoke(res, c, r) \in [Calls -> Seq(Answers)]
BY DEF Invoke

LEMMA RunWaitType ==
  ASSUME TypeOK, NEW w \in Waits, RunWait(w)
  PROVE  TypeOK'
<1> USE CallSets
<1>1. ran' \in 0..Len(posted') /\ posted' \in Seq(Calls \cup Closers) /\ closed' \in BOOLEAN
  BY DEF TypeOK, RunWait, NextLambda
<1>2. "aborted" \in Answers /\ "ok" \in Answers /\ \A p \in Provides : p \in Answers
  BY DEF Answers
<1>3. q' \in Seq(Waits) /\ vq' \in Seq(Provides)
  <2>1. vq # <<>> => Tail(vq) \in Seq(Provides)
    BY HeadTailProperties DEF TypeOK
  <2>2. Append(q, w) \in Seq(Waits)
    BY DEF TypeOK
  <2> QED BY <2>1, <2>2 DEF TypeOK, RunWait
<1>4. stage' \in [Calls \cup Closers -> Stages]
  BY HeadTailProperties DEF TypeOK, RunWait, Stages
<1>5. results' \in [Calls -> Seq(Answers)]
  <2>1. CASE closed
    <3>1. Invoke(results, w, "aborted") \in [Calls -> Seq(Answers)]
      BY <1>2, InvokeType DEF TypeOK
    <3> QED BY <2>1, <3>1 DEF RunWait
  <2>2. CASE ~closed /\ vq # <<>>
    <3>1. Head(vq) \in Provides
      BY <2>2, HeadTailProperties DEF TypeOK
    <3>2. Invoke(results, w, Head(vq)) \in [Calls -> Seq(Answers)]
      BY <3>1, <1>2, InvokeType DEF TypeOK
    <3>3. Invoke(Invoke(results, w, Head(vq)), Head(vq), "ok") \in [Calls -> Seq(Answers)]
      BY <3>1, <3>2, <1>2, InvokeType
    <3> QED BY <2>2, <3>3 DEF RunWait
  <2>3. CASE ~closed /\ vq = <<>>
    BY <2>3 DEF TypeOK, RunWait
  <2> QED BY <2>1, <2>2, <2>3
<1> QED BY <1>1, <1>3, <1>4, <1>5 DEF TypeOK

LEMMA RunProvideType ==
  ASSUME TypeOK, NEW p \in Provides, RunProvide(p)
  PROVE  TypeOK'
<1> USE CallSets
<1>1. ran' \in 0..Len(posted') /\ posted' \in Seq(Calls \cup Closers) /\ closed' \in BOOLEAN
  BY DEF TypeOK, RunProvide, NextLambda
<1>2. "aborted" \in Answers /\ "ok" \in Answers /\ p \in Answers
  BY DEF Answers
<1>3. q' \in Seq(Waits) /\ vq' \in Seq(Provides)
  <2>1. q # <<>> => Tail(q) \in Seq(Waits)
    BY HeadTailProperties DEF TypeOK
  <2>2. Append(vq, p) \in Seq(Provides)
    BY DEF TypeOK
  <2> QED BY <2>1, <2>2 DEF TypeOK, RunProvide
<1>4. stage' \in [Calls \cup Closers -> Stages]
  BY HeadTailProperties DEF TypeOK, RunProvide, Stages
<1>5. results' \in [Calls -> Seq(Answers)]
  <2>1. CASE closed
    <3>1. Invoke(results, p, "aborted") \in [Calls -> Seq(Answers)]
      BY <1>2, InvokeType DEF TypeOK
    <3> QED BY <2>1, <3>1 DEF RunProvide
  <2>2. CASE ~closed /\ q # <<>>
    <3>1. Head(q) \in Calls
      BY <2>2, HeadTailProperties DEF TypeOK
    <3>2. Invoke(results, Head(q), p) \in [Calls -> Seq(Answers)]
      BY <3>1, <1>2, InvokeType DEF TypeOK
    <3>3. Invoke(Invoke(results, Head(q), p), p, "ok") \in [Calls -> Seq(Answers)]
      BY <3>2, <1>2, InvokeType
    <3> QED BY <2>2, <3>3 DEF RunProvide
  <2>3. CASE ~closed /\ q = <<>>
    BY <2>3 DEF TypeOK, RunProvide
  <2> QED BY <2>1, <2>2, <2>3
<1> QED BY <1>1, <1>3, <1>4, <1>5 DEF TypeOK

LEMMA InitType == Init => TypeOK
<1> SUFFICES ASSUME Init PROVE TypeOK
  OBVIOUS
<1>1. Len(posted) = 0
  BY NoLength, Zenon DEF Init
<1>2. ran = 0
  BY DEF Init
<1>3. ran \in 0..Len(posted)
  BY <1>1, <1>2
<1>4. stage \in [Calls \cup Closers -> Stages] /\ closed \in BOOLEAN
  BY DEF Init, Stages
<1>5. q \in Seq(Waits) /\ vq \in Seq(Provides) /\ posted \in Seq(Calls \cup Closers)
  BY DEF Init
<1>6. results \in [Calls -> Seq(Answers)]
  BY DEF Init
<1> QED BY <1>3, <1>4, <1>5, <1>6 DEF TypeOK

(* The variables of waitqueue keep their types.                            *)
THEOREM TypeCorrect == Spec => []TypeOK
<1>1. Init => TypeOK
  BY InitType
<1>2. TypeOK /\ [Next]_vars => TypeOK'
  <2> SUFFICES ASSUME TypeOK, [Next]_vars PROVE TypeOK'
    OBVIOUS
  <2>1. ASSUME NEW w \in Waits, CallWait(w) PROVE TypeOK'
    BY <2>1, PostType, CallSets DEF CallWait
  <2>2. ASSUME NEW p \in Provides, CallProvide(p) PROVE TypeOK'
    BY <2>2, PostType, CallSets DEF CallProvide
  <2>3. ASSUME NEW k \in Closers, SetClosed(k) PROVE TypeOK'
    BY <2>3 DEF TypeOK, SetClosed, Stages
  <2>4. ASSUME NEW k \in Closers, PostDrain(k) PROVE TypeOK'
    BY <2>4, PostType DEF PostDrain
  <2>5. ASSUME NEW k \in Closers, RunDrain(k) PROVE TypeOK'
    BY <2>5 DEF TypeOK, RunDrain, NextLambda, Stages, Answers
  <2>6. CASE UNCHANGED vars
    BY <2>6 DEF TypeOK, vars
  <2> QED BY <2>1, <2>2, <2>3, <2>4, <2>5, <2>6, RunWaitType, RunProvideType
          DEF Next, RunLambda
<1> QED BY <1>1, <1>2, PTL DEF Spec

(* wait() and provide() never leave a waiter and a value side by side.     *)
THEOREM LostWakeupFree == Spec => []NoLostWakeup
<1>1. Init => NoLostWakeup
  BY DEF Init, NoLostWakeup
<1>2. TypeOK /\ NoLostWakeup /\ [Next]_vars => NoLostWakeup'
  <2> SUFFICES ASSUME TypeOK, NoLostWakeup, [Next]_vars PROVE NoLostWakeup'
    OBVIOUS
  <2> USE DEF NoLostWakeup
  <2>1. ASSUME NEW w \in Waits, RunWait(w) PROVE NoLostWakeup'
    BY <2>1 DEF RunWait
  <2>2. ASSUME NEW p \in Provides, RunProvide(p) PROVE NoLostWakeup'
    BY <2>2 DEF RunProvide
  <2>3. ASSUME NEW k \in Closers, RunDrain(k) PROVE NoLostWakeup'
    BY <2>3 DEF RunDrain
  <2>4. CASE UNCHANGED <<q, vq>>
    BY <2>4
  <2> QED BY <2>1, <2>2, <2>3, <2>4
          DEF Next, RunLambda, vars, CallWait, CallProvide, SetClosed, PostDrain
<1> QED BY <1>1, <1>2, TypeCorrect, PTL DEF Spec

-----------------------------------------------------------------------------
(* Whoever is queued on a closed queue has a drain coming.                 *)
THEOREM NobodyLeftBehind == Spec => []NoneLeftBehind
<1>1. Init => NoneLeftBehind
  BY DEF Init, NoneLeftBehind
<1>2. TypeOK /\ NoneLeftBehind /\ [Next]_vars => NoneLeftBehind'
  <2> SUFFICES ASSUME TypeOK, NoneLeftBehind, [Next]_vars PROVE NoneLeftBehind'
    OBVIOUS
  <2> DEFINE Drains == \/ \E i \in (ran + 1)..Len(posted) : posted[i] \in Closers
                       \/ \E k \in Closers : stage[k] = "closing"
  <2>1. ASSUME NEW c \in Calls, Post(c), UNCHANGED <<q, vq, closed, ran, results>>
        PROVE  NoneLeftBehind'
    <3>1. /\ Len(posted') = Len(posted) + 1
          /\ \A i \in 1..Len(posted) : posted'[i] = posted[i]
          /\ \A k \in Closers : stage'[k] = stage[k]
      BY <2>1, CallSets DEF Post, TypeOK
    <3>2. \A i \in (ran + 1)..Len(posted) :
            i \in (ran' + 1)..Len(posted') /\ posted'[i] = posted[i]
      BY <3>1, <2>1 DEF TypeOK
    <3>3. Drains => Drains'
      BY <3>1, <3>2
    <3> QED BY <3>3, <2>1 DEF NoneLeftBehind
  <2>2. ASSUME NEW k \in Closers, SetClosed(k) PROVE NoneLeftBehind'
    BY <2>2 DEF NoneLeftBehind, SetClosed, TypeOK
  <2>3. ASSUME NEW k \in Closers, PostDrain(k) PROVE NoneLeftBehind'
    <3>1. Len(posted') = Len(posted) + 1 /\ posted'[Len(posted) + 1] = k /\ ran' = ran
      BY <2>3 DEF PostDrain, Post, TypeOK
    <3>2. Len(posted) + 1 \in (ran' + 1)..Len(posted')
      BY <3>1 DEF TypeOK
    <3> QED BY <3>1, <3>2 DEF NoneLeftBehind
  <2>4. ASSUME NEW c \in Calls, NextLambda(c), UNCHANGED <<closed, posted>>,
               closed => UNCHANGED <<q, vq>>, \A k \in Closers : stage'[k] = stage[k]
        PROVE  NoneLeftBehind'
    <3>1. ASSUME NEW i \in (ran + 1)..Len(posted), posted[i] \in Closers
          PROVE  i \in (ran' + 1)..Len(posted') /\ posted'[i] \in Closers
      <4>1. posted[ran + 1] = c /\ ran' = ran + 1 /\ posted' = posted
        BY <2>4 DEF NextLambda
      <4>2. i # ran + 1
        BY <3>1, <4>1, CallSets
      <4> QED BY <3>1, <4>1, <4>2 DEF TypeOK
    <3>2. Drains => Drains'
      BY <3>1, <2>4
    <3> QED BY <3>2, <2>4 DEF NoneLeftBehind
  <2>5. ASSUME NEW w \in Waits, RunWait(w) PROVE NoneLeftBehind'
    <3>1. vq # <<>> => Head(vq) \in Calls
      BY HeadTailProperties, CallSets DEF TypeOK
    <3>2. \A k \in Closers : stage'[k] = stage[k]
      BY <3>1, <2>5, CallSets DEF RunWait, TypeOK
    <3> QED BY <3>2, <2>4, <2>5, CallSets DEF RunWait
  <2>6. ASSUME NEW p \in Provides, RunProvide(p) PROVE NoneLeftBehind'
    <3>1. q # <<>> => Head(q) \in Calls
      BY HeadTailProperties, CallSets DEF TypeOK
    <3>2. \A k \in Closers : stage'[k] = stage[k]
      BY <3>1, <2>6, CallSets DEF RunProvide, TypeOK
    <3> QED BY <3>2, <2>4, <2>6, CallSets DEF RunProvide
  <2>7. ASSUME NEW k \in Closers, RunDrain(k) PROVE NoneLeftBehind'
    BY <2>7 DEF RunDrain, NoneLeftBehind
  <2>8. CASE UNCHANGED vars
    BY <2>8 DEF vars, NoneLeftBehind
  <2> QED BY <2>1, <2>2, <2>3, <2>5, <2>6, <2>7, <2>8, CallSets
          DEF Next, RunLambda, CallWait, CallProvide
<1> QED BY <1>1, <1>2, TypeCorrect, PTL DEF Spec

-----------------------------------------------------------------------------
(* A call is in one place, so its handler is invoked once.                 *)

(* A lambda that is posted for a call that is nowhere yet.                 *)
LEMMA PostPlace ==
  ASSUME TypeOK, OnePlace, NEW c \in Calls \cup Closers,
         stage[c] \in {"idle", "closing"}, Post(c), UNCHANGED <<q, vq, ran>>
  PROVE  OnePlace'
<1>1. /\ Len(posted') = Len(posted) + 1
      /\ posted'[Len(posted) + 1] = c
      /\ \A i \in Unrun : posted'[i] = posted[i]
  BY DEF Post, TypeOK, Unrun
<1>2. \A i \in Unrun' : i \in Unrun \/ i = Len(posted) + 1
  BY <1>1 DEF Unrun, TypeOK
<1>3. stage' = [stage EXCEPT ![c] = "posted"]
  BY DEF Post
<1>4. \A i \in Unrun : posted[i] # c /\ posted[i] \in Calls \cup Closers
  BY DEF OnePlace, TypeOK, Unrun
<1>5. \A i \in Unrun' : stage'[posted'[i]] = "posted"
  <2>1. stage'[c] = "posted" /\ \A d \in Calls \cup Closers : d # c => stage'[d] = stage[d]
    BY <1>3 DEF TypeOK
  <2>2. \A i \in Unrun : stage'[posted'[i]] = "posted"
    BY <2>1, <1>1, <1>4 DEF OnePlace
  <2> QED BY <2>1, <2>2, <1>1, <1>2
<1>6. \A i, j \in Unrun' : posted'[i] = posted'[j] => i = j
  BY <1>1, <1>2, <1>4 DEF OnePlace
<1>7. \A i \in 1..Len(q') : stage'[q'[i]] = "queued"
  BY <1>3, CallSets DEF OnePlace, TypeOK
<1>8. \A i \in 1..Len(vq') : stage'[vq'[i]] = "queued"
  BY <1>3, CallSets DEF OnePlace, TypeOK
<1> QED BY <1>5, <1>6, <1>7, <1>8 DEF OnePlace

(* A lambda that runs leaves the others where they are.                    *)
LEMMA RunPlace ==
  ASSUME TypeOK, OnePlace, NEW c, NextLambda(c), UNCHANGED posted
  PROVE  /\ stage[c] = "posted" /\ c \in Calls \cup Closers
         /\ \A i \in Unrun' : i \in Unrun /\ posted'[i] # c
         /\ \A i, j \in Unrun' : posted'[i] = posted'[j] => i = j
<1>1. ran + 1 \in Unrun /\ posted[ran + 1] = c /\ ran' = ran + 1
  BY DEF NextLambda, TypeOK, Unrun
<1>2. \A i \in Unrun' : i \in Unrun /\ i # ran + 1
  BY <1>1 DEF TypeOK, Unrun
<1> QED BY <1>1, <1>2 DEF OnePlace, TypeOK, Unrun

(* The front of a queue is taken: the rest moves up.                       *)
LEMMA PopPlace ==
  ASSUME NEW S, NEW s \in Seq(S), s # <<>>,
         \A i, j \in 1..Len(s) : s[i] = s[j] => i = j
  PROVE  /\ Head(s) = s[1] /\ 1 \in 1..Len(s) /\ Head(s) \in S
         /\ \A i \in 1..Len(Tail(s)) :
              i + 1 \in 1..Len(s) /\ Tail(s)[i] = s[i + 1] /\ Tail(s)[i] # Head(s)
         /\ \A i, j \in 1..Len(Tail(s)) : Tail(s)[i] = Tail(s)[j] => i = j
<1>1. Len(s) \in Nat /\ Len(s) >= 1 /\ Head(s) = s[1] /\ Head(s) \in S
  BY HeadTailProperties, EmptySeq
<1>2. Len(Tail(s)) = Len(s) - 1 /\ \A i \in 1..Len(Tail(s)) : Tail(s)[i] = s[i + 1]
  BY HeadTailProperties
<1>3. \A i \in 1..Len(Tail(s)) : i + 1 \in 1..Len(s) /\ i + 1 # 1
  BY <1>1, <1>2
<1> QED BY <1>1, <1>2, <1>3

LEMMA RunWaitPlace ==
  ASSUME TypeOK, OnePlace, NEW w \in Waits, RunWait(w)
  PROVE  OnePlace'
<1>1. /\ stage[w] = "posted" /\ w \in Calls \cup Closers
      /\ \A i \in Unrun' : i \in Unrun /\ posted'[i] # w
      /\ \A i, j \in Unrun' : posted'[i] = posted'[j] => i = j
      /\ posted' = posted
  BY RunPlace DEF RunWait
<1>2. \A i \in Unrun : posted[i] \in Calls \cup Closers /\ stage[posted[i]] = "posted"
  BY DEF OnePlace, TypeOK, Unrun
<1>3. \A i \in 1..Len(q) : q[i] \in Calls /\ q[i] \notin Provides /\ q[i] # w
                          /\ stage[q[i]] = "queued"
  BY <1>1, CallSets DEF OnePlace, TypeOK
<1>4. \A i \in 1..Len(vq) : vq[i] \in Calls /\ vq[i] # w /\ stage[vq[i]] = "queued"
  BY <1>1, CallSets DEF OnePlace, TypeOK
<1>5. CASE closed
  <2>1. stage' = [stage EXCEPT ![w] = "done"] /\ q' = q /\ vq' = vq
    BY <1>5 DEF RunWait
  <2> QED BY <2>1, <1>1, <1>2, <1>3, <1>4 DEF OnePlace, TypeOK
<1>6. CASE ~closed /\ vq # <<>>
  <2>1. /\ stage' = [stage EXCEPT ![w] = "done", ![Head(vq)] = "done"]
        /\ q' = q /\ vq' = Tail(vq)
    BY <1>6 DEF RunWait
  <2>2. vq \in Seq(Provides) /\ \A i, j \in 1..Len(vq) : vq[i] = vq[j] => i = j
    BY DEF TypeOK, OnePlace
  <2>3. /\ Head(vq) = vq[1] /\ 1 \in 1..Len(vq) /\ Head(vq) \in Provides
        /\ \A i \in 1..Len(vq') : i + 1 \in 1..Len(vq) /\ vq'[i] = vq[i + 1] /\ vq'[i] # Head(vq)
        /\ \A i, j \in 1..Len(vq') : vq'[i] = vq'[j] => i = j
    BY <2>1, <2>2, <1>6, PopPlace
  <2>4. Head(vq) \in Calls /\ stage[Head(vq)] = "queued"
    BY <2>3, <1>4
  <2>5. \A i \in Unrun' : stage'[posted'[i]] = "posted"
    BY <2>1, <2>4, <1>1, <1>2 DEF TypeOK
  <2>6. \A i \in 1..Len(q') : stage'[q'[i]] = "queued"
    BY <2>1, <2>3, <1>3 DEF TypeOK
  <2>7. \A i \in 1..Len(vq') : stage'[vq'[i]] = "queued"
    BY <2>1, <2>3, <1>4 DEF TypeOK
  <2>8. \A i, j \in 1..Len(q') : q'[i] = q'[j] => i = j
    BY <2>1 DEF OnePlace
  <2> QED BY ONLY <2>3, <2>5, <2>6, <2>7, <2>8, <1>1 DEF OnePlace
<1>7. CASE ~closed /\ vq = <<>>
  <2>1. stage' = [stage EXCEPT ![w] = "queued"] /\ q' = Append(q, w) /\ vq' = vq
    BY <1>7 DEF RunWait
  <2>2. /\ Len(q') = Len(q) + 1 /\ q'[Len(q) + 1] = w
        /\ \A i \in 1..Len(q) : q'[i] = q[i]
        /\ \A i \in 1..Len(q') : i \in 1..Len(q) \/ i = Len(q) + 1
    BY <2>1 DEF TypeOK
  <2>3. \A i \in Unrun' : stage'[posted'[i]] = "posted"
    BY <2>1, <1>1, <1>2 DEF TypeOK
  <2>4. \A i \in 1..Len(q') : stage'[q'[i]] = "queued"
    BY <2>1, <2>2, <1>1, <1>3 DEF TypeOK
  <2>5. \A i, j \in 1..Len(q') : q'[i] = q'[j] => i = j
    BY <2>2, <1>3 DEF OnePlace
  <2>6. \A i \in 1..Len(vq') : stage'[vq'[i]] = "queued"
    BY <2>1, <1>4 DEF TypeOK
  <2>7. \A i, j \in 1..Len(vq') : vq'[i] = vq'[j] => i = j
    BY <2>1 DEF OnePlace
  <2> QED BY ONLY <2>3, <2>4, <2>5, <2>6, <2>7, <1>1 DEF OnePlace
<1> QED BY <1>5, <1>6, <1>7

LEMMA RunProvidePlace ==
  ASSUME TypeOK, OnePlace, NEW p \in Provides, RunProvide(p)
  PROVE  OnePlace'
<1>1. /\ stage[p] = "posted" /\ p \in Calls \cup Closers
      /\ \A i \in Unrun' : i \in Unrun /\ posted'[i] # p
      /\ \A i, j \in Unrun' : posted'[i] = posted'[j] => i = j
      /\ posted' = posted
  BY RunPlace DEF RunProvide
<1>2. \A i \in Unrun : posted[i] \in Calls \cup Closers /\ stage[posted[i]] = "posted"
  BY DEF OnePlace, TypeOK, Unrun
<1>3. \A i \in 1..Len(q) : q[i] \in Calls /\ q[i] # p /\ stage[q[i]] = "queued"
  BY <1>1, CallSets DEF OnePlace, TypeOK
<1>4. \A i \in 1..Len(vq) : vq[i] \in Calls /\ vq[i] \notin Waits /\ vq[i] # p
                           /\ stage[vq[i]] = "queued"
  BY <1>1, CallSets DEF OnePlace, TypeOK
<1>5. CASE closed
  <2>1. stage' = [stage EXCEPT ![p] = "done"] /\ q' = q /\ vq' = vq
    BY <1>5 DEF RunProvide
  <2> QED BY <2>1, <1>1, <1>2, <1>3, <1>4 DEF OnePlace, TypeOK
<1>6. CASE ~closed /\ q # <<>>
  <2>1. /\ stage' = [stage EXCEPT ![p] = "done", ![Head(q)] = "done"]
        /\ q' = Tail(q) /\ vq' = vq
    BY <1>6 DEF RunProvide
  <2>2. q \in Seq(Waits) /\ \A i, j \in 1..Len(q) : q[i] = q[j] => i = j
    BY DEF TypeOK, OnePlace
  <2>3. /\ Head(q) = q[1] /\ 1 \in 1..Len(q) /\ Head(q) \in Waits
        /\ \A i \in 1..Len(q') : i + 1 \in 1..Len(q) /\ q'[i] = q[i + 1] /\ q'[i] # Head(q)
        /\ \A i, j \in 1..Len(q') : q'[i] = q'[j] => i = j
    BY <2>1, <2>2, <1>6, PopPlace
  <2>4. Head(q) \in Calls /\ stage[Head(q)] = "queued"
    BY <2>3, <1>3
  <2>5. \A i \in Unrun' : stage'[posted'[i]] = "posted"
    BY <2>1, <2>4, <1>1, <1>2 DEF TypeOK
  <2>6. \A i \in 1..Len(vq') : stage'[vq'[i]] = "queued"
    BY <2>1, <2>3, <1>4 DEF TypeOK
  <2>7. \A i \in 1..Len(q') : stage'[q'[i]] = "queued"
    BY <2>1, <2>3, <1>3 DEF TypeOK
  <2>8. \A i, j \in 1..Len(vq') : vq'[i] = vq'[j] => i = j
    BY <2>1 DEF OnePlace
  <2> QED BY ONLY <2>3, <2>5, <2>6, <2>7, <2>8, <1>1 DEF OnePlace
<1>7. CASE ~closed /\ q = <<>>
  <2>1. stage' = [stage EXCEPT ![p] = "queued"] /\ vq' = Append(vq, p) /\ q' = q
    BY <1>7 DEF RunProvide
  <2>2. /\ Len(vq') = Len(vq) + 1 /\ vq'[Len(vq) + 1] = p
        /\ \A i \in 1..Len(vq) : vq'[i] = vq[i]
        /\ \A i \in 1..Len(vq') : i \in 1..Len(vq) \/ i = Len(vq) + 1
    BY <2>1 DEF TypeOK
  <2>3. \A i \in Unrun' : stage'[posted'[i]] = "posted"
    BY <2>1, <1>1, <1>2 DEF TypeOK
  <2>4. \A i \in 1..Len(vq') : stage'[vq'[i]] = "queued"
    BY <2>1, <2>2, <1>1, <1>4 DEF TypeOK
  <2>5. \A i, j \in 1..Len(vq') : vq'[i] = vq'[j] => i = j
    BY <2>2, <1>4 DEF OnePlace
  <2>6. \A i \in 1..Len(q') : stage'[q'[i]] = "queued"
    BY <2>1, <1>3 DEF TypeOK
  <2>7. \A i, j \in 1..Len(q') : q'[i] = q'[j] => i = j
    BY <2>1 DEF OnePlace
  <2> QED BY ONLY <2>3, <2>4, <2>5, <2>6, <2>7, <1>1 DEF OnePlace
<1> QED BY <1>5, <1>6, <1>7

(* Whoever is in a queue is queued.                                        *)
LEMMA QueuedCalls ==
  ASSUME TypeOK, OnePlace
  PROVE  \A c \in ToSet(q) \cup ToSet(vq) : stage[c] = "queued" /\ c \in Calls
<1>1. DOMAIN q = 1..Len(q) /\ DOMAIN vq = 1..Len(vq)
  BY DEF TypeOK
<1>2. \A i \in 1..Len(q) : stage[q[i]] = "queued" /\ q[i] \in Calls
  BY CallSets DEF TypeOK, OnePlace
<1>3. \A i \in 1..Len(vq) : stage[vq[i]] = "queued" /\ vq[i] \in Calls
  BY CallSets DEF TypeOK, OnePlace
<1> QED BY <1>1, <1>2, <1>3 DEF ToSet

LEMMA RunDrainPlace ==
  ASSUME TypeOK, OnePlace, NEW k \in Closers, RunDrain(k)
  PROVE  OnePlace'
<1>1. /\ \A i \in Unrun' : i \in Unrun /\ posted'[i] # k
      /\ \A i, j \in Unrun' : posted'[i] = posted'[j] => i = j
      /\ posted' = posted
  BY RunPlace DEF RunDrain
<1>2. \A c \in ToSet(q) \cup ToSet(vq) : stage[c] = "queued" /\ c \in Calls
  BY QueuedCalls
<1>3. \A i \in Unrun : /\ posted[i] \in Calls \cup Closers
                      /\ posted[i] \notin ToSet(q) \cup ToSet(vq)
                      /\ stage[posted[i]] = "posted"
  BY <1>2 DEF OnePlace, TypeOK, Unrun
<1>4. \A i \in Unrun' : stage'[posted'[i]] = "posted"
  BY <1>1, <1>3 DEF RunDrain
<1>5. q' = <<>> /\ vq' = <<>> /\ Len(q') = 0 /\ Len(vq') = 0
  BY NoLength DEF RunDrain
<1> QED BY <1>1, <1>4, <1>5 DEF OnePlace

(* Invoking one handler makes its answers one longer, and no others.       *)
LEMMA InvokeLength ==
  ASSUME NEW res \in [Calls -> Seq(Answers)], NEW c \in Calls, NEW r \in Answers
  PROVE  /\ Invoke(res, c, r) \in [Calls -> Seq(Answers)]
         /\ Len(Invoke(res, c, r)[c]) = Len(res[c]) + 1
         /\ \A d \in Calls : d # c => Invoke(res, c, r)[d] = res[d]
BY DEF Invoke

(* One handler is invoked, and its call is done.                           *)
LEMMA AnswerOne ==
  ASSUME TypeOK, AnsweredWhenDone, NEW c \in Calls, stage[c] # "done", NEW r \in Answers,
         results' = Invoke(results, c, r),
         stage'[c] = "done", \A x \in Calls : x # c => stage'[x] = stage[x]
  PROVE  AnsweredWhenDone'
<1>1. results \in [Calls -> Seq(Answers)] /\ Len(results[c]) = 0
  BY DEF AnsweredWhenDone, TypeOK
<1>2. /\ Len(results'[c]) = Len(results[c]) + 1
      /\ \A x \in Calls : x # c => results'[x] = results[x]
  BY <1>1, InvokeLength
<1>3. Len(results'[c]) = 1
  BY <1>1, <1>2
<1> QED BY <1>2, <1>3 DEF AnsweredWhenDone

(* Two are, and both calls are done.                                       *)
LEMMA AnswerTwo ==
  ASSUME TypeOK, AnsweredWhenDone, NEW c \in Calls, NEW d \in Calls, c # d,
         stage[c] # "done", stage[d] # "done", NEW r \in Answers, NEW s \in Answers,
         results' = Invoke(Invoke(results, c, r), d, s),
         stage'[c] = "done", stage'[d] = "done",
         \A x \in Calls : x # c /\ x # d => stage'[x] = stage[x]
  PROVE  AnsweredWhenDone'
<1>1. /\ results \in [Calls -> Seq(Answers)]
      /\ Len(results[c]) = 0 /\ Len(results[d]) = 0
  BY DEF AnsweredWhenDone, TypeOK
<1> DEFINE mid == Invoke(results, c, r)
<1>2. /\ mid \in [Calls -> Seq(Answers)] /\ Len(mid[c]) = Len(results[c]) + 1
      /\ \A x \in Calls : x # c => mid[x] = results[x]
  BY <1>1, InvokeLength
<1>3. results' = Invoke(mid, d, s)
  OBVIOUS
<1> HIDE DEF mid
<1>4. /\ Len(results'[d]) = Len(mid[d]) + 1
      /\ \A x \in Calls : x # d => results'[x] = mid[x]
  BY <1>2, <1>3, InvokeLength
<1>5. Len(results'[d]) = 1 /\ Len(results'[c]) = 1
      /\ \A x \in Calls : x # c /\ x # d => results'[x] = results[x]
  BY <1>1, <1>2, <1>4
<1> QED BY <1>5 DEF AnsweredWhenDone

(* A call that moves from its lambda into a queue has no answer yet.       *)
LEMMA AnswerNone ==
  ASSUME AnsweredWhenDone, UNCHANGED results,
         \A x \in Calls : stage'[x] = "done" <=> stage[x] = "done"
  PROVE  AnsweredWhenDone'
BY DEF AnsweredWhenDone

LEMMA RunWaitAnswers ==
  ASSUME CallInv, NEW w \in Waits, RunWait(w)
  PROVE  AnsweredWhenDone'
<1> USE CallSets DEF CallInv
<1>1. w \in Calls /\ stage[w] = "posted" /\ "aborted" \in Answers /\ "ok" \in Answers
  BY RunPlace DEF RunWait, Answers
<1>2. CASE closed
  <2>1. results' = Invoke(results, w, "aborted") /\ stage' = [stage EXCEPT ![w] = "done"]
    BY <1>2 DEF RunWait
  <2>2. stage'[w] = "done" /\ \A x \in Calls : x # w => stage'[x] = stage[x]
    BY <2>1, <1>1 DEF TypeOK
  <2> QED BY <1>1, <2>1, <2>2, AnswerOne
<1>3. CASE ~closed /\ vq # <<>>
  <2> DEFINE p == Head(vq)
  <2>1. /\ results' = Invoke(Invoke(results, w, p), p, "ok")
        /\ stage' = [stage EXCEPT ![w] = "done", ![p] = "done"]
    BY <1>3 DEF RunWait
  <2>2. p \in Provides /\ stage[p] = "queued"
    BY <1>3, PopPlace DEF TypeOK, OnePlace
  <2>3. p \in Calls /\ p # w /\ p \in Answers
    BY <2>2 DEF Answers
  <2> HIDE DEF p
  <2>4. /\ stage'[w] = "done" /\ stage'[p] = "done"
        /\ \A x \in Calls : x # w /\ x # p => stage'[x] = stage[x]
    BY <2>1, <2>3, <1>1 DEF TypeOK
  <2> QED BY <1>1, <2>1, <2>2, <2>3, <2>4, AnswerTwo
<1>4. CASE ~closed /\ vq = <<>>
  <2>1. UNCHANGED results /\ stage' = [stage EXCEPT ![w] = "queued"]
    BY <1>4 DEF RunWait
  <2>2. \A x \in Calls : stage'[x] = "done" <=> stage[x] = "done"
    BY <2>1, <1>1 DEF TypeOK
  <2> QED BY <2>1, <2>2, AnswerNone
<1> QED BY <1>2, <1>3, <1>4

LEMMA RunProvideAnswers ==
  ASSUME CallInv, NEW p \in Provides, RunProvide(p)
  PROVE  AnsweredWhenDone'
<1> USE CallSets DEF CallInv
<1>1. /\ p \in Calls /\ stage[p] = "posted" /\ p \in Answers
      /\ "aborted" \in Answers /\ "ok" \in Answers
  BY RunPlace DEF RunProvide, Answers
<1>2. CASE closed
  <2>1. results' = Invoke(results, p, "aborted") /\ stage' = [stage EXCEPT ![p] = "done"]
    BY <1>2 DEF RunProvide
  <2>2. stage'[p] = "done" /\ \A x \in Calls : x # p => stage'[x] = stage[x]
    BY <2>1, <1>1 DEF TypeOK
  <2> QED BY <1>1, <2>1, <2>2, AnswerOne
<1>3. CASE ~closed /\ q # <<>>
  <2> DEFINE w == Head(q)
  <2>1. /\ results' = Invoke(Invoke(results, w, p), p, "ok")
        /\ stage' = [stage EXCEPT ![p] = "done", ![w] = "done"]
    BY <1>3 DEF RunProvide
  <2>2. w \in Waits /\ stage[w] = "queued"
    BY <1>3, PopPlace DEF TypeOK, OnePlace
  <2>3. w \in Calls /\ p # w
    BY <2>2
  <2> HIDE DEF w
  <2>4. /\ stage'[w] = "done" /\ stage'[p] = "done"
        /\ \A x \in Calls : x # w /\ x # p => stage'[x] = stage[x]
    BY <2>1, <2>3, <1>1 DEF TypeOK
  <2> QED BY <1>1, <2>1, <2>2, <2>3, <2>4, AnswerTwo
<1>4. CASE ~closed /\ q = <<>>
  <2>1. UNCHANGED results /\ stage' = [stage EXCEPT ![p] = "queued"]
    BY <1>4 DEF RunProvide
  <2>2. \A x \in Calls : stage'[x] = "done" <=> stage[x] = "done"
    BY <2>1, <1>1 DEF TypeOK
  <2> QED BY <2>1, <2>2, AnswerNone
<1> QED BY <1>2, <1>3, <1>4

LEMMA RunDrainAnswers ==
  ASSUME CallInv, NEW k \in Closers, RunDrain(k)
  PROVE  AnsweredWhenDone'
<1> DEFINE left == ToSet(q) \cup ToSet(vq)
<1>1. \A c \in left : stage[c] = "queued" /\ c \in Calls
  BY QueuedCalls DEF CallInv
<1>2. /\ results' = [c \in Calls |-> IF c \in left THEN Append(results[c], "aborted")
                                                   ELSE results[c]]
      /\ stage' = [c \in Calls \cup Closers |->
                     IF c \in left \cup {k} THEN "done" ELSE stage[c]]
  BY DEF RunDrain
<1> HIDE DEF left
<1>3. ASSUME NEW c \in left PROVE Len(results'[c]) = 1 /\ stage'[c] = "done"
  <2>1. c \in Calls /\ results[c] \in Seq(Answers) /\ Len(results[c]) = 0
    BY <1>1 DEF CallInv, AnsweredWhenDone, TypeOK
  <2>2. Len(Append(results[c], "aborted")) = 1
    BY <2>1
  <2> QED BY <2>1, <2>2, <1>2
<1>4. ASSUME NEW c \in Calls, c \notin left
      PROVE  results'[c] = results[c] /\ stage'[c] = stage[c]
  BY <1>2, CallSets, <1>4
<1> QED BY <1>3, <1>4 DEF CallInv, AnsweredWhenDone

LEMMA CallsInvariant == Spec => []CallInv
<1>1. Init => CallInv
  <2> SUFFICES ASSUME Init PROVE CallInv
    OBVIOUS
  <2>1. Len(posted) = 0 /\ Len(q) = 0 /\ Len(vq) = 0 /\ \A c \in Calls : Len(results[c]) = 0
    BY NoLength DEF Init
  <2>2. \A c \in Calls : stage[c] = "idle"
    BY DEF Init
  <2>3. ran = 0
    BY DEF Init
  <2> QED BY <2>1, <2>2, <2>3, InitType DEF CallInv, OnePlace, AnsweredWhenDone, Unrun
<1>2. CallInv /\ [Next]_vars => OnePlace' /\ AnsweredWhenDone'
  <2> SUFFICES ASSUME CallInv, [Next]_vars PROVE OnePlace' /\ AnsweredWhenDone'
    OBVIOUS
  <2> USE CallSets DEF CallInv
  <2>1. ASSUME NEW c \in Calls \cup Closers, stage[c] \in {"idle", "closing"}, Post(c),
               UNCHANGED <<q, vq, ran, results>>
        PROVE  OnePlace' /\ AnsweredWhenDone'
    <3>1. \A x \in Calls : stage'[x] = "done" <=> stage[x] = "done"
      BY <2>1 DEF Post, TypeOK
    <3> QED BY <2>1, <3>1, PostPlace, AnswerNone
  <2>2. ASSUME NEW k \in Closers, SetClosed(k) PROVE OnePlace' /\ AnsweredWhenDone'
    <3>1. \A c \in Calls \cup Closers : stage[c] # "idle" => stage'[c] = stage[c]
      BY <2>2 DEF SetClosed, TypeOK
    <3>2. \A x \in Calls : stage'[x] = "done" <=> stage[x] = "done"
      BY <2>2 DEF SetClosed, TypeOK
    <3>3. UNCHANGED <<q, vq, posted, ran, results>>
      BY <2>2 DEF SetClosed
    <3>4. \A i \in Unrun : stage'[posted[i]] = "posted"
      BY <3>1 DEF OnePlace, TypeOK, Unrun
    <3>5. \A i \in 1..Len(q) : stage'[q[i]] = "queued"
      BY <3>1 DEF OnePlace, TypeOK
    <3>6. \A i \in 1..Len(vq) : stage'[vq[i]] = "queued"
      BY <3>1 DEF OnePlace, TypeOK
    <3>7. OnePlace'
      BY <3>3, <3>4, <3>5, <3>6 DEF OnePlace, Unrun
    <3> QED BY <3>2, <3>3, <3>7, AnswerNone
  <2>3. CASE UNCHANGED vars
    BY <2>3 DEF vars, OnePlace, AnsweredWhenDone, Unrun
  <2> QED BY <2>1, <2>2, <2>3, RunWaitPlace, RunProvidePlace, RunDrainPlace,
             RunWaitAnswers, RunProvideAnswers, RunDrainAnswers
          DEF Next, RunLambda, CallWait, CallProvide, PostDrain
<1>3. TypeOK /\ CallInv /\ [Next]_vars /\ TypeOK' => CallInv'
  BY <1>2 DEF CallInv
<1> QED BY <1>1, <1>3, TypeCorrect, PTL DEF Spec

(* A handler is invoked at most once.                                      *)
THEOREM AnsweredOnce == Spec => []OneShot
<1>1. CallInv => OneShot
  BY DEF CallInv, AnsweredWhenDone, OneShot
<1> QED BY <1>1, CallsInvariant, PTL

-----------------------------------------------------------------------------
(* Every step of the queue is a step of the rendezvous, or none.           *)

(* A lambda that drains exists only because closed_ was set.               *)
ClosersClose == \A k \in Closers : stage[k] # "idle" => closed

LEMMA ClosedByClosers == Spec => []ClosersClose
<1>1. Init => ClosersClose
  BY DEF Init, ClosersClose
<1>2. CallInv /\ ClosersClose /\ [Next]_vars => ClosersClose'
  <2> SUFFICES ASSUME CallInv, ClosersClose, [Next]_vars PROVE ClosersClose'
    OBVIOUS
  <2> USE DEF CallInv
  <2>1. ASSUME \A k \in Closers : stage'[k] # "idle" => stage[k] # "idle", UNCHANGED closed
        PROVE  ClosersClose'
    BY <2>1 DEF ClosersClose
  <2>2. ASSUME NEW c \in Calls, Post(c), UNCHANGED closed PROVE ClosersClose'
    BY <2>1, <2>2, CallSets DEF Post, TypeOK
  <2>3. ASSUME NEW k \in Closers, SetClosed(k) PROVE ClosersClose'
    BY <2>3 DEF SetClosed, ClosersClose
  <2>4. ASSUME NEW k \in Closers, PostDrain(k) PROVE ClosersClose'
    BY <2>1, <2>4 DEF PostDrain, Post, TypeOK
  <2>5. ASSUME NEW w \in Waits, RunWait(w) PROVE ClosersClose'
    <3>1. vq # <<>> => Head(vq) \in Calls
      BY HeadTailProperties, CallSets DEF TypeOK
    <3> QED BY <2>1, <2>5, <3>1, CallSets DEF RunWait, TypeOK
  <2>6. ASSUME NEW p \in Provides, RunProvide(p) PROVE ClosersClose'
    <3>1. q # <<>> => Head(q) \in Calls
      BY HeadTailProperties, CallSets DEF TypeOK
    <3> QED BY <2>1, <2>6, <3>1, CallSets DEF RunProvide, TypeOK
  <2>7. ASSUME NEW k \in Closers, RunDrain(k) PROVE ClosersClose'
    <3>1. stage[k] = "posted"
      BY <2>7, RunPlace DEF RunDrain
    <3>2. closed'
      BY <3>1, <2>7 DEF RunDrain, ClosersClose
    <3> QED BY <3>2 DEF ClosersClose
  <2>8. CASE UNCHANGED vars
    BY <2>8 DEF vars, ClosersClose
  <2>9. ASSUME NEW w \in Waits, CallWait(w) PROVE ClosersClose'
    BY <2>2, <2>9, CallSets DEF CallWait
  <2>10. ASSUME NEW p \in Provides, CallProvide(p) PROVE ClosersClose'
    BY <2>2, <2>10, CallSets DEF CallProvide
  <2> HIDE DEF CallInv
  <2> QED BY <2>3, <2>4, <2>5, <2>6, <2>7, <2>8, <2>9, <2>10 DEF Next, RunLambda
<1> QED BY <1>1, <1>2, CallsInvariant, PTL DEF Spec

LEMMA SameCalls == RV!Calls = Calls
BY DEF RV!Calls, Calls

(* A first answer is the answer.                                           *)
LEMMA FirstAnswer ==
  ASSUME TypeOK, AnsweredWhenDone, NEW c \in Calls, stage[c] # "done"
  PROVE  /\ Answer[c] = "pending"
         /\ \A r \in Answers : Append(results[c], r) # <<>> /\ Append(results[c], r)[1] = r
<1>1. results[c] \in Seq(Answers) /\ Len(results[c]) = 0
  BY DEF TypeOK, AnsweredWhenDone
<1>2. results[c] = <<>>
  BY <1>1, EmptySeq
<1>3. Answer[c] = "pending"
  BY <1>2 DEF Answer
<1>4. ASSUME NEW r \in Answers
      PROVE  Append(results[c], r) # <<>> /\ Append(results[c], r)[1] = r
  <2> DEFINE answers == Append(results[c], r)
  <2>1. Len(answers) = 1 /\ answers[1] = r
    BY <1>1
  <2> HIDE DEF answers
  <2>2. answers # <<>> /\ answers[1] = r
    BY <2>1, NoLength
  <2> QED BY <2>2 DEF answers
<1> QED BY <1>3, <1>4

LEMMA AnswersTwo ==
  ASSUME TypeOK, AnsweredWhenDone, NEW c \in Calls, NEW d \in Calls, c # d,
         stage[c] # "done", stage[d] # "done", NEW r \in Answers, NEW s \in Answers,
         results' = Invoke(Invoke(results, c, r), d, s)
  PROVE  Answer' = [Answer EXCEPT ![c] = r, ![d] = s]
<1>1. \A x \in Calls : x # c /\ x # d => results'[x] = results[x]
  BY DEF Invoke, TypeOK
<1>2. results'[c] = Append(results[c], r) /\ results'[d] = Append(results[d], s)
  BY DEF Invoke, TypeOK
<1>3. /\ results'[c] # <<>> /\ results'[c][1] = r
      /\ results'[d] # <<>> /\ results'[d][1] = s
  BY <1>2, FirstAnswer
<1> QED BY <1>1, <1>3 DEF Answer

(* A set of unanswered calls of a closed queue is aborted.                 *)
LEMMA AbortsSet ==
  ASSUME CallInv, NEW S, S \subseteq Calls, \A c \in S : stage[c] # "done",
         closed, UNCHANGED closed,
         results' = [c \in Calls |-> IF c \in S THEN Append(results[c], "aborted")
                                                ELSE results[c]]
  PROVE  RV!Next
<1> USE DEF CallInv
<1>1. "aborted" \in Answers
  BY DEF Answers
<1>2. \A c \in S : Answer[c] = "pending"
  BY FirstAnswer
<1>3. \A c \in S : results'[c] # <<>> /\ results'[c][1] = "aborted"
  BY <1>1, FirstAnswer
<1>4. \A c \in Calls : c \notin S => results'[c] = results[c]
  OBVIOUS
<1>5. Answer' = [c \in Calls |-> IF c \in S THEN "aborted" ELSE Answer[c]]
  BY <1>3, <1>4 DEF Answer
<1>6. RV!Abort(S)
  BY <1>2, <1>5, SameCalls DEF RV!Abort
<1> QED BY <1>6, SameCalls DEF RV!Next

LEMMA AbortsOne ==
  ASSUME CallInv, NEW c \in Calls, stage[c] # "done", closed, UNCHANGED closed,
         results' = Invoke(results, c, "aborted")
  PROVE  RV!Next
<1>1. results' = [x \in Calls |-> IF x \in {c} THEN Append(results[x], "aborted")
                                              ELSE results[x]]
  BY DEF Invoke, CallInv, TypeOK
<1> QED BY <1>1, AbortsSet

(* A value changes hands.                                                  *)
LEMMA Delivers ==
  ASSUME CallInv, NEW w \in Waits, NEW p \in Provides,
         stage[w] # "done", stage[p] # "done", ~closed, UNCHANGED closed,
         results' = Invoke(Invoke(results, w, p), p, "ok")
  PROVE  RV!Next
<1> USE CallSets DEF CallInv
<1>1. p \in Answers /\ "ok" \in Answers /\ w # p
  BY DEF Answers
<1>2. Answer' = [Answer EXCEPT ![w] = p, ![p] = "ok"]
  BY <1>1, AnswersTwo
<1>3. Answer[w] = "pending" /\ Answer[p] = "pending"
  BY FirstAnswer
<1>4. RV!Deliver(w, p)
  BY <1>2, <1>3 DEF RV!Deliver
<1> QED BY <1>4 DEF RV!Next

LEMMA Stutters == UNCHANGED <<results, closed>> => UNCHANGED RV!vars
BY DEF RV!vars, Answer

(* For any number of calls, every behaviour of waitqueue is one of the     *)
(* rendezvous: whatever a coroutine can tell of the queue from its answers,*)
(* it could tell of a hand-over in one instant.                            *)
THEOREM ImplementsRendezvous == Spec => Rendezvouses
<1>1. Init => RV!Init
  BY SameCalls DEF Init, RV!Init, Answer
<1>2. CallInv /\ ClosersClose /\ [Next]_vars => [RV!Next]_RV!vars
  <2> SUFFICES ASSUME CallInv, ClosersClose, [Next]_vars PROVE RV!Next \/ UNCHANGED RV!vars
    OBVIOUS
  <2>1. ASSUME NEW c \in Calls, CallWait(c) \/ CallProvide(c) PROVE UNCHANGED RV!vars
    BY <2>1, Stutters DEF CallWait, CallProvide
  <2>2. ASSUME NEW k \in Closers, SetClosed(k) PROVE RV!Next
    <3>1. RV!Shut
      BY <2>2 DEF SetClosed, RV!Shut, Answer
    <3> QED BY <3>1 DEF RV!Next
  <2>3. ASSUME NEW k \in Closers, PostDrain(k) PROVE UNCHANGED RV!vars
    BY <2>3, Stutters DEF PostDrain
  <2>4. ASSUME NEW w \in Waits, RunWait(w) PROVE RV!Next \/ UNCHANGED RV!vars
    <3>1. w \in Calls /\ stage[w] = "posted" /\ UNCHANGED closed
      BY <2>4, RunPlace, CallSets DEF RunWait, CallInv
    <3>2. CASE closed
      <4>1. results' = Invoke(results, w, "aborted")
        BY <2>4, <3>2 DEF RunWait
      <4> QED BY <3>1, <3>2, <4>1, AbortsOne
    <3>3. CASE ~closed /\ vq # <<>>
      <4>1. results' = Invoke(Invoke(results, w, Head(vq)), Head(vq), "ok")
        BY <2>4, <3>3 DEF RunWait
      <4>2. Head(vq) \in Provides /\ stage[Head(vq)] = "queued"
        BY <3>3, PopPlace DEF CallInv, TypeOK, OnePlace
      <4> QED BY <3>1, <3>3, <4>1, <4>2, Delivers
    <3>4. CASE ~closed /\ vq = <<>>
      BY <2>4, <3>4, Stutters DEF RunWait
    <3> QED BY <3>2, <3>3, <3>4
  <2>5. ASSUME NEW p \in Provides, RunProvide(p) PROVE RV!Next \/ UNCHANGED RV!vars
    <3>1. p \in Calls /\ stage[p] = "posted" /\ UNCHANGED closed
      BY <2>5, RunPlace, CallSets DEF RunProvide, CallInv
    <3>2. CASE closed
      <4>1. results' = Invoke(results, p, "aborted")
        BY <2>5, <3>2 DEF RunProvide
      <4> QED BY <3>1, <3>2, <4>1, AbortsOne
    <3>3. CASE ~closed /\ q # <<>>
      <4>1. results' = Invoke(Invoke(results, Head(q), p), p, "ok")
        BY <2>5, <3>3 DEF RunProvide
      <4>2. Head(q) \in Waits /\ stage[Head(q)] = "queued"
        BY <3>3, PopPlace DEF CallInv, TypeOK, OnePlace
      <4> QED BY <3>1, <3>3, <4>1, <4>2, Delivers
    <3>4. CASE ~closed /\ q = <<>>
      BY <2>5, <3>4, Stutters DEF RunProvide
    <3> QED BY <3>2, <3>3, <3>4
  <2>6. ASSUME NEW k \in Closers, RunDrain(k) PROVE RV!Next
    <3> DEFINE left == ToSet(q) \cup ToSet(vq)
    <3>1. stage[k] = "posted" /\ UNCHANGED closed
      BY <2>6, RunPlace DEF RunDrain, CallInv
    <3>2. closed
      BY <3>1 DEF ClosersClose
    <3>3. left \subseteq Calls /\ \A c \in left : stage[c] # "done"
      BY QueuedCalls DEF CallInv
    <3>4. results' = [c \in Calls |-> IF c \in left THEN Append(results[c], "aborted")
                                                    ELSE results[c]]
      BY <2>6 DEF RunDrain
    <3> HIDE DEF left
    <3> QED BY <3>1, <3>2, <3>3, <3>4, AbortsSet
  <2>7. CASE UNCHANGED vars
    BY <2>7, Stutters DEF vars
  <2> QED BY <2>1, <2>2, <2>3, <2>4, <2>5, <2>6, <2>7, CallSets DEF Next, RunLambda
<1> QED BY <1>1, <1>2, CallsInvariant, ClosedByClosers, PTL DEF Spec, Rendezvouses, RV!Spec

-----------------------------------------------------------------------------
(* Who gets what from the queue, and in which order, for any number of     *)
(* calls.                                                                  *)

(* A call that has got what it asked for.                                  *)
Served(c) == Answer[c] \in Provides \cup {"ok"}
Ran == 1..ran
In(c, s) == \E a \in 1..Len(s) : s[a] = c

(* A call is posted once, and what has been queued or answered has run.    *)
PostedOnce ==
  /\ \A i \in 1..Len(posted) : stage[posted[i]] \notin {"idle", "closing"}
  /\ \A i, j \in 1..Len(posted) : posted[i] = posted[j] => i = j
  /\ \A c \in Calls : stage[c] \in {"queued", "done"} => \E i \in Ran : posted[i] = c

(* A queue is in the order in which its calls have arrived, among the      *)
(* first n of those that p lists.                                          *)
ArrivedSo(s, p, n) ==
  \A a, b \in 1..Len(s) : a < b =>
    \A i, j \in 1..n : p[i] = s[a] /\ p[j] = s[b] => i < j
Sorted(s) == ArrivedSo(s, posted, ran)

(* As long as it is open, whoever has not been served is queued.           *)
OpenQueued ==
  ~closed => \A i \in Ran :
    /\ posted[i] \in Waits /\ ~Served(posted[i]) => In(posted[i], q)
    /\ posted[i] \in Provides /\ ~Served(posted[i]) => In(posted[i], vq)

(* Who has been served arrived before who has not.                         *)
InOrder(S) ==
  \A i, j \in Ran :
    posted[i] \in S /\ posted[j] \in S /\ Served(posted[j]) /\ ~Served(posted[i]) => j < i

(* The wait() that arrived as i-th call got the value of the n-th.         *)
Gets(i, n) ==
  /\ posted[i] \in Waits /\ posted[n] \in Provides
  /\ Answer[posted[i]] = posted[n]

(* Of two that got a value, the earlier one got the earlier value.         *)
FirstGetsFirst ==
  \A i, j, m, n \in Ran :
    i < j /\ Gets(i, m) /\ Gets(j, n) => m < n

(* What makes NoOvertaking inductive, with CallInv and Matched.            *)
OrderInv ==
  /\ PostedOnce /\ Sorted(q) /\ Sorted(vq) /\ OpenQueued
  /\ InOrder(Waits) /\ InOrder(Provides) /\ FirstGetsFirst

(* What a rendezvous keeps: a provide() was told "ok" when, and only when, *)
(* one wait() has its value, and a wait() is never told "ok".              *)
Matched ==
  /\ \A p \in Provides :
       /\ Answer[p] = "ok" <=> \E w \in Waits : Answer[w] = p
       /\ \A v, w \in Waits : Answer[v] = p /\ Answer[w] = p => v = w
  /\ \A w \in Waits : Answer[w] # "ok"

-----------------------------------------------------------------------------
LEMMA RendezvousMatches == Spec => []Matched
<1>1. RV!Init => Matched
  BY CallsAssumption, SameCalls, CallSets DEF RV!Init, Matched, CallsAssumption
<1>2. Matched /\ [RV!Next]_RV!vars => Matched'
  <2> SUFFICES ASSUME Matched, [RV!Next]_RV!vars PROVE Matched'
    OBVIOUS
  <2>1. /\ \A x \in Calls : x \notin {"pending", "ok", "aborted"}
        /\ Waits \subseteq Calls /\ Provides \subseteq Calls
        /\ \A w \in Waits : w \notin Provides
    BY CallsAssumption, CallSets DEF CallsAssumption, Calls
  <2>2. ASSUME NEW w \in Waits, NEW p \in Provides, RV!Deliver(w, p) PROVE Matched'
    <3>1. /\ Answer[w] = "pending" /\ Answer[p] = "pending"
          /\ \A c \in Calls : Answer'[c] = IF c = p THEN "ok" ELSE IF c = w THEN p ELSE Answer[c]
      BY <2>2 DEF RV!Deliver, Answer
    <3>2. \A v \in Waits : Answer[v] # p
      BY <3>1 DEF Matched
    <3>3. ASSUME NEW r \in Provides, r # p
          PROVE  /\ Answer'[r] = Answer[r]
                 /\ \A v \in Waits : Answer'[v] = r <=> Answer[v] = r
      BY <2>1, <3>1, <3>3
    <3>4. \A v \in Waits : Answer'[v] = p <=> v = w
      BY <2>1, <3>1, <3>2
    <3>5. Answer'[p] = "ok"
      BY <2>1, <3>1
    <3>6. \A v \in Waits : Answer'[v] # "ok"
      BY <2>1, <3>1 DEF Matched
    <3> QED BY <3>3, <3>4, <3>5, <3>6 DEF Matched
  <2>3. ASSUME NEW S \in SUBSET Calls, RV!Abort(S) PROVE Matched'
    <3>1. /\ \A c \in S : Answer[c] = "pending"
          /\ \A c \in Calls : Answer'[c] = IF c \in S THEN "aborted" ELSE Answer[c]
      BY <2>3, SameCalls DEF RV!Abort
    <3>2. \A r \in Provides : Answer'[r] = "ok" <=> Answer[r] = "ok"
      BY <2>1, <3>1
    <3>3. \A r \in Provides, v \in Waits : Answer'[v] = r <=> Answer[v] = r
      BY <2>1, <3>1
    <3>4. \A v \in Waits : Answer'[v] # "ok"
      BY <2>1, <3>1 DEF Matched
    <3> QED BY <3>2, <3>3, <3>4 DEF Matched
  <2>4. CASE RV!Shut
    BY <2>4 DEF RV!Shut, Matched
  <2>5. CASE UNCHANGED RV!vars
    BY <2>5 DEF RV!vars, Matched
  <2> QED BY <2>2, <2>3, <2>4, <2>5, SameCalls DEF RV!Next
<1> QED BY <1>1, <1>2, ImplementsRendezvous, PTL DEF Rendezvouses, RV!Spec

(* One answer at most: what is in a call's results is its answer.          *)
LEMMA AnswerIsResult ==
  ASSUME CallInv, NEW c \in Calls, NEW r \in Calls \cup {"ok"}
  PROVE  /\ r \in ToSet(results[c]) <=> Answer[c] = r
         /\ (\E i \in DOMAIN results[c] : results[c][i] = r) <=> Answer[c] = r
<1>1. results[c] \in Seq(Answers) /\ Len(results[c]) \in {0, 1} /\ DOMAIN results[c] = 1..Len(results[c])
  BY LenProperties DEF CallInv, TypeOK, AnsweredWhenDone
<1>2. r # "pending"
  BY CallsAssumption DEF CallsAssumption, Calls
<1>3. CASE Len(results[c]) = 0
  <2>1. results[c] = <<>> /\ DOMAIN results[c] = {}
    BY <1>1, <1>3, EmptySeq
  <2> QED BY <2>1, <1>2 DEF Answer, ToSet
<1>4. CASE Len(results[c]) = 1
  <2>1. results[c] # <<>>
    BY <1>4, NoLength
  <2>2. DOMAIN results[c] = {1}
    BY <1>1, <1>4
  <2>3. Answer[c] = results[c][1]
    BY <2>1 DEF Answer
  <2> QED BY <2>2, <2>3 DEF ToSet
<1> QED BY <1>1, <1>3, <1>4

(* Nothing is lost and nothing doubled, whatever matches and aborts race.  *)
THEOREM NothingLost == Spec => []NoLossNoDup
<1>1. CallInv /\ Matched => NoLossNoDup
  <2> SUFFICES ASSUME CallInv, Matched, NEW p \in Provides
               PROVE  /\ "ok" \in ToSet(results[p]) <=> GotFrom(p) # {}
                      /\ \A v, w \in GotFrom(p) : v = w
    BY DEF NoLossNoDup
  <2>1. "ok" \in ToSet(results[p]) <=> Answer[p] = "ok"
    BY AnswerIsResult, CallSets
  <2>2. \A w \in Waits : w \in GotFrom(p) <=> Answer[w] = p
    BY AnswerIsResult, CallSets DEF GotFrom
  <2>3. GotFrom(p) \subseteq Waits
    BY DEF GotFrom
  <2> QED BY <2>1, <2>2, <2>3 DEF Matched
<1> QED BY <1>1, CallsInvariant, RendezvousMatches, PTL
-----------------------------------------------------------------------------
(* What an answer can be.                                                  *)
LEMMA AnswerWords ==
  /\ \A x \in Calls : x \notin {"pending", "ok", "aborted"}
  /\ \A x \in Closers : x \notin Calls
  /\ Waits \subseteq Calls /\ Provides \subseteq Calls
  /\ \A w \in Waits : w \notin Provides
  /\ ~("pending" \in Provides \cup {"ok"}) /\ ~("aborted" \in Provides \cup {"ok"})
BY CallsAssumption, CallSets DEF CallsAssumption, Calls

(* A lambda that runs is the next of those that were posted.               *)
LEMMA Runs ==
  ASSUME TypeOK, PostedOnce, NEW c, NextLambda(c), UNCHANGED posted
  PROVE  /\ posted[ran + 1] = c /\ Ran' = Ran \cup {ran + 1} /\ ran + 1 \notin Ran
         /\ c \in Calls \cup Closers /\ ran + 1 \in 1..Len(posted)
         /\ \A i \in Ran : /\ i \in Nat /\ i < ran + 1 /\ posted[i] # c
                           /\ posted[i] \in Calls \cup Closers
<1>1. ran \in Nat /\ ran + 1 \in 1..Len(posted) /\ posted[ran + 1] = c /\ ran' = ran + 1
  BY DEF NextLambda, TypeOK
<1>2. \A i \in Ran : i \in 1..Len(posted) /\ i \in Nat /\ i < ran + 1
  BY <1>1 DEF Ran
<1>3. Ran' = Ran \cup {ran + 1} /\ ran + 1 \notin Ran
  BY <1>1 DEF Ran
<1>4. \A i \in 1..Len(posted) : posted[i] \in Calls \cup Closers
  BY DEF TypeOK
<1> QED BY <1>1, <1>2, <1>3, <1>4 DEF PostedOnce

(* Its call then is queued or done, and so may be the one it has met.      *)
LEMMA RunOnce ==
  ASSUME TypeOK, PostedOnce, NEW c, NextLambda(c), UNCHANGED posted,
         \A x \in Calls \cup Closers :
           /\ stage[x] \notin {"idle", "closing"} => stage'[x] \notin {"idle", "closing"}
           /\ stage'[x] \in {"queued", "done"} => stage[x] \in {"queued", "done"} \/ x = c
  PROVE  PostedOnce'
<1>1. \A i \in 1..Len(posted) : posted[i] \in Calls \cup Closers
  BY DEF TypeOK
<1>2. \A i \in 1..Len(posted') : stage'[posted'[i]] \notin {"idle", "closing"}
  BY <1>1 DEF PostedOnce
<1>3. ASSUME NEW x \in Calls, stage'[x] \in {"queued", "done"}
      PROVE  \E i \in Ran' : posted'[i] = x
  BY <1>3, Runs DEF PostedOnce
<1> QED BY <1>2, <1>3 DEF PostedOnce

LEMMA PostOnce ==
  ASSUME TypeOK, PostedOnce, NEW c \in Calls \cup Closers, stage[c] \in {"idle", "closing"},
         Post(c), UNCHANGED ran
  PROVE  /\ PostedOnce' /\ Ran' = Ran
         /\ \A i \in Ran : posted'[i] = posted[i]
<1>1. /\ Len(posted') = Len(posted) + 1 /\ posted'[Len(posted) + 1] = c
      /\ \A i \in 1..Len(posted) : posted'[i] = posted[i] /\ posted[i] \in Calls \cup Closers
      /\ Len(posted) \in Nat
  BY DEF Post, TypeOK
<1>2. \A i \in 1..Len(posted') : i \in 1..Len(posted) \/ i = Len(posted) + 1
  BY <1>1
<1>3. \A x \in Calls \cup Closers : stage'[x] = IF x = c THEN "posted" ELSE stage[x]
  BY DEF Post, TypeOK
<1>4. \A i \in 1..Len(posted) : posted[i] # c
  BY DEF PostedOnce
<1>5. Ran' = Ran /\ Ran \subseteq 1..Len(posted)
  BY DEF Ran, TypeOK
<1>6. \A i \in 1..Len(posted') : stage'[posted'[i]] \notin {"idle", "closing"}
  BY <1>1, <1>2, <1>3 DEF PostedOnce
<1>7. \A i, j \in 1..Len(posted') : posted'[i] = posted'[j] => i = j
  BY <1>1, <1>2, <1>4 DEF PostedOnce
<1>8. \A x \in Calls : stage'[x] \in {"queued", "done"} => \E i \in Ran' : posted'[i] = x
  BY <1>1, <1>3, <1>5 DEF PostedOnce
<1> QED BY <1>1, <1>5, <1>6, <1>7, <1>8 DEF PostedOnce

(* A step that runs no lambda and answers nobody.                          *)
LEMMA NoneRuns ==
  ASSUME OrderInv, PostedOnce', UNCHANGED <<q, vq, results>>, Ran' = Ran,
         \A i \in Ran : posted'[i] = posted[i], closed => closed'
  PROVE  OrderInv'
<1>1. Answer' = Answer
  BY DEF Answer
<1>2. ASSUME NEW s, Sorted(s) PROVE ArrivedSo(s, posted', ran')
  <2>1. \A i \in 1..ran' : i \in 1..ran /\ posted'[i] = posted[i]
    BY DEF Ran
  <2> QED BY <1>2, <2>1 DEF Sorted, ArrivedSo
<1>3. Sorted(q)' /\ Sorted(vq)'
  BY <1>2 DEF OrderInv, Sorted
<1> QED BY <1>1, <1>3 DEF OrderInv, OpenQueued, InOrder, FirstGetsFirst, Gets, Served, In

-----------------------------------------------------------------------------
(* Queues stay in order.                                                   *)

LEMMA SortedStays ==
  ASSUME TypeOK, PostedOnce, NEW c, NextLambda(c), UNCHANGED posted,
         NEW s, Sorted(s), \A a \in 1..Len(s) : s[a] # c
  PROVE  ArrivedSo(s, posted', ran')
<1>1. \A a, b \in 1..Len(s) : a < b =>
        \A i, j \in Ran' : posted'[i] = s[a] /\ posted'[j] = s[b] => i < j
  BY Runs DEF Sorted, ArrivedSo, Ran
<1> QED BY <1>1 DEF ArrivedSo, Ran

LEMMA SortedTail ==
  ASSUME TypeOK, PostedOnce, NEW c, NextLambda(c), UNCHANGED posted,
         NEW S, NEW s \in Seq(S), s # <<>>, Sorted(s), \A a \in 1..Len(s) : s[a] # c
  PROVE  ArrivedSo(Tail(s), posted', ran')
<1>1. \A a \in 1..Len(Tail(s)) : a + 1 \in 1..Len(s) /\ Tail(s)[a] = s[a + 1] /\ a \in Int
  BY HeadTailProperties, EmptySeq
<1>2. \A a, b \in 1..Len(Tail(s)) : a < b => a + 1 < b + 1
  OBVIOUS
<1> QED BY <1>1, <1>2, SortedStays DEF ArrivedSo

LEMMA SortedAppend ==
  ASSUME TypeOK, PostedOnce, NEW c, NextLambda(c), UNCHANGED posted,
         NEW S, c \in S, NEW s \in Seq(S), Sorted(s), \A a \in 1..Len(s) : s[a] # c
  PROVE  ArrivedSo(Append(s, c), posted', ran')
<1>1. /\ Len(Append(s, c)) = Len(s) + 1 /\ Len(s) \in Nat /\ Append(s, c)[Len(s) + 1] = c
      /\ \A a \in 1..Len(s) : Append(s, c)[a] = s[a]
  OBVIOUS
<1>2. \A a, b \in 1..Len(Append(s, c)) : a < b =>
        a \in 1..Len(s) /\ (b \in 1..Len(s) \/ b = Len(s) + 1)
  BY <1>1
<1>3. \A i, j \in Ran' : posted'[i] # c /\ posted'[j] = c => i < j
  BY Runs
<1> QED BY <1>1, <1>2, <1>3, SortedStays DEF ArrivedSo, Ran

-----------------------------------------------------------------------------
(* A lambda that serves nobody: its call has come last.                    *)
LEMMA NobodyServed ==
  ASSUME CallInv, Matched, OrderInv, NEW c, NextLambda(c), UNCHANGED posted,
         \A x \in Calls : Answer'[x] = Answer[x]
                          \/ (Answer[x] = "pending" /\ Answer'[x] = "aborted")
  PROVE  InOrder(Waits)' /\ InOrder(Provides)' /\ FirstGetsFirst'
<1> USE DEF CallInv, OrderInv
<1>1. \A x \in Calls : Served(x)' <=> Served(x)
  BY AnswerWords DEF Served
<1>2. stage[c] = "posted"
  BY RunPlace
<1>3. c \in Calls => Answer[c] = "pending"
  BY <1>2, FirstAnswer
<1>4. c \in Calls => ~Served(c)
  BY <1>3, AnswerWords DEF Served
<1>5. ASSUME NEW S, S \subseteq Calls, InOrder(S) PROVE
        \A i, k \in Ran' : posted'[i] \in S /\ posted'[k] \in S
                           /\ Served(posted[k]) /\ ~Served(posted[i]) => k < i
  BY <1>4, <1>5, Runs DEF InOrder
<1>6. InOrder(Waits)' /\ InOrder(Provides)'
  BY <1>1, <1>5, AnswerWords DEF InOrder, Served
<1>7. ASSUME NEW i \in Ran', NEW m \in Ran', Gets(i, m)'
      PROVE  i \in Ran /\ m \in Ran /\ Gets(i, m)
  <2>1. /\ posted[i] \in Waits /\ posted[m] \in Provides /\ posted[i] \in Calls
        /\ Answer[posted[i]] = posted[m]
    BY <1>7, AnswerWords DEF Gets
  <2>2. posted[i] # c
    BY <2>1, <1>3, AnswerWords
  <2>3. Answer[posted[m]] = "ok"
    BY <2>1 DEF Matched
  <2>4. posted[m] # c
    BY <2>1, <2>3, <1>3, AnswerWords
  <2> QED BY <2>1, <2>2, <2>4, Runs DEF Gets
<1>8. FirstGetsFirst'
  BY <1>7 DEF FirstGetsFirst
<1> QED BY <1>6, <1>8

(* A wait() that finds a value: nobody else waits, and the value it takes  *)
(* came before the others.                                                 *)
LEMMA WaitTakes ==
  ASSUME CallInv, Matched, OrderInv, NoLostWakeup, NEW w \in Waits, NextLambda(w),
         UNCHANGED posted, ~closed, vq # <<>>,
         \A x \in Calls : Answer'[x] = IF x = w THEN Head(vq)
                                       ELSE IF x = Head(vq) THEN "ok" ELSE Answer[x],
         vq' = Tail(vq), UNCHANGED q
  PROVE  OpenQueued' /\ InOrder(Waits)' /\ InOrder(Provides)' /\ FirstGetsFirst'
<1> USE DEF CallInv, OrderInv
<1> DEFINE p == Head(vq)
<1>1. /\ p = vq[1] /\ 1 \in 1..Len(vq) /\ p \in Provides /\ stage[p] = "queued"
      /\ \A a \in 1..Len(vq) : a # 1 => a - 1 \in 1..Len(Tail(vq)) /\ Tail(vq)[a - 1] = vq[a]
      /\ \A a \in 1..Len(vq) : a # 1 => 1 < a
  <2>1. p = vq[1] /\ 1 \in 1..Len(vq) /\ p \in Provides
    BY PopPlace DEF OnePlace, TypeOK
  <2>2. stage[p] = "queued"
    BY <2>1 DEF OnePlace
  <2>3. Len(Tail(vq)) = Len(vq) - 1 /\ \A i \in 1..Len(Tail(vq)) : Tail(vq)[i] = vq[i + 1]
    BY HeadTailProperties DEF TypeOK
  <2>4. \A a \in 1..Len(vq) : a # 1 => 1 < a /\ a - 1 \in 1..Len(Tail(vq)) /\ (a - 1) + 1 = a
    BY <2>1, <2>3 DEF TypeOK
  <2> QED BY <2>1, <2>2, <2>3, <2>4
<1>2. stage[w] = "posted"
  BY RunPlace
<1>3. Answer[w] = "pending" /\ Answer[p] = "pending" /\ w # p
  BY <1>1, <1>2, FirstAnswer, AnswerWords
<1> HIDE DEF p
<1>4. \A x \in Calls : Answer'[x] = IF x = w THEN p ELSE IF x = p THEN "ok" ELSE Answer[x]
  BY DEF p
<1>5. \A x \in Calls : Served(x)' <=> Served(x) \/ x = w \/ x = p
  BY <1>1, <1>4, AnswerWords DEF Served
<1>6. ~Served(w) /\ ~Served(p)
  BY <1>3, AnswerWords DEF Served
<1>7. \A i \in Ran : posted[i] \in Waits => Served(posted[i])
  <2>1. q = <<>> /\ Len(q) = 0
    BY NoLength DEF NoLostWakeup
  <2> QED BY <2>1 DEF OpenQueued, In
<1>8. ASSUME NEW i \in Ran, posted[i] \in Provides, ~Served(posted[i]), posted[i] # p
      PROVE  In(posted[i], Tail(vq)) /\ \A k \in Ran : posted[k] = p => k < i
  <2>1. PICK a \in 1..Len(vq) : vq[a] = posted[i]
    BY <1>8 DEF OpenQueued, In
  <2>2. a # 1
    BY <2>1, <1>1, <1>8 DEF p
  <2>3. a - 1 \in 1..Len(Tail(vq)) /\ Tail(vq)[a - 1] = posted[i]
    BY <2>1, <2>2, <1>1
  <2>4. 1 < a /\ vq[1] = p
    BY <2>2, <1>1
  <2>5. \A k \in Ran : posted[k] = p => k < i
    BY <2>1, <2>4, <1>1 DEF Sorted, ArrivedSo, Ran
  <2> QED BY <2>3, <2>5 DEF In
<1>9. OpenQueued'
  <2>1. ASSUME NEW i \in Ran', posted[i] \in Calls, ~Served(posted[i])'
        PROVE  i \in Ran /\ ~Served(posted[i]) /\ posted[i] # p
    BY <2>1, <1>5, Runs DEF Served
  <2>2. ASSUME NEW i \in Ran', posted[i] \in Waits PROVE Served(posted[i])'
    BY <2>1, <2>2, <1>7, AnswerWords
  <2>3. ASSUME NEW i \in Ran', posted[i] \in Provides, ~Served(posted[i])'
        PROVE  In(posted[i], Tail(vq))
    BY <2>1, <2>3, <1>8, AnswerWords
  <2> QED BY <2>2, <2>3 DEF OpenQueued, In, Served
<1>10. InOrder(Waits)'
  <2>1. ASSUME NEW i \in Ran', posted[i] \in Waits PROVE Served(posted[i])'
    BY <2>1, <1>5, <1>7, Runs, AnswerWords DEF Served
  <2> QED BY <2>1 DEF InOrder, Served
<1>11. InOrder(Provides)'
  <2>1. ASSUME NEW i \in Ran', NEW k \in Ran', posted[i] \in Provides, posted[k] \in Provides,
               Served(posted[k])', ~Served(posted[i])'
        PROVE  k < i
    <3>1. i \in Ran /\ k \in Ran
      BY <2>1, Runs, AnswerWords
    <3>2. ~Served(posted[i]) /\ posted[i] # p /\ (Served(posted[k]) \/ posted[k] = p)
      BY <2>1, <1>5, AnswerWords DEF Served
    <3> QED BY <2>1, <3>1, <3>2, <1>8 DEF InOrder
  <2> QED BY <2>1 DEF InOrder, Served
<1>12. FirstGetsFirst'
  <2>1. ASSUME NEW i \in Ran', NEW m \in Ran', Gets(i, m)'
        PROVE  m \in Ran /\ \/ i \in Ran /\ Gets(i, m)
                            \/ i = ran + 1 /\ posted[m] = p
    <3>1. posted[i] \in Waits /\ posted[m] \in Provides /\ Answer'[posted[i]] = posted[m]
      BY <2>1 DEF Gets
    <3>2. m \in Ran
      BY <3>1, Runs, AnswerWords
    <3>3. CASE i = ran + 1
      BY <3>1, <3>2, <3>3, <1>4, Runs, AnswerWords
    <3>4. CASE i \in Ran
      <4>1. posted[i] # w /\ posted[i] # p /\ posted[i] \in Calls
        BY <3>1, <3>4, <1>1, Runs, AnswerWords
      <4> QED BY <3>1, <3>2, <3>4, <4>1, <1>4 DEF Gets
    <3> QED BY <3>2, <3>3, <3>4, Runs
  <2>2. ASSUME NEW i \in Ran', NEW k \in Ran', NEW m \in Ran', NEW n \in Ran',
               i < k, Gets(i, m)', Gets(k, n)'
        PROVE  m < n
    <3>1. i \in Ran
      BY <2>2, Runs
    <3>2. Gets(i, m) /\ m \in Ran /\ n \in Ran
      BY <2>1, <2>2, <3>1, Runs
    <3>3. CASE k \in Ran
      BY <2>1, <2>2, <3>1, <3>2, <3>3, Runs DEF FirstGetsFirst
    <3>4. CASE k = ran + 1
      <4>1. posted[n] = p
        BY <2>1, <2>2, <3>4, Runs
      <4>2. Answer[posted[m]] = "ok" /\ posted[m] \in Provides
        BY <3>2 DEF Gets, Matched
      <4>3. Served(posted[m])
        BY <4>2 DEF Served
      <4> QED BY <4>1, <4>2, <4>3, <3>2, <1>1, <1>6 DEF InOrder
    <3> QED BY <3>3, <3>4, Runs
  <2> QED BY <2>2 DEF FirstGetsFirst
<1> QED BY <1>9, <1>10, <1>11, <1>12

(* A provide() that finds a waiter: no other value is left, and the waiter *)
(* came before the others.                                                 *)
LEMMA ProvideTakes ==
  ASSUME CallInv, Matched, OrderInv, NoLostWakeup, NEW p \in Provides, NextLambda(p),
         UNCHANGED posted, ~closed, q # <<>>,
         \A x \in Calls : Answer'[x] = IF x = Head(q) THEN p
                                       ELSE IF x = p THEN "ok" ELSE Answer[x],
         q' = Tail(q), UNCHANGED vq
  PROVE  OpenQueued' /\ InOrder(Waits)' /\ InOrder(Provides)' /\ FirstGetsFirst'
<1> USE DEF CallInv, OrderInv
<1> DEFINE w == Head(q)
<1>1. /\ w = q[1] /\ 1 \in 1..Len(q) /\ w \in Waits /\ stage[w] = "queued"
      /\ \A a \in 1..Len(q) : a # 1 => a - 1 \in 1..Len(Tail(q)) /\ Tail(q)[a - 1] = q[a]
      /\ \A a \in 1..Len(q) : a # 1 => 1 < a
  <2>1. w = q[1] /\ 1 \in 1..Len(q) /\ w \in Waits
    BY PopPlace DEF OnePlace, TypeOK
  <2>2. stage[w] = "queued"
    BY <2>1 DEF OnePlace
  <2>3. Len(Tail(q)) = Len(q) - 1 /\ \A i \in 1..Len(Tail(q)) : Tail(q)[i] = q[i + 1]
    BY HeadTailProperties DEF TypeOK
  <2>4. \A a \in 1..Len(q) : a # 1 => 1 < a /\ a - 1 \in 1..Len(Tail(q)) /\ (a - 1) + 1 = a
    BY <2>1, <2>3 DEF TypeOK
  <2> QED BY <2>1, <2>2, <2>3, <2>4
<1>2. stage[p] = "posted"
  BY RunPlace
<1>3. Answer[w] = "pending" /\ Answer[p] = "pending" /\ w # p
  BY <1>1, <1>2, FirstAnswer, AnswerWords
<1> HIDE DEF w
<1>4. \A x \in Calls : Answer'[x] = IF x = w THEN p ELSE IF x = p THEN "ok" ELSE Answer[x]
  BY DEF w
<1>5. \A x \in Calls : Served(x)' <=> Served(x) \/ x = w \/ x = p
  BY <1>1, <1>4, AnswerWords DEF Served
<1>6. ~Served(w) /\ ~Served(p)
  BY <1>3, AnswerWords DEF Served
<1>7. \A i \in Ran : posted[i] \in Provides => Served(posted[i])
  <2>1. vq = <<>> /\ Len(vq) = 0
    BY NoLength DEF NoLostWakeup
  <2> QED BY <2>1 DEF OpenQueued, In
<1>8. ASSUME NEW i \in Ran, posted[i] \in Waits, ~Served(posted[i]), posted[i] # w
      PROVE  In(posted[i], Tail(q)) /\ \A k \in Ran : posted[k] = w => k < i
  <2>1. PICK a \in 1..Len(q) : q[a] = posted[i]
    BY <1>8 DEF OpenQueued, In
  <2>2. a # 1
    BY <2>1, <1>1, <1>8 DEF w
  <2>3. a - 1 \in 1..Len(Tail(q)) /\ Tail(q)[a - 1] = posted[i]
    BY <2>1, <2>2, <1>1
  <2>4. 1 < a /\ q[1] = w
    BY <2>2, <1>1
  <2>5. \A k \in Ran : posted[k] = w => k < i
    BY <2>1, <2>4, <1>1 DEF Sorted, ArrivedSo, Ran
  <2> QED BY <2>3, <2>5 DEF In
<1>9. OpenQueued'
  <2>1. ASSUME NEW i \in Ran', posted[i] \in Calls, ~Served(posted[i])'
        PROVE  i \in Ran /\ ~Served(posted[i]) /\ posted[i] # w
    BY <2>1, <1>5, Runs DEF Served
  <2>2. ASSUME NEW i \in Ran', posted[i] \in Provides PROVE Served(posted[i])'
    BY <2>1, <2>2, <1>7, AnswerWords
  <2>3. ASSUME NEW i \in Ran', posted[i] \in Waits, ~Served(posted[i])'
        PROVE  In(posted[i], Tail(q))
    BY <2>1, <2>3, <1>8, AnswerWords
  <2> QED BY <2>2, <2>3 DEF OpenQueued, In, Served
<1>10. InOrder(Provides)'
  <2>1. ASSUME NEW i \in Ran', posted[i] \in Provides PROVE Served(posted[i])'
    BY <2>1, <1>5, <1>7, Runs, AnswerWords DEF Served
  <2> QED BY <2>1 DEF InOrder, Served
<1>11. InOrder(Waits)'
  <2>1. ASSUME NEW i \in Ran', NEW k \in Ran', posted[i] \in Waits, posted[k] \in Waits,
               Served(posted[k])', ~Served(posted[i])'
        PROVE  k < i
    <3>1. i \in Ran /\ k \in Ran
      BY <2>1, Runs, AnswerWords
    <3>2. ~Served(posted[i]) /\ posted[i] # w /\ (Served(posted[k]) \/ posted[k] = w)
      BY <2>1, <1>5, AnswerWords DEF Served
    <3> QED BY <2>1, <3>1, <3>2, <1>8 DEF InOrder
  <2> QED BY <2>1 DEF InOrder, Served
<1>12. FirstGetsFirst'
  <2>1. ASSUME NEW i \in Ran', NEW m \in Ran', Gets(i, m)'
        PROVE  i \in Ran /\ \/ m \in Ran /\ Gets(i, m)
                            \/ m = ran + 1 /\ posted[i] = w
    <3>1. posted[i] \in Waits /\ posted[m] \in Provides /\ Answer'[posted[i]] = posted[m]
      BY <2>1 DEF Gets
    <3>2. i \in Ran
      BY <3>1, Runs, AnswerWords
    <3>3. CASE posted[i] = w
      <4>1. posted[m] = p
        BY <3>1, <3>3, <1>1, <1>4, AnswerWords
      <4> QED BY <3>2, <3>3, <4>1, Runs
    <3>4. CASE posted[i] # w
      <4>1. Answer[posted[i]] = posted[m]
        BY <3>1, <3>4, <1>4, AnswerWords
      <4>2. Answer[posted[m]] = "ok"
        BY <3>1, <4>1 DEF Matched
      <4>3. posted[m] # p
        BY <4>2, <1>3
      <4> QED BY <3>1, <3>2, <4>1, <4>3, Runs DEF Gets
    <3> QED BY <3>3, <3>4
  <2>2. ASSUME NEW i \in Ran', NEW k \in Ran', NEW m \in Ran', NEW n \in Ran',
               i < k, Gets(i, m)', Gets(k, n)'
        PROVE  m < n
    <3>1. i \in Ran /\ k \in Ran
      BY <2>1, <2>2
    <3>2. CASE posted[i] # w /\ posted[k] # w
      BY <2>1, <2>2, <3>1, <3>2 DEF FirstGetsFirst
    <3>3. CASE posted[k] = w
      <4>1. n = ran + 1
        <5>1. ~Gets(k, n)
          BY <3>3, <1>3, AnswerWords DEF Gets
        <5> QED BY <2>1, <2>2, <5>1
      <4>2. posted[i] # w
        <5>1. i \in 1..Len(posted) /\ k \in 1..Len(posted) /\ i # k
          BY <3>1, <2>2 DEF Ran, TypeOK
        <5> QED BY <5>1, <3>3 DEF PostedOnce
      <4>3. m \in Ran
        BY <2>1, <2>2, <4>2
      <4> QED BY <4>1, <4>3, Runs
    <3>4. CASE posted[i] = w /\ posted[k] # w
      <4>1. Gets(k, n)
        BY <2>1, <2>2, <3>4
      <4>2. Served(posted[k]) /\ posted[k] \in Waits
        BY <4>1 DEF Gets, Served
      <4>3. k < i
        BY <4>2, <3>1, <3>4, <1>1, <1>6 DEF InOrder
      <4> QED BY <4>3, <3>1, <2>2, Runs
    <3> QED BY <3>2, <3>3, <3>4
  <2> QED BY <2>2 DEF FirstGetsFirst
<1> QED BY <1>9, <1>10, <1>11, <1>12

-----------------------------------------------------------------------------
(* A set of queued calls is aborted.                                       *)
LEMMA AnswerAborts ==
  ASSUME CallInv, NEW S, S \subseteq Calls, \A c \in S : stage[c] # "done",
         results' = [c \in Calls |-> IF c \in S THEN Append(results[c], "aborted")
                                                ELSE results[c]]
  PROVE  \A c \in Calls : IF c \in S THEN Answer[c] = "pending" /\ Answer'[c] = "aborted"
                                     ELSE Answer'[c] = Answer[c]
<1>1. "aborted" \in Answers
  BY DEF Answers
<1>2. ASSUME NEW c \in S PROVE Answer[c] = "pending" /\ Answer'[c] = "aborted"
  <2>1. Answer[c] = "pending" /\ results'[c] # <<>> /\ results'[c][1] = "aborted"
    BY <1>1, FirstAnswer DEF CallInv
  <2> QED BY <2>1 DEF Answer
<1>3. ASSUME NEW c \in Calls, c \notin S PROVE Answer'[c] = Answer[c]
  BY <1>3 DEF Answer
<1> QED BY <1>2, <1>3

LEMMA AnswerAborted ==
  ASSUME CallInv, NEW c \in Calls, stage[c] # "done",
         results' = Invoke(results, c, "aborted")
  PROVE  \A x \in Calls : Answer'[x] = Answer[x]
                          \/ (Answer[x] = "pending" /\ Answer'[x] = "aborted")
<1>1. results' = [x \in Calls |-> IF x \in {c} THEN Append(results[x], "aborted")
                                              ELSE results[x]]
  BY DEF Invoke, CallInv, TypeOK
<1> QED BY <1>1, AnswerAborts

(* A match, as its two parties see it.                                     *)
LEMMA AnswerMatch ==
  ASSUME CallInv, NEW w \in Waits, NEW p \in Provides,
         stage[w] # "done", stage[p] # "done",
         results' = Invoke(Invoke(results, w, p), p, "ok")
  PROVE  \A x \in Calls : Answer'[x] = IF x = w THEN p ELSE IF x = p THEN "ok" ELSE Answer[x]
<1>1. p \in Answers /\ "ok" \in Answers /\ w # p /\ w \in Calls /\ p \in Calls
  BY AnswerWords DEF Answers
<1>2. Answer' = [Answer EXCEPT ![w] = p, ![p] = "ok"]
  BY <1>1, AnswersTwo DEF CallInv
<1> QED BY <1>1, <1>2 DEF Answer

LEMMA WaitKeepsOrder ==
  ASSUME CallInv, Matched, OrderInv, NoLostWakeup, NEW w \in Waits, RunWait(w)
  PROVE  OrderInv'
<1> USE DEF CallInv, OrderInv
<1>1. /\ NextLambda(w) /\ UNCHANGED <<posted, closed>> /\ stage[w] = "posted"
      /\ w \in Calls /\ w \in Calls \cup Closers
      /\ q \in Seq(Waits) /\ vq \in Seq(Provides)
      /\ \A a \in 1..Len(q) : q[a] # w
      /\ \A a \in 1..Len(vq) : vq[a] # w
  BY RunPlace, AnswerWords DEF RunWait, OnePlace, TypeOK
<1>2. CASE closed
  <2>1. results' = Invoke(results, w, "aborted") /\ stage' = [stage EXCEPT ![w] = "done"]
        /\ UNCHANGED <<q, vq>>
    BY <1>2 DEF RunWait
  <2>2. PostedOnce'
    BY <1>1, <2>1, RunOnce DEF TypeOK
  <2>3. Sorted(q)' /\ Sorted(vq)'
    BY <1>1, <2>1, SortedStays DEF Sorted
  <2>4. OpenQueued'
    BY <1>1, <1>2 DEF OpenQueued
  <2> QED BY <1>1, <2>1, <2>2, <2>3, <2>4, AnswerAborted, NobodyServed
<1>3. CASE ~closed /\ vq # <<>>
  <2>1. /\ results' = Invoke(Invoke(results, w, Head(vq)), Head(vq), "ok")
        /\ stage' = [stage EXCEPT ![w] = "done", ![Head(vq)] = "done"]
        /\ vq' = Tail(vq) /\ UNCHANGED q
    BY <1>3 DEF RunWait
  <2>2. Head(vq) \in Provides /\ stage[Head(vq)] = "queued"
    BY <1>3, PopPlace DEF TypeOK, OnePlace
  <2>3. PostedOnce'
    BY <1>1, <2>1, <2>2, RunOnce DEF TypeOK
  <2>4. Sorted(q)'
    BY <1>1, <2>1, SortedStays DEF Sorted
  <2>5. Sorted(vq)'
    BY <1>1, <1>3, <2>1, SortedTail DEF Sorted
  <2>6. \A x \in Calls : Answer'[x] = IF x = w THEN Head(vq)
                                      ELSE IF x = Head(vq) THEN "ok" ELSE Answer[x]
    BY <1>1, <2>1, <2>2, AnswerMatch
  <2>7. OpenQueued' /\ InOrder(Waits)' /\ InOrder(Provides)' /\ FirstGetsFirst'
    BY <1>1, <1>3, <2>1, <2>6, WaitTakes
  <2> QED BY <2>3, <2>4, <2>5, <2>7
<1>4. CASE ~closed /\ vq = <<>>
  <2>1. q' = Append(q, w) /\ stage' = [stage EXCEPT ![w] = "queued"]
        /\ UNCHANGED <<vq, results>>
    BY <1>4 DEF RunWait
  <2>2. PostedOnce'
    BY <1>1, <2>1, RunOnce DEF TypeOK
  <2>3. Sorted(q)'
    BY <1>1, <2>1, SortedAppend DEF Sorted
  <2>4. Sorted(vq)'
    BY <1>1, <2>1, SortedStays DEF Sorted
  <2>5. Answer' = Answer
    BY <2>1 DEF Answer
  <2>6. OpenQueued'
    <3>1. /\ Len(q') = Len(q) + 1 /\ Len(q) \in Nat /\ q'[Len(q) + 1] = w
          /\ \A a \in 1..Len(q) : q'[a] = q[a]
      BY <1>1, <2>1
    <3>2. \A x : x = w \/ In(x, q) => In(x, q')
      BY <3>1 DEF In
    <3>3. \A i \in Ran' : i \in Ran \/ (posted[i] = w /\ posted[i] \notin Provides)
      BY <1>1, Runs, AnswerWords
    <3> QED BY <1>1, <1>4, <2>1, <2>5, <3>2, <3>3 DEF OpenQueued, Served
  <2> QED BY <1>1, <2>2, <2>3, <2>4, <2>5, <2>6, NobodyServed
<1> QED BY <1>2, <1>3, <1>4

LEMMA ProvideKeepsOrder ==
  ASSUME CallInv, Matched, OrderInv, NoLostWakeup, NEW p \in Provides, RunProvide(p)
  PROVE  OrderInv'
<1> USE DEF CallInv, OrderInv
<1>1. /\ NextLambda(p) /\ UNCHANGED <<posted, closed>> /\ stage[p] = "posted"
      /\ p \in Calls /\ p \in Calls \cup Closers
      /\ q \in Seq(Waits) /\ vq \in Seq(Provides)
      /\ \A a \in 1..Len(q) : q[a] # p
      /\ \A a \in 1..Len(vq) : vq[a] # p
  BY RunPlace, AnswerWords DEF RunProvide, OnePlace, TypeOK
<1>2. CASE closed
  <2>1. results' = Invoke(results, p, "aborted") /\ stage' = [stage EXCEPT ![p] = "done"]
        /\ UNCHANGED <<q, vq>>
    BY <1>2 DEF RunProvide
  <2>2. PostedOnce'
    BY <1>1, <2>1, RunOnce DEF TypeOK
  <2>3. Sorted(q)' /\ Sorted(vq)'
    BY <1>1, <2>1, SortedStays DEF Sorted
  <2>4. OpenQueued'
    BY <1>1, <1>2 DEF OpenQueued
  <2> QED BY <1>1, <2>1, <2>2, <2>3, <2>4, AnswerAborted, NobodyServed
<1>3. CASE ~closed /\ q # <<>>
  <2>1. /\ results' = Invoke(Invoke(results, Head(q), p), p, "ok")
        /\ stage' = [stage EXCEPT ![p] = "done", ![Head(q)] = "done"]
        /\ q' = Tail(q) /\ UNCHANGED vq
    BY <1>3 DEF RunProvide
  <2>2. Head(q) \in Waits /\ stage[Head(q)] = "queued"
    BY <1>3, PopPlace DEF TypeOK, OnePlace
  <2>3. PostedOnce'
    BY <1>1, <2>1, <2>2, RunOnce DEF TypeOK
  <2>4. Sorted(q)'
    BY <1>1, <1>3, <2>1, SortedTail DEF Sorted
  <2>5. Sorted(vq)'
    BY <1>1, <2>1, SortedStays DEF Sorted
  <2>6. \A x \in Calls : Answer'[x] = IF x = Head(q) THEN p
                                      ELSE IF x = p THEN "ok" ELSE Answer[x]
    BY <1>1, <2>1, <2>2, AnswerMatch
  <2>7. OpenQueued' /\ InOrder(Waits)' /\ InOrder(Provides)' /\ FirstGetsFirst'
    BY <1>1, <1>3, <2>1, <2>6, ProvideTakes
  <2> QED BY <2>3, <2>4, <2>5, <2>7
<1>4. CASE ~closed /\ q = <<>>
  <2>1. vq' = Append(vq, p) /\ stage' = [stage EXCEPT ![p] = "queued"]
        /\ UNCHANGED <<q, results>>
    BY <1>4 DEF RunProvide
  <2>2. PostedOnce'
    BY <1>1, <2>1, RunOnce DEF TypeOK
  <2>3. Sorted(vq)'
    BY <1>1, <2>1, SortedAppend DEF Sorted
  <2>4. Sorted(q)'
    BY <1>1, <2>1, SortedStays DEF Sorted
  <2>5. Answer' = Answer
    BY <2>1 DEF Answer
  <2>6. OpenQueued'
    <3>1. /\ Len(vq') = Len(vq) + 1 /\ Len(vq) \in Nat /\ vq'[Len(vq) + 1] = p
          /\ \A a \in 1..Len(vq) : vq'[a] = vq[a]
      BY <1>1, <2>1
    <3>2. \A x : x = p \/ In(x, vq) => In(x, vq')
      BY <3>1 DEF In
    <3>3. \A i \in Ran' : i \in Ran \/ (posted[i] = p /\ posted[i] \notin Waits)
      BY <1>1, Runs, AnswerWords
    <3> QED BY <1>1, <1>4, <2>1, <2>5, <3>2, <3>3 DEF OpenQueued, Served
  <2> QED BY <1>1, <2>2, <2>3, <2>4, <2>5, <2>6, NobodyServed
<1> QED BY <1>2, <1>3, <1>4

(* A drain comes after closed_ was set, so nobody is served any more.      *)
LEMMA DrainKeepsOrder ==
  ASSUME CallInv, Matched, OrderInv, ClosersClose, NEW k \in Closers, RunDrain(k)
  PROVE  OrderInv'
<1> USE DEF CallInv, OrderInv
<1> DEFINE left == ToSet(q) \cup ToSet(vq)
<1>1. NextLambda(k) /\ UNCHANGED <<posted, closed>> /\ stage[k] = "posted"
  BY RunPlace DEF RunDrain
<1>2. left \subseteq Calls /\ \A c \in left : stage[c] = "queued"
  BY QueuedCalls
<1>3. /\ stage' = [c \in Calls \cup Closers |-> IF c \in left \cup {k} THEN "done" ELSE stage[c]]
      /\ results' = [c \in Calls |-> IF c \in left THEN Append(results[c], "aborted")
                                                   ELSE results[c]]
      /\ q' = <<>> /\ vq' = <<>>
  BY DEF RunDrain
<1> HIDE DEF left
<1>4. PostedOnce'
  BY <1>1, <1>2, <1>3, RunOnce
<1>5. Sorted(q)' /\ Sorted(vq)'
  BY <1>3, NoLength DEF Sorted, ArrivedSo
<1>6. OpenQueued'
  BY <1>1 DEF ClosersClose, OpenQueued
<1>7. InOrder(Waits)' /\ InOrder(Provides)' /\ FirstGetsFirst'
  BY <1>1, <1>2, <1>3, AnswerAborts, NobodyServed
<1> QED BY <1>4, <1>5, <1>6, <1>7

LEMMA OrderInvariant == Spec => []OrderInv
<1>1. Init => OrderInv
  <2> SUFFICES ASSUME Init PROVE OrderInv
    OBVIOUS
  <2>1. Ran = {} /\ 1..Len(posted) = {} /\ Len(q) = 0 /\ Len(vq) = 0
    BY NoLength DEF Init, Ran
  <2>2. \A c \in Calls : stage[c] = "idle"
    BY DEF Init
  <2> QED BY <2>1, <2>2 DEF OrderInv, PostedOnce, Sorted, ArrivedSo, OpenQueued, InOrder,
                          FirstGetsFirst
<1>2. CallInv /\ Matched /\ NoLostWakeup /\ ClosersClose /\ OrderInv /\ [Next]_vars => OrderInv'
  <2> SUFFICES ASSUME CallInv, Matched, NoLostWakeup, ClosersClose, OrderInv, [Next]_vars
               PROVE  OrderInv'
    OBVIOUS
  <2>1. ASSUME NEW c \in Calls \cup Closers, stage[c] \in {"idle", "closing"}, Post(c),
               UNCHANGED <<q, vq, closed, ran, results>>
        PROVE  OrderInv'
    BY <2>1, PostOnce, NoneRuns DEF CallInv, OrderInv
  <2>2. ASSUME NEW k \in Closers, SetClosed(k) PROVE OrderInv'
    <3>1. /\ UNCHANGED <<q, vq, posted, ran, results>> /\ closed'
          /\ \A c \in Calls : stage'[c] = stage[c]
          /\ \A c \in Closers : stage'[c] = IF c = k THEN "closing" ELSE stage[c]
          /\ stage[k] = "idle"
      BY <2>2, AnswerWords DEF SetClosed, CallInv, TypeOK
    <3>2. \A i \in 1..Len(posted) : posted[i] \in Calls \cup Closers /\ posted[i] # k
      BY <3>1 DEF OrderInv, PostedOnce, CallInv, TypeOK
    <3>3. \A i \in 1..Len(posted) : stage'[posted[i]] = stage[posted[i]]
      BY <3>1, <3>2
    <3>4. PostedOnce'
      BY <3>1, <3>3 DEF OrderInv, PostedOnce, Ran
    <3> QED BY <3>1, <3>4, NoneRuns DEF Ran
  <2>3. CASE UNCHANGED vars
    <3>1. PostedOnce'
      BY <2>3 DEF vars, OrderInv, PostedOnce, Ran
    <3> QED BY <2>3, <3>1, NoneRuns DEF vars, Ran
  <2> QED BY <2>1, <2>2, <2>3, CallSets, WaitKeepsOrder, ProvideKeepsOrder, DrainKeepsOrder
          DEF Next, RunLambda, CallWait, CallProvide, PostDrain
<1> QED BY <1>1, <1>2, CallsInvariant, RendezvousMatches, LostWakeupFree, ClosedByClosers,
           PTL DEF Spec

(* First come, first served, on both sides, for any number of calls.       *)
THEOREM NobodyOvertakes == Spec => []NoOvertaking
<1>1. CallInv /\ Matched /\ OrderInv => NoOvertaking
  <2> SUFFICES ASSUME CallInv, Matched, OrderInv, NEW i \in Ran, NEW j \in Ran, i < j,
                      posted[i] \in Waits, posted[j] \in Waits,
                      NEW n \in Ran, posted[n] \in ToSet(results[posted[j]])
               PROVE  \E m \in 1..(n - 1) : posted[m] \in ToSet(results[posted[i]])
    BY DEF NoOvertaking, Ran
  <2> USE DEF CallInv
  <2>1. posted[n] \in Provides
    <3>1. \A x \in ToSet(results[posted[j]]) : x \in Answers
      BY AnswerWords DEF TypeOK, ToSet
    <3>2. posted[n] \in Calls \cup Closers
      BY DEF TypeOK, Ran
    <3> QED BY <3>1, <3>2, CallsAssumption DEF Answers, CallsAssumption, Calls
  <2>2. Gets(j, n)
    BY <2>1, AnswerIsResult, AnswerWords DEF Gets
  <2>3. Served(posted[i])
    <3>1. Served(posted[j])
      BY <2>1, <2>2 DEF Gets, Served
    <3> QED BY <3>1 DEF OrderInv, InOrder, Ran
  <2>4. Answer[posted[i]] \in Provides
    BY <2>3 DEF Served, Matched
  <2> DEFINE p == Answer[posted[i]]
  <2>5. PICK m \in Ran : posted[m] = p
    <3>1. p \in Calls /\ Answer[p] = "ok"
      BY <2>4, AnswerWords DEF Matched
    <3>2. stage[p] = "done"
      BY <3>1, FirstAnswer
    <3> QED BY <3>1, <3>2 DEF OrderInv, PostedOnce
  <2>6. Gets(i, m)
    BY <2>4, <2>5 DEF Gets
  <2>7. m < n
    BY <2>2, <2>6 DEF OrderInv, FirstGetsFirst
  <2>8. posted[m] \in ToSet(results[posted[i]])
    <3>1. posted[m] \in Calls /\ posted[i] \in Calls
      BY <2>4, <2>5, AnswerWords
    <3> QED BY <3>1, <2>5, AnswerIsResult
  <2> QED BY <2>7, <2>8 DEF Ran, TypeOK
<1> QED BY <1>1, CallsInvariant, RendezvousMatches, OrderInvariant, PTL

=============================================================================
