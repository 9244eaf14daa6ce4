-------------------------- MODULE WorkerReadsProofs --------------------------
(* Proofs about who reads what on a worker connection while recv_msgs and  *)
(* visit() may both have a read pending on s_: the forwarder gets the      *)
(* socket to itself, and a visit on a sound connection fails only when     *)
(* the two have each got a part of what the client has sent.               *)
EXTENDS WorkerLinkProofs

-----------------------------------------------------------------------------
(* Where a coroutine a of the server's worker x goes on: at a handler, or  *)
(* at the one that its provide() has posted; at a pending read; at what it *)
(* has left in to_send_.  It does so in one place.                         *)

TurnOf(h, a) == h.to = a \/ (h.to = "provide" /\ h.got[1] = a)
InReady(x, a) == \E i \in 1..Len(x.ready) : TurnOf(x.ready[i], a)
Reading(x, a) == \E i \in 1..Len(x.reads) : x.reads[i] = a
InBacklog(x, a) == \E i \in 1..Len(x.backlog) : x.backlog[i][1] = a
Free(x, a) == ~InReady(x, a) /\ ~Reading(x, a) /\ ~InBacklog(x, a)
Once(x, a) ==
  /\ \A i, j \in 1..Len(x.ready) : TurnOf(x.ready[i], a) /\ TurnOf(x.ready[j], a) => i = j
  /\ \A i, j \in 1..Len(x.reads) : x.reads[i] = a /\ x.reads[j] = a => i = j
  /\ \A i, j \in 1..Len(x.backlog) : x.backlog[i][1] = a /\ x.backlog[j][1] = a => i = j
  /\ ~(InReady(x, a) /\ Reading(x, a)) /\ ~(InReady(x, a) /\ InBacklog(x, a))
  /\ ~(Reading(x, a) /\ InBacklog(x, a))

(* What it goes on with, if it has a handler; whether recv_msgs's comes    *)
(* after visit()'s; whose read comes first.                                *)
Nil == <<"none", "none">>
Resumed(x, a) == \E i \in 1..Len(x.ready) : x.ready[i].to = a
Turn(x, a) ==
  IF Resumed(x, a) THEN x.ready[CHOOSE i \in 1..Len(x.ready) : x.ready[i].to = a].got ELSE Nil
Late(x) == \E i, j \in 1..Len(x.ready) : i < j /\ x.ready[i].to = "V" /\ x.ready[j].to = "R"
First(x) == IF Reading(x, "R") \/ Reading(x, "V") THEN x.reads[1] ELSE "none"

OneEach(x) == Once(x, "R") /\ Once(x, "V")
OneTurn == OneEach(w)

-----------------------------------------------------------------------------
(* What the client has sent: whole messages, and data only after it has    *)
(* confirmed.  It hands its socket on only after that.                     *)

Even(n) == n % 2 = 0
Confirmed(n) == SentBy("confirmed", up, n)
WholeMessages(s) ==
  /\ \A i \in 1..Len(s) :
       /\ s[i][2] = "length" => /\ ~Even(i) /\ i < Len(s)
                                /\ s[i][1] \in {"ping", "confirmed"}
                                /\ s[i + 1] = <<s[i][1], "body">>
       /\ s[i][2] = "body" => Even(i)
       /\ s[i][2] = "data" => SentBy("confirmed", s, i - 1)
  /\ Even(Len(s)) \/ SentBy("confirmed", s, Len(s))

HasTurn(x) == \E i \in 1..Len(x.ready) : x.ready[i].to = "C"
HasOk(x) == \E i \in 1..Len(x.ready) : x.ready[i] = C!Handler("C", C!Ok)
Idle(x) == ~x.reading /\ ~HasTurn(x)
ClientOnce(x) ==
  /\ \A i, j \in 1..Len(x.ready) : x.ready[i].to = "C" /\ x.ready[j].to = "C" => i = j
  /\ ~(x.reading /\ HasTurn(x))
ClientConfirmed ==
  /\ c.pc["C"] = "giving" => Idle(c)
  /\ c.sock = "moved" \/ (c.pc["C"] = "sending" /\ HasOk(c)) => Confirmed(Len(up))
ClientWrites == WholeMessages(up) /\ ClientOnce(c) /\ ClientConfirmed

-----------------------------------------------------------------------------
(* What the server has read, phase by phase of the visit.                  *)

Ping == <<"ping", "body">>
AtLength == Even(upRead)
Unconfirmed == ~Confirmed(upRead)

(* recv_msgs holds a length whose body it will not get, or its handler is  *)
(* about to; it reads where it should, or is about to read on from there.  *)
Holds == /\ w.length["R"] # "none" /\ w.pc["R"] \in {"body", "done"}
         /\ Turn(w, "R") # Ping
Takes == /\ w.pc["R"] = "length" /\ Turn(w, "R") \in Chunk /\ Turn(w, "R")[2] = "length"
InStep == /\ Unconfirmed
          /\ \/ w.pc["R"] = "length" /\ AtLength
             \/ w.pc["R"] = "body" /\ ~AtLength /\ w.length["R"] # "none"
Reads(a) == Reading(w, a) \/ Turn(w, a) = S!Part

(* Who reads on has a part of the next chunk; once the parts went to both, *)
(* visit() gets nothing whole.                                             *)
Scattered == w.torn = "lost"
Parts ==
  /\ \A a \in {"R", "V"} : /\ Turn(w, a) = S!Part => w.torn \in {a, "lost"}
                           /\ Turn(w, a) = S!Torn => Scattered
                           /\ Turn(w, a) \in Chunk => w.torn # a
  /\ Scattered => w.pc["V"] \in {"length", "failed"} /\ Turn(w, "V") \notin Chunk

Visiting == {"providing", "length", "body", "confirmed"}
ServerFlags ==
  /\ w.pc["V"] \in {"none", "start", "providing", "length", "body", "failed", "confirmed",
                    "handed"}
  /\ w.pc["V"] # "none" => w.pc["R"] # "start"
  /\ w.visited <=> w.pc["V"] \notin {"none", "start"}
  /\ w.confirmed <=> w.pc["V"] \in {"confirmed", "handed"}
  /\ w.pc["V"] \in Visiting => w.sock = "open"
  /\ w.pc["V"] \in {"length", "body", "confirmed", "handed"} => w.sendClosed
  /\ w.pc["V"] \in {"none", "start", "providing"} /\ w.sendClosed => w.stopping
  /\ w.pc["V"] \in {"none", "start"} /\ w.sock # "open" => w.stopping \/ ~S!Alive
  /\ w.pc["V"] \in {"confirmed", "handed"} => NoMessage(w)
  /\ (\E i \in 1..Len(w.ready) : w.ready[i].to = "drain") => w.sendClosed

BeforeVisit ==
  w.pc["V"] \in {"none", "start", "providing"} =>
    /\ w.torn # "V" /\ ~Reading(w, "V")
    /\ Reads("R") => InStep
    /\ Turn(w, "R") \in Chunk /\ w.pc["R"] = "length" => Takes /\ ~AtLength /\ Unconfirmed
    /\ Turn(w, "R") \in Chunk /\ w.pc["R"] = "body" =>
         AtLength /\ w.length["R"] # "none" /\ (Turn(w, "R") = Ping => Unconfirmed)
    /\ w.pc["R"] \in {"start", "providing"} => AtLength /\ Unconfirmed
    /\ ~AtLength => Holds \/ Takes
    /\ ~Unconfirmed => Holds
    /\ w.pc["V"] = "providing" =>
         /\ Turn(w, "V") \in {Nil, S!Ok, S!Error}
         /\ Turn(w, "V") = S!Error => ~Sound
         /\ Turn(w, "V") = S!Ok /\ Turn(w, "R") = S!Ok => ~Late(w)

AwaitsLength ==
  w.pc["V"] = "length" /\ ~Scattered =>
    /\ Turn(w, "R") # S!Ok
    /\ Reads("V") =>
         /\ w.torn = "R" => (Reads("R") => InStep)
         /\ w.torn = "none" /\ Reading(w, "R") /\ First(w) = "R" => InStep
         /\ Reading(w, "R") /\ (w.torn = "V" \/ (w.torn = "none" /\ First(w) = "V")) =>
              ~AtLength /\ Holds /\ w.pc["R"] = "body"
         /\ w.torn # "R" /\ ~Reading(w, "R") /\ AtLength =>
              /\ w.pc["R"] = "length" => Turn(w, "R") \notin Chunk
              /\ ~Unconfirmed => Holds
         /\ w.torn # "R" /\ ~Reading(w, "R") /\ ~AtLength => Holds \/ Takes
    /\ Turn(w, "V") # S!Ok /\ (Turn(w, "V") = S!Error => ~Sound)
    /\ Turn(w, "V") \in Chunk /\ Turn(w, "V")[2] = "length" =>
         /\ w.torn = "none" /\ ~Reading(w, "R") /\ ~AtLength /\ Unconfirmed
         /\ Turn(w, "R") \in Chunk => w.pc["R"] # "length" /\ ~Late(w)
         /\ Turn(w, "V") = up[upRead] /\ 0 < upRead
    /\ Turn(w, "V") \in Chunk /\ Turn(w, "V")[2] # "length" =>
         \/ Holds /\ (Reads("R") => w.pc["R"] = "body" /\ AtLength)
         \/ Takes /\ AtLength /\ ~Late(w)

AwaitsBody ==
  w.pc["V"] = "body" =>
    /\ w.torn # "R" /\ ~Reading(w, "R") /\ Turn(w, "R") \in {Nil, S!Error}
    /\ w.length["V"] \in {"ping", "confirmed"}
    /\ Reads("V") => /\ ~AtLength /\ Unconfirmed /\ 0 < upRead
                     /\ up[upRead] = <<w.length["V"], "length">>
    /\ Turn(w, "V") # S!Ok /\ (Turn(w, "V") = S!Error => ~Sound)
    /\ Turn(w, "V") \in Chunk =>
         /\ Turn(w, "V") = <<w.length["V"], "body">> /\ AtLength
         /\ Turn(w, "V") = Ping => Unconfirmed

Taken ==
  w.pc["V"] \in {"confirmed", "handed"} =>
    ~Reading(w, "R") /\ ~Reading(w, "V") /\ Turn(w, "R") \in {Nil, S!Error}

Failed ==
  w.pc["V"] = "failed" =>
    \/ ~Sound \/ Scattered
    \/ /\ Holds /\ ~Reading(w, "V")
       /\ Reads("R") => w.pc["R"] = "body" /\ AtLength

Phases == Parts /\ BeforeVisit /\ AwaitsLength /\ AwaitsBody /\ Taken /\ Failed
ServerReading == OneTurn /\ ServerFlags /\ Phases
ReadsInv == ClientWrites /\ ServerReading

-----------------------------------------------------------------------------
(* The client's end.                                                       *)

LEMMA EvenNext ==
  ASSUME NEW n \in Nat
  PROVE  (Even(n + 1) <=> ~Even(n)) /\ (Even(n + 2) <=> Even(n))
BY DEF Even

LEMMA EvenZero == Even(0)
BY DEF Even

LEMMA MessageWhole ==
  ASSUME NEW s \in Seq(Chunk), WholeMessages(s), ~SentBy("confirmed", s, Len(s)),
         NEW m \in {"ping", "confirmed"}
  PROVE  /\ WholeMessages(s \o ChunksOf(m))
         /\ m = "confirmed" => SentBy("confirmed", s \o ChunksOf(m), Len(s \o ChunksOf(m)))
<1> DEFINE t == s \o ChunksOf(m)
           n == Len(s)
<1>1. <<m, "length">> \in Chunk /\ <<m, "body">> \in Chunk /\ m \in Names
  BY DEF Chunk, Names
<1>2. /\ ChunksOf(m) \in Seq(Chunk) /\ Len(ChunksOf(m)) = 2
      /\ ChunksOf(m)[1] = <<m, "length">> /\ ChunksOf(m)[2] = <<m, "body">>
  BY <1>1 DEF ChunksOf
<1>3. /\ t \in Seq(Chunk) /\ Len(t) = n + 2 /\ n \in Nat
      /\ \A i \in 1..n : t[i] = s[i]
  <2>1. t \in Seq(Chunk) /\ n \in Nat /\ \A i \in 1..n : t[i] = s[i]
    BY <1>2, ConcatParts, Zenon
  <2>2. Len(t) = Len(s) + Len(ChunksOf(m))
    BY <1>2, ConcatProperties, Zenon
  <2> QED BY <1>2, <2>1, <2>2
<1>4. t[n + 1] = <<m, "length">> /\ t[n + 2] = <<m, "body">>
  <2>1. \A i \in 1..Len(t) : IF i <= Len(s) THEN i \in 1..Len(s) /\ t[i] = s[i]
                             ELSE i - Len(s) \in 1..Len(ChunksOf(m))
                                  /\ t[i] = ChunksOf(m)[i - Len(s)]
    BY <1>2, ConcatParts, Zenon
  <2> HIDE DEF t
  <2>2. /\ n + 1 \in 1..Len(t) /\ n + 2 \in 1..Len(t) /\ ~(n + 1 <= n) /\ ~(n + 2 <= n)
        /\ n + 1 - n = 1 /\ n + 2 - n = 2
    BY <1>3
  <2>3. t[n + 1] = ChunksOf(m)[n + 1 - n] /\ t[n + 2] = ChunksOf(m)[n + 2 - n]
    BY <2>1, <2>2
  <2> QED BY <1>2, <2>2, <2>3
<1>5. SentBy(m, t, Len(t))
  BY <1>1, SendChunks
<1> HIDE DEF t
<1>6. Even(n) /\ ~Even(n + 1) /\ Even(n + 2)
  <2>1. Even(n)
    BY DEF WholeMessages, n
  <2> HIDE DEF n
  <2> QED BY <1>3, <2>1, EvenNext
<1>7. ASSUME NEW i \in 1..Len(t)
      PROVE  /\ t[i][2] = "length" => /\ ~Even(i) /\ i < Len(t)
                                      /\ t[i][1] \in {"ping", "confirmed"}
                                      /\ t[i + 1] = <<t[i][1], "body">>
             /\ t[i][2] = "body" => Even(i)
             /\ t[i][2] = "data" => SentBy("confirmed", t, i - 1)
  <2>1. CASE i \in 1..n
    <3>1. t[i] = s[i]
      BY <1>3, <2>1
    <3>2. CASE s[i][2] = "length"
      <4>1. /\ ~Even(i) /\ i < n /\ s[i][1] \in {"ping", "confirmed"}
            /\ s[i + 1] = <<s[i][1], "body">>
        BY <2>1, <3>2 DEF WholeMessages, n
      <4>2. i + 1 \in 1..n /\ i < n + 2
        BY <1>3, <2>1, <4>1
      <4>3. t[i + 1] = s[i + 1]
        BY <1>3, <4>2
      <4> QED BY <1>3, <3>1, <3>2, <4>1, <4>2, <4>3
    <3>3. CASE s[i][2] = "data"
      <4>1. SentBy("confirmed", s, i - 1)
        BY <2>1, <3>3 DEF WholeMessages, n
      <4> QED BY <2>1, <4>1 DEF SentBy, n
    <3>4. CASE s[i][2] \notin {"length", "data"}
      <4>1. s[i][2] = "body" => Even(i)
        BY <2>1 DEF WholeMessages, n
      <4> QED BY <3>1, <3>4, <4>1
    <3> QED BY <3>2, <3>3, <3>4
  <2>2. CASE i = n + 1
    <3>1. i + 1 = n + 2 /\ i < n + 2
      BY <1>3, <2>2
    <3> QED BY <1>3, <1>4, <1>6, <2>2, <3>1
  <2>3. CASE i = n + 2
    BY <1>3, <1>4, <1>6, <2>3
  <2>4. i \in 1..n \/ i = n + 1 \/ i = n + 2
    BY <1>3
  <2> QED BY <2>1, <2>2, <2>3, <2>4
<1> QED BY <1>3, <1>5, <1>6, <1>7 DEF WholeMessages, t

LEMMA DataWhole ==
  ASSUME NEW s \in Seq(Chunk), WholeMessages(s), SentBy("confirmed", s, Len(s))
  PROVE  /\ WholeMessages(Append(s, Data))
         /\ SentBy("confirmed", Append(s, Data), Len(Append(s, Data)))
<1> DEFINE t == Append(s, Data)
           n == Len(s)
<1>1. Data \in Chunk /\ Data[2] = "data"
  BY DEF Data, Chunk
<1>2. /\ t \in Seq(Chunk) /\ Len(t) = n + 1 /\ n \in Nat /\ t[n + 1] = Data
      /\ \A i \in 1..n : t[i] = s[i]
  BY <1>1, AppendProperties
<1> HIDE DEF t
<1>3. \A k \in 0..n : SentBy("confirmed", s, k) => SentBy("confirmed", t, k)
  BY <1>2 DEF SentBy
<1>4. SentBy("confirmed", t, n) /\ SentBy("confirmed", t, Len(t))
  <2>1. SentBy("confirmed", t, n)
    BY <1>2, <1>3 DEF n
  <2> QED BY <1>2, <2>1, ReadMore
<1>5. ASSUME NEW i \in 1..Len(t)
      PROVE  /\ t[i][2] = "length" => /\ ~Even(i) /\ i < Len(t)
                                      /\ t[i][1] \in {"ping", "confirmed"}
                                      /\ t[i + 1] = <<t[i][1], "body">>
             /\ t[i][2] = "body" => Even(i)
             /\ t[i][2] = "data" => SentBy("confirmed", t, i - 1)
  <2>1. CASE i \in 1..n
    <3>1. t[i] = s[i]
      BY <1>2, <2>1
    <3>2. CASE s[i][2] = "length"
      <4>1. /\ ~Even(i) /\ i < n /\ s[i][1] \in {"ping", "confirmed"}
            /\ s[i + 1] = <<s[i][1], "body">>
        BY <2>1, <3>2 DEF WholeMessages, n
      <4>2. i + 1 \in 1..n /\ i < n + 1
        BY <1>2, <2>1, <4>1
      <4>3. t[i + 1] = s[i + 1]
        BY <1>2, <4>2
      <4> QED BY <1>2, <3>1, <3>2, <4>1, <4>2, <4>3
    <3>3. CASE s[i][2] = "data"
      <4>1. SentBy("confirmed", s, i - 1) /\ i - 1 \in 0..n
        BY <1>2, <2>1, <3>3 DEF WholeMessages, n
      <4> QED BY <1>3, <3>1, <3>3, <4>1
    <3>4. CASE s[i][2] \notin {"length", "data"}
      <4>1. s[i][2] = "body" => Even(i)
        BY <2>1 DEF WholeMessages, n
      <4> QED BY <3>1, <3>4, <4>1
    <3> QED BY <3>2, <3>3, <3>4
  <2>2. CASE i = n + 1
    <3>1. i - 1 = n
      BY <1>2, <2>2
    <3> QED BY <1>1, <1>2, <1>4, <2>2, <3>1
  <2>3. i \in 1..n \/ i = n + 1
    BY <1>2
  <2> QED BY <2>1, <2>2, <2>3
<1> QED BY <1>4, <1>5 DEF WholeMessages, t

(* The pieces of the client's handlers: C has one turn, and what aborts    *)
(* its read gives it no Ok.                                                *)
ClientCalm(x, y) ==
  /\ y \in ClientWorkers /\ y.sock \in {x.sock, "closed"}
  /\ ClientOnce(x) => ClientOnce(y)
  /\ ClientOnce(x) /\ Idle(x) => Idle(y)
  /\ HasOk(y) => HasOk(x)

LEMMA ClientCalmChain ==
  ASSUME NEW x, NEW y, NEW z, ClientCalm(x, y), ClientCalm(y, z)
  PROVE  ClientCalm(x, z)
BY DEF ClientCalm

LEMMA ClientSame ==
  ASSUME NEW x \in ClientWorkers, NEW y \in ClientWorkers, y.ready = x.ready,
         y.reading = x.reading, y.sock \in {x.sock, "closed"}
  PROVE  ClientCalm(x, y)
BY DEF ClientCalm, ClientOnce, Idle, HasTurn, HasOk

LEMMA ClientQueue ==
  ASSUME NEW x \in ClientWorkers, NEW a \in {"C", "P"}, NEW got \in Reply
  PROVE  LET y == C!Post(x, a, got) n == Len(x.ready) IN
           /\ y \in ClientWorkers /\ n \in Nat /\ Len(y.ready) = n + 1
           /\ \A i \in 1..n : i \in 1..Len(y.ready) /\ y.ready[i] = x.ready[i]
           /\ n + 1 \in 1..Len(y.ready) /\ y.ready[n + 1] = C!Handler(a, got)
           /\ \A i \in 1..Len(y.ready) : i \in 1..n \/ i = n + 1
           /\ y.reading = x.reading /\ y.sock = x.sock /\ y.pc = x.pc
<1> DEFINE h == C!Handler(a, got)
           y == C!Post(x, a, got)
<1>1. y = [x EXCEPT !.ready = Append(x.ready, h)] /\ h \in [to : {"C", "P"}, got : Reply]
  BY DEF C!Post, C!Handler
<1> HIDE DEF h, y
<1>2. x.ready \in Seq([to : {"C", "P"}, got : Reply])
  BY DEF ClientWorkers
<1>3. /\ Append(x.ready, h) \in Seq([to : {"C", "P"}, got : Reply]) /\ Len(x.ready) \in Nat
      /\ Len(Append(x.ready, h)) = Len(x.ready) + 1
      /\ \A i \in 1..Len(x.ready) : Append(x.ready, h)[i] = x.ready[i]
      /\ Append(x.ready, h)[Len(x.ready) + 1] = h
  BY <1>1, <1>2, AppendProperties
<1>4. y \in ClientWorkers /\ y.ready = Append(x.ready, h)
  BY <1>1, <1>3 DEF ClientWorkers
<1>5. y.reading = x.reading /\ y.sock = x.sock /\ y.pc = x.pc
  BY <1>1 DEF ClientWorkers
<1> QED BY <1>3, <1>4, <1>5 DEF h, y

LEMMA ClientHandlerParts ==
  ASSUME NEW a, NEW got
  PROVE  C!Handler(a, got).to = a /\ C!Handler(a, got).got = got
BY DEF C!Handler

LEMMA ClientPostsPing ==
  ASSUME NEW x \in ClientWorkers, NEW got \in Reply
  PROVE  ClientCalm(x, C!Post(x, "P", got))
<1> DEFINE y == C!Post(x, "P", got)
           h == C!Handler("P", got)
<1>1. h.to = "P" /\ h # C!Handler("C", C!Ok)
  BY ClientHandlerParts
<1> HIDE DEF h
<1>2. /\ y \in ClientWorkers
      /\ \A i \in 1..Len(y.ready) : (i \in 1..Len(x.ready) /\ y.ready[i] = x.ready[i])
                                    \/ y.ready[i] = h
      /\ y.reading = x.reading /\ y.sock = x.sock
  BY ClientQueue DEF h
<1> HIDE DEF y
<1>3. ASSUME NEW i \in 1..Len(y.ready), y.ready[i].to = "C"
      PROVE  i \in 1..Len(x.ready) /\ y.ready[i] = x.ready[i]
  BY <1>1, <1>2, <1>3
<1>4. (HasTurn(y) => HasTurn(x)) /\ (HasOk(y) => HasOk(x))
  BY <1>1, <1>2, <1>3 DEF HasTurn, HasOk
<1>5. ClientOnce(x) => ClientOnce(y)
  BY <1>2, <1>3, <1>4 DEF ClientOnce
<1> QED BY <1>2, <1>4, <1>5 DEF ClientCalm, Idle, y

(* C is given its turn.                                                    *)
LEMMA ClientPostsTurn ==
  ASSUME NEW x \in ClientWorkers, NEW got \in Reply, ~HasTurn(x), ~x.reading
  PROVE  LET y == C!Post(x, "C", got) IN
           ClientOnce(y) /\ ~y.reading /\ (HasOk(y) => got = C!Ok)
<1> DEFINE y == C!Post(x, "C", got)
           n == Len(x.ready)
<1>1. /\ n \in Nat /\ y.ready[n + 1] = C!Handler("C", got)
      /\ \A i \in 1..Len(y.ready) : (i \in 1..n /\ y.ready[i] = x.ready[i]) \/ i = n + 1
      /\ y.reading = x.reading
  BY ClientQueue
<1> HIDE DEF y, n
<1>2. ASSUME NEW i \in 1..Len(y.ready), y.ready[i].to = "C" PROVE i = n + 1
  BY <1>1, <1>2 DEF HasTurn, n
<1>3. ClientOnce(y)
  BY <1>1, <1>2 DEF ClientOnce
<1>4. HasOk(y) => got = C!Ok
  <2>1. ASSUME NEW i \in 1..Len(y.ready), y.ready[i] = C!Handler("C", C!Ok) PROVE got = C!Ok
    <3>1. y.ready[i].to = "C"
      BY <2>1, ClientHandlerParts
    <3>2. C!Handler("C", got) = C!Handler("C", C!Ok)
      BY <1>1, <1>2, <2>1, <3>1
    <3> QED BY <3>2, ClientHandlerParts
  <2> QED BY <2>1 DEF HasOk
<1> QED BY <1>1, <1>3, <1>4 DEF y

LEMMA ClientAborts ==
  ASSUME NEW x \in ClientWorkers, x.reading, NEW got \in Reply, got # C!Ok
  PROVE  ClientCalm(x, C!Post([x EXCEPT !.reading = FALSE], "C", got))
<1> DEFINE y == [x EXCEPT !.reading = FALSE]
           z == C!Post(y, "C", got)
           n == Len(y.ready)
<1>1. y \in ClientWorkers /\ y.ready = x.ready /\ y.reading = FALSE /\ y.sock = x.sock
  BY DEF ClientWorkers
<1> HIDE DEF y
<1>2. /\ z \in ClientWorkers /\ z.sock = y.sock
      /\ n \in Nat /\ z.ready[n + 1] = C!Handler("C", got)
      /\ \A i \in 1..Len(z.ready) : (i \in 1..n /\ z.ready[i] = y.ready[i]) \/ i = n + 1
  BY <1>1, ClientQueue
<1>3. ClientOnce(x) => ClientOnce(z)
  <2>1. HasTurn(y) <=> HasTurn(x)
    BY <1>1 DEF HasTurn
  <2> QED BY <1>1, <2>1, ClientPostsTurn DEF ClientOnce
<1> HIDE DEF z
<1>4. HasOk(z) => HasOk(x)
  <2>1. C!Handler("C", got) # C!Handler("C", C!Ok)
    BY ClientHandlerParts
  <2> QED BY <1>1, <1>2, <2>1 DEF HasOk, n
<1>5. ~Idle(x)
  BY DEF Idle
<1> QED BY <1>1, <1>2, <1>3, <1>4, <1>5 DEF ClientCalm, z, y

LEMMA ClientReplies ==
  C!Ok \in Reply /\ C!Error \in Reply /\ C!Ok # C!Error /\ C!Ok \notin Chunk
BY DEF C!Ok, C!Error, Reply, Chunk

LEMMA ClientPieces ==
  ASSUME NEW x \in ClientWorkers
  PROVE  /\ ClientCalm(x, C!WakePing(x)) /\ ClientCalm(x, C!SetPingTimer(x))
         /\ ClientCalm(x, C!AwaitTimer(x))
         /\ \A t \in {"max", "armed", "expired"} : ClientCalm(x, [x EXCEPT !.timer = t])
<1>1. ASSUME NEW y \in ClientWorkers, NEW l \in ClientPcs, NEW a \in {"C", "P"}
      PROVE  ClientCalm(y, C!GoTo(y, a, l))
  <2>1. C!GoTo(y, a, l) = [y EXCEPT !.pc = [y.pc EXCEPT ![a] = l]]
    BY DEF C!GoTo
  <2>2. [y EXCEPT !.pc = [y.pc EXCEPT ![a] = l]] \in ClientWorkers
    BY DEF ClientWorkers
  <2> QED BY <2>1, <2>2, ClientSame DEF ClientWorkers
<1>2. ASSUME NEW y \in ClientWorkers
      PROVE  ClientCalm(y, C!Post(C!GoTo(y, "P", "woken"), "P", C!Ok))
  <2>1. ClientCalm(y, C!GoTo(y, "P", "woken"))
    BY <1>1 DEF ClientPcs
  <2>2. C!GoTo(y, "P", "woken") \in ClientWorkers
    BY <2>1 DEF ClientCalm
  <2> QED BY <2>1, <2>2, ClientPostsPing, ClientReplies, ClientCalmChain
<1>3. ASSUME NEW y \in ClientWorkers PROVE ClientCalm(y, y)
  BY ClientSame
<1>4. ASSUME NEW y \in ClientWorkers PROVE ClientCalm(y, C!WakePing(y))
  BY <1>2, <1>3 DEF C!WakePing
<1>5. ASSUME NEW y \in ClientWorkers, NEW t \in {"max", "armed", "expired"}
      PROVE  ClientCalm(y, [y EXCEPT !.timer = t]) /\ [y EXCEPT !.timer = t] \in ClientWorkers
  <2>1. [y EXCEPT !.timer = t] \in ClientWorkers
    BY DEF ClientWorkers
  <2> QED BY <2>1, ClientSame DEF ClientWorkers
<1>6. ClientCalm(x, C!SetPingTimer(x))
  <2> DEFINE y == [x EXCEPT !.timer = "armed"]
  <2>1. ClientCalm(x, y) /\ y \in ClientWorkers
    BY <1>5
  <2>2. C!SetPingTimer(x) = C!WakePing(y)
    BY DEF C!SetPingTimer
  <2> HIDE DEF y
  <2> QED BY <1>4, <2>1, <2>2, ClientCalmChain
<1>7. ClientCalm(x, C!AwaitTimer(x))
  BY <1>1, <1>2 DEF C!AwaitTimer, ClientPcs
<1> QED BY <1>4, <1>5, <1>6, <1>7

LEMMA ClientGoesTo ==
  ASSUME NEW x \in ClientWorkers, NEW a \in {"C", "P"}, NEW l \in ClientPcs
  PROVE  ClientCalm(x, C!GoTo(x, a, l))
<1> DEFINE y == C!GoTo(x, a, l)
<1>1. y = [x EXCEPT !.pc = [x.pc EXCEPT ![a] = l]]
  BY DEF C!GoTo
<1> HIDE DEF y
<1>2. y \in ClientWorkers /\ y.ready = x.ready /\ y.reading = x.reading /\ y.sock = x.sock
  BY <1>1 DEF ClientWorkers
<1> QED BY <1>2, ClientSame DEF y

LEMMA ClientEnds ==
  ASSUME NEW x \in ClientWorkers, NEW a \in {"C", "P"}
  PROVE  ClientCalm(x, C!TryStop(x)) /\ ClientCalm(x, C!Throw(x, a))
<1>1. ASSUME NEW y \in ClientWorkers PROVE ClientCalm(y, C!CloseSocket(y))
  <2> DEFINE z == IF y.sock = "open" THEN [y EXCEPT !.sock = "closed"] ELSE y
  <2>1. /\ z \in ClientWorkers /\ z.ready = y.ready /\ z.reading = y.reading
        /\ z.sock \in {y.sock, "closed"}
    BY DEF ClientWorkers
  <2>2. C!CloseSocket(y) =
          IF y.reading THEN C!Post([z EXCEPT !.reading = FALSE], "C", C!Error) ELSE z
    BY DEF C!CloseSocket
  <2> HIDE DEF z
  <2>3. ClientCalm(y, z)
    BY <2>1, ClientSame
  <2>4. y.reading => ClientCalm(z, C!Post([z EXCEPT !.reading = FALSE], "C", C!Error))
    BY <2>1, ClientAborts, ClientReplies
  <2> QED BY <2>2, <2>3, <2>4, ClientCalmChain
<1>2. ASSUME NEW y \in ClientWorkers PROVE ClientCalm(y, C!TryStop(y))
  <2> DEFINE u == [y EXCEPT !.stopping = TRUE]
             v == C!CloseSocket(u)
  <2>1. C!TryStop(y) = C!WakePing(v)
    BY DEF C!TryStop
  <2>2. /\ u \in ClientWorkers /\ u.ready = y.ready /\ u.reading = y.reading
        /\ u.sock = y.sock
    BY DEF ClientWorkers
  <2> HIDE DEF u
  <2>3. ClientCalm(y, u) /\ ClientCalm(u, v)
    BY <1>1, <2>2, ClientSame
  <2> HIDE DEF v
  <2>4. ClientCalm(v, C!WakePing(v))
    BY <2>3, ClientPieces DEF ClientCalm
  <2> QED BY <2>1, <2>3, <2>4, ClientCalmChain
<1>3. ClientCalm(x, C!Throw(x, a))
  <2>1. ClientCalm(x, C!GoTo(x, a, "done")) /\ C!GoTo(x, a, "done") \in ClientWorkers
    BY ClientGoesTo DEF ClientPcs, ClientCalm
  <2>2. C!Throw(x, a) = IF x.stopping THEN C!GoTo(x, a, "done") ELSE C!TryStop(C!GoTo(x, a, "done"))
    BY DEF C!Throw
  <2> QED BY <1>2, <2>1, <2>2, ClientCalmChain
<1> QED BY <1>2, <1>3

LEMMA ClientReadsOn ==
  ASSUME NEW x \in ClientWorkers, NEW l \in {"length", "body"}, ClientOnce(x), Idle(x)
  PROVE  ClientOnce(C!StartRead(x, l)) /\ C!StartRead(x, l).sock = x.sock
<1> DEFINE y == C!GoTo(x, "C", l)
           z == [y EXCEPT !.reading = TRUE]
<1>1. C!StartRead(x, l) = IF x.sock = "open" THEN z ELSE C!Post(y, "C", C!Error)
  BY DEF C!StartRead
<1>2. y = [x EXCEPT !.pc = [x.pc EXCEPT !["C"] = l]]
  BY DEF C!GoTo
<1>3. y \in ClientWorkers
  BY ClientGoesTo DEF ClientCalm, ClientPcs
<1> HIDE DEF y
<1>4. y.ready = x.ready /\ y.reading = x.reading /\ y.sock = x.sock
  BY <1>2 DEF ClientWorkers
<1>5. z.ready = x.ready /\ z.reading = TRUE /\ z.sock = x.sock
  BY <1>3, <1>4 DEF ClientWorkers
<1> HIDE DEF z
<1>6. ClientOnce(z)
  BY <1>5 DEF ClientOnce, Idle, HasTurn
<1>7. ~HasTurn(y) /\ ~y.reading
  BY <1>4 DEF Idle, HasTurn
<1>8. ClientOnce(C!Post(y, "C", C!Error)) /\ C!Post(y, "C", C!Error).sock = x.sock
  BY <1>3, <1>4, <1>7, ClientPostsTurn, ClientQueue, ClientReplies
<1> QED BY <1>1, <1>5, <1>6, <1>8

(* The handler that runs had C's turn, if it is C's.                       *)
LEMMA ClientTakesTurn ==
  ASSUME ClientInv, ClientOnce(c), c.ready # <<>>
  PROVE  /\ ClientCalm(c, C!Rest) /\ ClientOnce(C!Rest) /\ C!Rest.sock = c.sock
         /\ C!Rest.pc = c.pc /\ C!Rest.visited = c.visited
         /\ Head(c.ready).to = "C" => Idle(C!Rest) /\ ~HasOk(C!Rest)
         /\ Head(c.ready).to = "C" /\ C!Got = C!Ok => HasOk(c)
<1> DEFINE x == C!Rest
           n == Len(c.ready)
<1>1. c \in ClientWorkers /\ c.ready \in Seq([to : {"C", "P"}, got : Reply])
  BY DEF ClientInv, ClientWorkers
<1>2. /\ Head(c.ready) \in [to : {"C", "P"}, got : Reply]
      /\ Head(c.ready) = c.ready[1] /\ 1 \in 1..n
      /\ Tail(c.ready) \in Seq([to : {"C", "P"}, got : Reply])
      /\ \A i \in 1..Len(Tail(c.ready)) :
           i + 1 \in 1..n /\ Tail(c.ready)[i] = c.ready[i + 1]
  BY <1>1, PopSeq
<1>3. x = [c EXCEPT !.ready = Tail(c.ready)] /\ C!Got = Head(c.ready).got
  BY DEF C!Rest, C!Got
<1> HIDE DEF x
<1>4. x \in ClientWorkers /\ x.ready = Tail(c.ready)
  BY <1>1, <1>2, <1>3 DEF ClientWorkers
<1>5. x.reading = c.reading /\ x.sock = c.sock /\ x.pc = c.pc /\ x.visited = c.visited
  BY <1>1, <1>3 DEF ClientWorkers
<1>6. \A i \in 1..Len(x.ready) :
        i + 1 \in 1..n /\ x.ready[i] = c.ready[i + 1] /\ i + 1 # 1 /\ i \in Nat
  BY <1>2, <1>4
<1> HIDE DEF n
<1>7. ClientOnce(x) /\ (HasTurn(x) => HasTurn(c)) /\ (HasOk(x) => HasOk(c))
  <2>1. (HasTurn(x) => HasTurn(c)) /\ (HasOk(x) => HasOk(c))
    BY <1>6 DEF HasTurn, HasOk, n
  <2>2. \A i, j \in 1..Len(x.ready) : x.ready[i].to = "C" /\ x.ready[j].to = "C" => i + 1 = j + 1
    BY <1>6 DEF ClientOnce, n
  <2>3. \A i, j \in 1..Len(x.ready) : x.ready[i].to = "C" /\ x.ready[j].to = "C" => i = j
    BY <1>6, <2>2
  <2> QED BY <1>5, <2>1, <2>3 DEF ClientOnce
<1>8. Head(c.ready).to = "C" => Idle(x) /\ ~HasOk(x)
  <2> SUFFICES ASSUME Head(c.ready).to = "C" PROVE Idle(x) /\ ~HasOk(x)
    OBVIOUS
  <2>1. HasTurn(c) /\ ~c.reading
    BY <1>2 DEF HasTurn, ClientOnce, n
  <2>2. ~HasTurn(x)
    BY <1>2, <1>6 DEF HasTurn, ClientOnce, n
  <2>3. HasOk(x) => HasTurn(x)
    BY ClientHandlerParts DEF HasOk, HasTurn
  <2> QED BY <1>5, <2>1, <2>2, <2>3 DEF Idle
<1>9. Head(c.ready).to = "C" /\ C!Got = C!Ok => HasOk(c)
  <2>1. ASSUME Head(c.ready).to = "C", C!Got = C!Ok PROVE c.ready[1] = C!Handler("C", C!Ok)
    BY <1>2, <1>3, <2>1 DEF C!Handler
  <2> QED BY <1>2, <2>1 DEF HasOk, n
<1> QED BY <1>4, <1>5, <1>7, <1>8, <1>9 DEF ClientCalm, Idle, x

LEMMA ClientSettles ==
  ASSUME ClientWrites, up' = up, ClientOnce(c'), c'.pc["C"] = "giving" => Idle(c'),
         c'.sock = "moved" => Confirmed(Len(up)),
         c'.pc["C"] = "sending" /\ HasOk(c') => Confirmed(Len(up))
  PROVE  ClientWrites'
BY DEF ClientWrites, ClientConfirmed, Confirmed

(* Coroutine C.                                                            *)
LEMMA ClientListens ==
  ASSUME ClientInv, ClientWrites,
         C!HelloSent \/ C!RecvLength \/ C!HandlePong \/ C!RecvUnexpected
  PROVE  ClientWrites'
<1> DEFINE x == C!Rest
           y == [x EXCEPT !.length = C!Got[1]]
           z == C!SetPingTimer(x)
<1>1. /\ c.ready # <<>> /\ Head(c.ready).to = "C" /\ up' = up
  BY DEF C!HelloSent, C!RecvLength, C!HandlePong, C!RecvUnexpected, C!Resumes
<1>2. \/ c' = C!Receive(x)
      \/ C!Got[2] = "length" /\ c' = C!StartRead(y, "body")
      \/ c' = C!Throw(x, "C")
  BY DEF C!HelloSent, C!RecvLength, C!HandlePong, C!RecvUnexpected
<1>3. /\ x \in ClientWorkers /\ ClientOnce(x) /\ Idle(x) /\ x.sock = c.sock /\ C!Got \in Reply
      /\ c.sock = "moved" => Confirmed(Len(up))
  BY <1>1, ClientTakesTurn, ClientPops DEF ClientWrites, ClientCalm, ClientConfirmed
<1>4. C!Receive(x) = C!StartRead(z, "length")
  BY DEF C!Receive
<1> HIDE DEF x
<1>5. C!Got[2] = "length" => /\ y \in ClientWorkers /\ ClientOnce(y) /\ Idle(y)
                             /\ y.sock = c.sock
  <2>1. C!Got[2] = "length" => C!Got[1] \in Names
    BY <1>3 DEF Reply, Chunk, Names
  <2>2. C!Got[2] = "length" => /\ y \in ClientWorkers /\ y.ready = x.ready
                               /\ y.reading = x.reading /\ y.sock = x.sock
    BY <1>3, <2>1 DEF ClientWorkers
  <2> QED BY <1>3, <2>2 DEF ClientOnce, Idle, HasTurn
<1>6. /\ z \in ClientWorkers /\ ClientOnce(z) /\ Idle(z) /\ z.sock \in {c.sock, "closed"}
  BY <1>3, ClientPieces DEF ClientCalm
<1> HIDE DEF y, z
<1>7. ClientOnce(c') /\ c'.pc["C"] \in {"length", "body", "done"}
      /\ c'.sock \in {c.sock, "closed"}
  <2>1. CASE c' = C!Receive(x)
    BY <1>4, <1>6, <2>1, ClientReadsOn, ClientStartsRead
  <2>2. CASE C!Got[2] = "length" /\ c' = C!StartRead(y, "body")
    BY <1>5, <2>2, ClientReadsOn, ClientStartsRead
  <2>3. CASE c' = C!Throw(x, "C")
    BY <1>3, <2>3, ClientEnds, ClientThrows DEF ClientCalm
  <2> QED BY <1>2, <2>1, <2>2, <2>3
<1> QED BY <1>1, <1>3, <1>7, ClientSettles

LEMMA ClientGreetsOn ==
  ASSUME ClientInv, ClientWrites, C!SendHello
  PROVE  ClientWrites'
<1> DEFINE x == C!Rest
           g == [x EXCEPT !.greeted = TRUE]
<1>1. c.ready # <<>> /\ Head(c.ready).to = "C" /\ up' = up
  BY DEF C!SendHello, C!Resumes
<1>2. /\ x \in ClientWorkers /\ ClientOnce(x) /\ Idle(x) /\ x.sock = c.sock
      /\ c.sock = "moved" => Confirmed(Len(up))
  BY <1>1, ClientTakesTurn DEF ClientWrites, ClientCalm, ClientConfirmed
<1>3. PICK y \in {x, g}, got \in {C!Ok, C!Error} :
        c' = C!Post(C!GoTo(y, "C", "greeting"), "C", got)
  BY DEF C!SendHello
<1> HIDE DEF x
<1>4. y \in ClientWorkers /\ Idle(y) /\ y.sock = c.sock
  BY <1>2 DEF ClientWorkers, Idle, HasTurn
<1> DEFINE z == C!GoTo(y, "C", "greeting")
<1>5. /\ z \in ClientWorkers /\ Idle(z) /\ z.sock \in {c.sock, "closed"}
      /\ z.pc["C"] = "greeting"
  <2>1. z = [y EXCEPT !.pc = [y.pc EXCEPT !["C"] = "greeting"]]
    BY DEF C!GoTo
  <2>2. z \in ClientWorkers /\ z.pc["C"] = "greeting"
    BY <1>4, ClientMoves DEF ClientPcs, ClientGoesOn
  <2> HIDE DEF z
  <2> QED BY <1>4, <2>1, <2>2 DEF ClientWorkers, Idle, HasTurn
<1> HIDE DEF z
<1>6. c' = C!Post(z, "C", got) /\ got \in Reply
  BY <1>3, ClientReplies DEF z
<1>7. /\ ClientOnce(c') /\ c'.pc["C"] = "greeting" /\ c'.sock \in {c.sock, "closed"}
  BY <1>5, <1>6, ClientPostsTurn, ClientQueue DEF Idle
<1> QED BY <1>1, <1>2, <1>7, ClientSettles

LEMMA ClientAnswers ==
  ASSUME StreamsOK, ClientInv, ClientWrites, C!HandleVisit
  PROVE  ClientWrites'
<1> DEFINE x == C!Rest
           y == [x EXCEPT !.visited = TRUE, !.timer = "max"]
           z == C!WakePing(y)
           u == C!GoTo(z, "C", "sending")
<1>1. /\ c.ready # <<>> /\ Head(c.ready).to = "C" /\ c.pc["C"] = "body"
      /\ C!SendMsg(z, "C", "confirmed")
  BY DEF C!HandleVisit, C!Resumes
<1>2. /\ x \in ClientWorkers /\ ClientOnce(x) /\ Idle(x) /\ x.sock = c.sock
  BY <1>1, ClientTakesTurn DEF ClientWrites, ClientCalm
<1> HIDE DEF x
<1>3. y \in ClientWorkers /\ y.ready = x.ready /\ y.reading = x.reading /\ y.sock = x.sock
  BY <1>2 DEF ClientWorkers
<1> HIDE DEF y
<1>4. z \in ClientWorkers /\ ClientOnce(z) /\ Idle(z) /\ z.sock \in {c.sock, "closed"}
  BY <1>2, <1>3, ClientSame, ClientPieces DEF ClientCalm
<1> HIDE DEF z
<1>5. u \in ClientWorkers /\ Idle(u) /\ u.sock \in {c.sock, "closed"}
  BY <1>4, ClientGoesTo DEF ClientCalm, ClientPcs
<1>6. \/ c.sock = "open" /\ up' = up \o ChunksOf("confirmed") /\ c' = C!Post(u, "C", C!Ok)
      \/ up' = up /\ c' = C!Post(u, "C", C!Error)
  BY <1>1 DEF C!SendMsg, C!Chunks, ChunksOf
<1>7. u.pc["C"] = "sending"
  BY <1>4, ClientMoves DEF ClientPcs
<1> HIDE DEF u
<1>8. /\ ClientOnce(c') /\ c'.sock \in {c.sock, "closed"} /\ c'.pc["C"] = "sending"
      /\ HasOk(c') => c' = C!Post(u, "C", C!Ok)
  <2>1. ASSUME NEW got \in {C!Ok, C!Error}, c' = C!Post(u, "C", got)
        PROVE  /\ ClientOnce(c') /\ c'.sock = u.sock /\ c'.pc = u.pc
               /\ HasOk(c') => got = C!Ok
    <3>1. got \in Reply
      BY ClientReplies
    <3>2. ClientOnce(c') /\ (HasOk(c') => got = C!Ok)
      BY <1>5, <2>1, <3>1, ClientPostsTurn, Zenon DEF Idle
    <3>3. c'.sock = u.sock /\ c'.pc = u.pc
      BY <1>5, <2>1, <3>1, ClientQueue, Zenon
    <3> QED BY <3>2, <3>3
  <2>2. CASE c' = C!Post(u, "C", C!Ok)
    <3>1. ClientOnce(c') /\ c'.sock = u.sock /\ c'.pc = u.pc
      BY <2>1, <2>2
    <3> QED BY <1>5, <1>7, <2>2, <3>1
  <2>3. CASE c' = C!Post(u, "C", C!Error)
    <3>1. ClientOnce(c') /\ c'.sock = u.sock /\ c'.pc = u.pc /\ ~HasOk(c')
      BY <2>1, <2>3, ClientReplies
    <3> QED BY <1>5, <1>7, <3>1
  <2> QED BY <1>6, <2>2, <2>3
<1>9. CASE up' = up /\ c' = C!Post(u, "C", C!Error)
  <2>1. ~HasOk(c')
    BY <1>5, <1>9, ClientPostsTurn, ClientReplies DEF Idle
  <2> QED BY <1>8, <1>9, <2>1, ClientSettles DEF ClientWrites, ClientConfirmed
<1>10. CASE up' = up \o ChunksOf("confirmed")
  <2>1. ~SentBy("confirmed", up, Len(up))
    BY <1>1 DEF ClientInv, ClientKnows
  <2>2. WholeMessages(up') /\ SentBy("confirmed", up', Len(up'))
    BY <1>10, <2>1, MessageWhole DEF StreamsOK, ClientWrites
  <2> QED BY <1>8, <2>2 DEF ClientWrites, ClientConfirmed, Confirmed
<1> QED BY <1>6, <1>9, <1>10

LEMMA ClientHandsOn ==
  ASSUME ClientInv, ClientWrites, C!ConfirmSent \/ C!Given
  PROVE  ClientWrites'
<1> DEFINE x == C!Rest
<1>1. /\ c.ready # <<>> /\ Head(c.ready).to = "C" /\ up' = up
      /\ c.pc["C"] = "sending" \/ C!Given
  BY DEF C!ConfirmSent, C!Given, C!Resumes
<1>2. /\ x \in ClientWorkers /\ ClientOnce(x) /\ Idle(x) /\ x.sock = c.sock
      /\ C!Got = C!Ok => HasOk(c)
      /\ c.sock = "moved" => Confirmed(Len(up))
  BY <1>1, ClientTakesTurn DEF ClientWrites, ClientCalm, ClientConfirmed
<1> DEFINE y == C!GoTo(x, "C", "giving")
<1>3. \/ /\ C!Got = C!Ok /\ c.pc["C"] = "sending"
         /\ c' = [y EXCEPT !.sock = IF @ = "open" THEN "moved" ELSE @]
      \/ c' = C!Throw(x, "C") \/ c' = C!GoTo(x, "C", "done")
  BY DEF C!ConfirmSent, C!Given, C!Resumes
<1> HIDE DEF x
<1>4. CASE /\ C!Got = C!Ok /\ c.pc["C"] = "sending"
           /\ c' = [y EXCEPT !.sock = IF @ = "open" THEN "moved" ELSE @]
  <2>1. Confirmed(Len(up))
    BY <1>2, <1>4 DEF ClientWrites, ClientConfirmed
  <2>2. y \in ClientWorkers /\ ClientOnce(y) /\ Idle(y) /\ y.pc["C"] = "giving"
    BY <1>2, ClientGoesTo, ClientMoves DEF ClientCalm, ClientPcs
  <2> HIDE DEF y
  <2>3. c'.ready = y.ready /\ c'.reading = y.reading /\ c'.pc = y.pc
    BY <1>4, <2>2 DEF ClientWorkers
  <2>4. ClientOnce(c') /\ Idle(c')
    BY <2>2, <2>3 DEF ClientOnce, Idle, HasTurn
  <2> QED BY <1>1, <2>1, <2>4, ClientSettles
<1>5. CASE c' = C!Throw(x, "C") \/ c' = C!GoTo(x, "C", "done")
  <2>1. c'.pc["C"] = "done"
    BY <1>2, <1>5, ClientThrows, ClientMoves DEF ClientPcs
  <2>2. ClientOnce(c') /\ c'.sock \in {c.sock, "closed"}
    BY <1>2, <1>5, ClientEnds, ClientGoesTo DEF ClientCalm, ClientPcs
  <2> QED BY <1>1, <1>2, <2>1, <2>2, ClientSettles
<1> QED BY <1>3, <1>4, <1>5

(* What leaves C where it is, P's coroutine among it.                      *)
LEMMA ClientUndisturbed ==
  ASSUME ClientWrites, ClientCalm(c, c'), c'.pc["C"] = c.pc["C"], up' = up
  PROVE  ClientWrites'
<1>1. /\ ClientOnce(c') /\ (Idle(c) => Idle(c')) /\ (HasOk(c') => HasOk(c))
      /\ c'.sock \in {c.sock, "closed"}
  BY DEF ClientWrites, ClientCalm
<1> QED BY <1>1, ClientSettles DEF ClientWrites, ClientConfirmed

LEMMA ClientPinging ==
  ASSUME StreamsOK, ClientInv, ClientWrites,
         C!PingStart \/ C!PingEnds \/ C!SendPing \/ C!TimerWasReset \/ C!PingSent
  PROVE  ClientWrites'
<1> DEFINE x == C!Rest
           y == [x EXCEPT !.timer = "max"]
           u == C!GoTo(y, "P", "sending")
<1>1. c.ready # <<>>
  BY DEF C!PingStart, C!PingEnds, C!SendPing, C!TimerWasReset, C!PingSent, C!Resumes
<1>2. ClientCalm(c, x) /\ x \in ClientWorkers /\ x.pc = c.pc
  BY <1>1, ClientTakesTurn DEF ClientWrites, ClientCalm
<1>3. CASE C!SendPing
  <2>1. C!SendMsg(y, "P", "ping") /\ ~c.visited
    BY <1>3 DEF C!SendPing
  <2>2. \/ up' = up \o ChunksOf("ping") /\ c' = C!Post(u, "P", C!Ok)
        \/ up' = up /\ c' = C!Post(u, "P", C!Error)
    BY <2>1 DEF C!SendMsg, C!Chunks, ChunksOf
  <2> HIDE DEF x
  <2>3. ClientCalm(x, y) /\ y \in ClientWorkers /\ y.pc = x.pc
    <3>1. ClientCalm(x, y)
      <4>1. \A t \in {"max", "armed", "expired"} : ClientCalm(x, [x EXCEPT !.timer = t])
        BY <1>2, ClientPieces, Zenon
      <4> QED BY <4>1
    <3>2. y \in ClientWorkers /\ y.pc = x.pc
      BY <1>2 DEF ClientWorkers
    <3> QED BY <3>1, <3>2
  <2> HIDE DEF y
  <2>4. ClientCalm(y, u) /\ u \in ClientWorkers /\ u.pc["C"] = y.pc["C"]
    BY <2>3, ClientGoesTo, ClientMoves DEF ClientCalm, ClientPcs
  <2> HIDE DEF u
  <2>5. ClientCalm(u, c') /\ c'.pc = u.pc
    <3>1. ASSUME NEW got \in Reply, c' = C!Post(u, "P", got)
          PROVE  ClientCalm(u, c') /\ c'.pc = u.pc
      <4>1. ClientCalm(u, c')
        BY <2>4, <3>1, ClientPostsPing, Zenon
      <4>2. c'.pc = u.pc
        BY <2>4, <3>1, ClientQueue, Zenon
      <4> QED BY <4>1, <4>2
    <3> QED BY <2>2, <3>1, ClientReplies
  <2>6. ClientCalm(c, c') /\ c'.pc["C"] = c.pc["C"]
    <3>1. ClientCalm(c, u)
      BY <1>2, <2>3, <2>4, ClientCalmChain, Zenon
    <3> QED BY <1>2, <2>3, <2>4, <2>5, <3>1, ClientCalmChain
  <2>7. CASE up' = up
    BY <2>6, <2>7, ClientUndisturbed
  <2>8. CASE up' = up \o ChunksOf("ping")
    <3>1. ~SentBy("confirmed", up, Len(up))
      BY <2>1 DEF ClientInv, ClientKnows
    <3>2. WholeMessages(up')
      BY <2>8, <3>1, MessageWhole DEF StreamsOK, ClientWrites
    <3>3. /\ ClientOnce(c') /\ (Idle(c) => Idle(c')) /\ (HasOk(c') => HasOk(c))
          /\ c'.sock \in {c.sock, "closed"}
      BY <2>6 DEF ClientWrites, ClientCalm
    <3>4. ~Confirmed(Len(up))
      BY <3>1 DEF Confirmed
    <3> QED BY <2>6, <3>2, <3>3, <3>4 DEF ClientWrites, ClientConfirmed
  <2> QED BY <2>2, <2>7, <2>8
<1>4. CASE ~C!SendPing
  <2>1. /\ c' \in {C!AwaitTimer(x), C!GoTo(x, "P", "done"), C!Throw(x, "P")}
        /\ up' = up
    BY <1>4 DEF C!PingStart, C!PingEnds, C!TimerWasReset, C!PingSent
  <2> HIDE DEF x
  <2>2. ClientCalm(x, c')
    BY <1>2, <2>1, ClientPieces, ClientGoesTo, ClientEnds DEF ClientPcs
  <2>3. c'.pc["C"] = x.pc["C"]
    BY <1>2, <2>1, ClientAwaits, ClientMoves, ClientThrows DEF ClientStays, ClientPcs
  <2>4. ClientCalm(c, c')
    BY <1>2, <2>2, ClientCalmChain
  <2> QED BY <1>2, <2>1, <2>3, <2>4, ClientUndisturbed
<1> QED BY <1>3, <1>4

LEMMA ClientFromOutside ==
  ASSUME StreamsOK, ClientInv, ClientWrites,
         C!ReadCompletes \/ C!ReadFails \/ C!TimerExpires
           \/ C!ForwarderTakes \/ C!QueueAborts \/ C!StopWorker
  PROVE  ClientWrites'
<1>1. c \in ClientWorkers /\ up' = up
  BY DEF ClientInv, C!ReadCompletes, C!ReadFails, C!TimerExpires, C!ForwarderTakes,
         C!QueueAborts, C!StopWorker
<1>2. CASE C!ReadCompletes \/ C!ReadFails
  <2> DEFINE y == [c EXCEPT !.reading = FALSE]
  <2>1. PICK got \in Reply : got # C!Ok /\ c' = C!Post(y, "C", got) /\ c.reading
    <3>1. CASE C!ReadCompletes
      <4>1. downRead + 1 \in 1..Len(down) /\ down \in Seq(Chunk)
        BY <3>1 DEF C!ReadCompletes, StreamsOK
      <4>2. down[downRead + 1] \in Reply /\ down[downRead + 1] # C!Ok
        BY <4>1, ClientReplies DEF Reply
      <4> QED BY <3>1, <4>2 DEF C!ReadCompletes
    <3>2. CASE C!ReadFails
      BY <3>2, ClientReplies DEF C!ReadFails
    <3> QED BY <1>2, <3>1, <3>2
  <2>2. ClientCalm(c, c')
    BY <1>1, <2>1, ClientAborts
  <2>3. y \in ClientWorkers /\ y.pc = c.pc
    BY <1>1 DEF ClientWorkers
  <2> HIDE DEF y
  <2>4. c'.pc = c.pc
    BY <2>1, <2>3, ClientQueue
  <2> QED BY <1>1, <2>2, <2>4, ClientUndisturbed
<1>3. CASE C!TimerExpires
  <2> DEFINE y == [c EXCEPT !.timer = "expired", !.pings = @ + 1]
  <2>1. c' = C!WakePing(y) /\ c.pings < MaxPings
    BY <1>3 DEF C!TimerExpires
  <2>2. /\ y \in ClientWorkers /\ y.ready = c.ready /\ y.reading = c.reading
        /\ y.sock = c.sock /\ y.pc = c.pc
    <3>1. c.pings + 1 \in 0..MaxPings
      BY <1>1, <2>1, MaxPingsAssumption DEF ClientWorkers, MaxPingsAssumption
    <3> QED BY <1>1, <3>1 DEF ClientWorkers
  <2> HIDE DEF y
  <2>3. ClientCalm(c, y) /\ ClientCalm(y, c')
    BY <1>1, <2>1, <2>2, ClientSame, ClientPieces
  <2>4. c'.pc["C"] = c.pc["C"]
    BY <2>1, <2>2, ClientWakes DEF ClientStays
  <2> QED BY <1>1, <2>3, <2>4, ClientCalmChain, ClientUndisturbed
<1>4. CASE C!StopWorker
  <2>1. c' = C!TryStop(c)
    BY <1>4 DEF C!StopWorker
  <2> QED BY <1>1, <2>1, ClientEnds, ClientStops, ClientUndisturbed DEF ClientStays
<1>5. CASE C!ForwarderTakes \/ C!QueueAborts
  <2> DEFINE y == C!GoTo(c, "C", "given")
             z == [y EXCEPT !.sock = "closed"]
  <2>1. /\ c.pc["C"] = "giving"
        /\ c' = C!Post(y, "C", C!Ok) \/ c' = C!Post(z, "C", C!Error)
    BY <1>5 DEF C!ForwarderTakes, C!QueueAborts
  <2>2. Idle(c) /\ ClientOnce(c)
    BY <2>1 DEF ClientWrites, ClientConfirmed
  <2>3. /\ y \in ClientWorkers /\ Idle(y) /\ y.sock \in {c.sock, "closed"}
        /\ y.pc["C"] = "given"
    BY <1>1, <2>2, ClientGoesTo, ClientMoves DEF ClientCalm, ClientPcs
  <2> HIDE DEF y
  <2>4. /\ z \in ClientWorkers /\ z.ready = y.ready /\ z.reading = y.reading
        /\ z.sock = "closed" /\ z.pc = y.pc
    BY <2>3 DEF ClientWorkers
  <2> HIDE DEF z
  <2>5. Idle(z)
    BY <2>3, <2>4 DEF Idle, HasTurn
  <2>6. /\ ClientOnce(c') /\ c'.pc["C"] = "given" /\ c'.sock \in {c.sock, "closed"}
    <3>1. /\ ClientOnce(C!Post(y, "C", C!Ok)) /\ C!Post(y, "C", C!Ok).pc = y.pc
          /\ C!Post(y, "C", C!Ok).sock = y.sock
      BY <2>3, ClientPostsTurn, ClientQueue, ClientReplies DEF Idle
    <3>2. /\ ClientOnce(C!Post(z, "C", C!Error)) /\ C!Post(z, "C", C!Error).pc = z.pc
          /\ C!Post(z, "C", C!Error).sock = z.sock
      BY <2>4, <2>5, ClientPostsTurn, ClientQueue, ClientReplies DEF Idle
    <3> QED BY <2>1, <2>3, <2>4, <3>1, <3>2
  <2> QED BY <1>1, <2>6, ClientSettles DEF ClientWrites, ClientConfirmed
<1> QED BY <1>2, <1>3, <1>4, <1>5

LEMMA ClientWritesOn ==
  ASSUME StreamsOK, ClientInv, ClientWrites, C!Next
  PROVE  ClientWrites'
BY ClientGreetsOn, ClientListens, ClientAnswers, ClientHandsOn, ClientPinging, ClientFromOutside
   DEF C!Next, C!RunHandler

LEMMA DataWritesOn ==
  ASSUME StreamsOK, ClientWrites, ClientForwards
  PROVE  ClientWrites'
<1>1. c.sock = "moved" /\ up' = Append(up, Data) /\ c' = c
  BY DEF ClientForwards
<1>2. SentBy("confirmed", up, Len(up)) /\ WholeMessages(up)
  BY <1>1 DEF ClientWrites, ClientConfirmed, Confirmed
<1>3. WholeMessages(up') /\ SentBy("confirmed", up', Len(up'))
  BY <1>1, <1>2, DataWhole DEF StreamsOK
<1> QED BY <1>1, <1>3 DEF ClientWrites, ClientConfirmed, Confirmed

LEMMA ClientWritesStarts == Init => ClientWrites
<1> SUFFICES ASSUME Init PROVE ClientWrites
  OBVIOUS
<1>1. C!Init /\ up = <<>>
  BY DEF Init
<1>2. Len(up) = 0 /\ WholeMessages(up)
  BY <1>1, EvenZero DEF WholeMessages
<1>3. /\ c.ready = <<C!Handler("C", C!Ok), C!Handler("P", C!Ok)>> /\ c.reading = FALSE
      /\ c.pc["C"] = "start" /\ c.sock = "open"
  BY <1>1 DEF C!Init
<1>4. /\ Len(c.ready) = 2 /\ c.ready[1] = C!Handler("C", C!Ok)
      /\ c.ready[2] = C!Handler("P", C!Ok)
  BY <1>3
<1>5. \A i \in 1..Len(c.ready) : c.ready[i].to = "C" => i = 1
  <2>1. c.ready[2].to = "P"
    BY <1>4, ClientHandlerParts
  <2>2. \A i \in 1..Len(c.ready) : i = 1 \/ i = 2
    BY <1>4
  <2> QED BY <2>1, <2>2
<1>6. ClientOnce(c)
  BY <1>3, <1>5 DEF ClientOnce
<1> QED BY <1>2, <1>3, <1>6 DEF ClientWrites, ClientConfirmed

-----------------------------------------------------------------------------
(* The server's end: R and V go on in one place each, and how the pieces   *)
(* of handlers move them.                                                  *)

Grows(x, y) ==
  /\ y \in ServerWorkers /\ Len(x.ready) <= Len(y.ready)
  /\ \A i \in 1..Len(x.ready) : y.ready[i] = x.ready[i]

LEMMA TurnIs ==
  ASSUME NEW x \in ServerWorkers, NEW a \in {"R", "V"}, Once(x, a)
  PROVE  /\ \A i \in 1..Len(x.ready) : x.ready[i].to = a => Turn(x, a) = x.ready[i].got
         /\ ~Resumed(x, a) => Turn(x, a) = Nil
         /\ Resumed(x, a) => Turn(x, a) \in Reply
         /\ Nil \notin Reply
<1>1. ASSUME NEW i \in 1..Len(x.ready), x.ready[i].to = a
      PROVE  Turn(x, a) = x.ready[i].got /\ Turn(x, a) \in Reply
  <2> DEFINE k == CHOOSE j \in 1..Len(x.ready) : x.ready[j].to = a
  <2>1. k \in 1..Len(x.ready) /\ x.ready[k].to = a
    BY <1>1
  <2> HIDE DEF k
  <2>2. k = i
    BY <1>1, <2>1 DEF Once, TurnOf
  <2>3. Turn(x, a) = x.ready[k].got
    BY <1>1 DEF Turn, Resumed, k
  <2>4. x.ready[i] \in ServerHandlers
    BY DEF ServerWorkers
  <2>5. x.ready[i].got \in Reply
    BY <1>1, <2>4 DEF ServerHandlers
  <2> QED BY <2>2, <2>3, <2>5
<1>2. Nil \notin Reply
  BY DEF Nil, Reply, Chunk
<1> QED BY <1>1, <1>2 DEF Turn, Resumed

(* What is appended to the queue is no turn of a: a stays where it is.     *)
LEMMA TurnStays ==
  ASSUME NEW x \in ServerWorkers, NEW y, NEW a \in {"R", "V"}, Grows(x, y), Once(x, a),
         \A i \in 1..Len(y.ready) : i \in 1..Len(x.ready) \/ ~TurnOf(y.ready[i], a),
         y.reads = x.reads, y.backlog = x.backlog
  PROVE  Once(y, a) /\ (Free(x, a) => Free(y, a)) /\ Turn(y, a) = Turn(x, a)
<1> DEFINE n == Len(x.ready)
<1>1. \A i \in 1..n : i \in 1..Len(y.ready) /\ y.ready[i] = x.ready[i]
  <2>1. n \in Nat /\ Len(y.ready) \in Nat
    BY DEF ServerWorkers, Grows
  <2> QED BY <2>1 DEF Grows
<1>2. \A i \in 1..Len(y.ready) : TurnOf(y.ready[i], a) => i \in 1..n /\ TurnOf(x.ready[i], a)
  BY <1>1
<1> HIDE DEF n
<1>3. InReady(y, a) => InReady(x, a)
  BY <1>2 DEF InReady, n
<1>4. (Reading(y, a) <=> Reading(x, a)) /\ (InBacklog(y, a) <=> InBacklog(x, a))
  BY DEF Reading, InBacklog
<1>5. Once(y, a)
  BY <1>2, <1>3, <1>4 DEF Once, n
<1>6. Turn(y, a) = Turn(x, a)
  <2>1. y \in ServerWorkers
    BY DEF Grows
  <2>2. CASE Resumed(x, a)
    <3>1. PICK i \in 1..n : x.ready[i].to = a
      BY <2>2 DEF Resumed, n
    <3>2. i \in 1..Len(y.ready) /\ y.ready[i].to = a /\ y.ready[i].got = x.ready[i].got
      BY <1>1, <3>1
    <3> QED BY <1>5, <2>1, <3>1, <3>2, TurnIs DEF n
  <2>3. CASE ~Resumed(x, a)
    <3>1. ~Resumed(y, a)
      BY <1>1, <1>2, <2>3 DEF Resumed, TurnOf, n
    <3> QED BY <1>5, <2>1, <2>3, <3>1, TurnIs
  <2> QED BY <2>2, <2>3
<1> QED BY <1>3, <1>4, <1>5, <1>6 DEF Free

(* What aborts reads, empties to_send_ or only wakes others: whose read    *)
(* or provide() was aborted is told so.                                    *)
Lost(x, y, a) == /\ Turn(x, a) = Nil /\ Turn(y, a) = S!Error
                 /\ Reading(x, a) \/ InBacklog(x, a)
Aborts(x, y) ==
  /\ y \in ServerWorkers
  /\ y.reads \in {x.reads, <<>>} /\ y.backlog \in {x.backlog, <<>>}
  /\ OneEach(x) =>
       /\ OneEach(y)
       /\ \A a \in {"R", "V"} : /\ Free(x, a) => Free(y, a)
                                /\ Turn(y, a) = Turn(x, a) \/ Lost(x, y, a)
       /\ Late(y) => Late(x) \/ Turn(y, "R") = S!Error

LEMMA AbortsChain ==
  ASSUME NEW x, NEW y, NEW z, Aborts(x, y), Aborts(y, z)
  PROVE  Aborts(x, z)
<1>1. \A a : Reading(y, a) \/ InBacklog(y, a) => Reading(x, a) \/ InBacklog(x, a)
  <2>1. Len(<<>>) = 0
    BY EmptySeq
  <2> QED BY <2>1 DEF Aborts, Reading, InBacklog
<1>2. S!Error # Nil
  BY DEF S!Error, Nil
<1> QED BY <1>1, <1>2 DEF Aborts, Lost

LEMMA AbortsQuiet ==
  ASSUME NEW x \in ServerWorkers, NEW y, Grows(x, y),
         \A i \in 1..Len(y.ready) :
           i \in 1..Len(x.ready) \/ y.ready[i].to \in {"S", "D", "wait", "drain"},
         y.reads = x.reads, y.backlog = x.backlog
  PROVE  Aborts(x, y) /\ (OneEach(x) => \A a \in {"R", "V"} : Turn(y, a) = Turn(x, a))
<1>1. \A i \in 1..Len(y.ready) :
        i \in 1..Len(x.ready)
          \/ (~TurnOf(y.ready[i], "R") /\ ~TurnOf(y.ready[i], "V") /\ y.ready[i].to # "R")
  BY DEF TurnOf
<1>2. OneEach(x) => \A a \in {"R", "V"} :
                      Once(y, a) /\ (Free(x, a) => Free(y, a)) /\ Turn(y, a) = Turn(x, a)
  BY <1>1, TurnStays DEF OneEach
<1>3. Late(y) => Late(x)
  <2>1. \A i \in 1..Len(x.ready) : y.ready[i] = x.ready[i]
    BY DEF Grows
  <2>2. ASSUME NEW i \in 1..Len(y.ready), NEW j \in 1..Len(y.ready), i < j,
               y.ready[i].to = "V", y.ready[j].to = "R"
        PROVE  Late(x)
    <3>1. j \in 1..Len(x.ready)
      BY <1>1, <2>2
    <3>2. i \in 1..Len(x.ready)
      BY <2>2, <3>1 DEF ServerWorkers
    <3> QED BY <2>1, <2>2, <3>1, <3>2 DEF Late
  <2> QED BY <2>2 DEF Late
<1> QED BY <1>2, <1>3 DEF Aborts, OneEach, Grows

(* The coroutines in s are told that their operation was aborted.          *)
LEMMA AbortsAll ==
  ASSUME NEW x \in ServerWorkers, NEW y, NEW s, Grows(x, y), OneEach(x),
         \A i \in 1..Len(y.ready) :
           i \in 1..Len(x.ready)
             \/ (i > Len(x.ready) /\ i - Len(x.ready) \in 1..Len(s)
                 /\ y.ready[i] = S!Handler(s[i - Len(x.ready)], S!Error)),
         \A i \in 1..Len(s) : Len(x.ready) + i \in 1..Len(y.ready) /\ s[i] \in {"R", "V"},
         \A i, j \in 1..Len(s) : s[i] = s[j] => i = j,
         \A i \in 1..Len(s) : /\ ~InReady(x, s[i])
                              /\ Reading(x, s[i]) \/ InBacklog(x, s[i])
                              /\ ~Reading(y, s[i]) /\ ~InBacklog(y, s[i]),
         y.reads \in {x.reads, <<>>}, y.backlog \in {x.backlog, <<>>},
         \A a \in {"R", "V"} : (Reading(y, a) => Reading(x, a))
                               /\ (InBacklog(y, a) => InBacklog(x, a))
  PROVE  Aborts(x, y)
<1> DEFINE n == Len(x.ready)
<1>1. n \in Nat /\ Len(y.ready) \in Nat /\ y \in ServerWorkers /\ n <= Len(y.ready)
  BY DEF ServerWorkers, Grows
<1>2. \A i \in 1..n : i \in 1..Len(y.ready) /\ y.ready[i] = x.ready[i]
  BY <1>1 DEF Grows
<1>3. \A i \in 1..Len(y.ready) : i \notin 1..n =>
        /\ i > n /\ i - n \in 1..Len(s)
        /\ y.ready[i].to = s[i - n] /\ y.ready[i].got = S!Error
  BY HandlerParts
<1>4. ASSUME NEW a \in {"R", "V"}, NEW k \in 1..Len(s), s[k] = a
      PROVE  /\ \A i \in 1..Len(y.ready) : TurnOf(y.ready[i], a) => i = n + k
             /\ n + k \in 1..Len(y.ready) /\ y.ready[n + k].to = a
             /\ y.ready[n + k].got = S!Error
  <2>1. ~InReady(x, a) /\ n + k \in 1..Len(y.ready) /\ k \in Nat
    BY <1>4 DEF n
  <2>2. ASSUME NEW i \in 1..Len(y.ready), TurnOf(y.ready[i], a) PROVE i = n + k
    <3>1. i \notin 1..n
      BY <1>2, <2>1, <2>2 DEF InReady, n
    <3>2. i - n \in 1..Len(s) /\ y.ready[i].to = s[i - n]
      BY <1>3, <3>1
    <3>3. s[i - n] = a
      BY <2>2, <3>2 DEF TurnOf
    <3>4. i - n = k
      BY <1>4, <3>2, <3>3
    <3> QED BY <1>1, <2>1, <3>4
  <2>3. n + k \notin 1..n
    BY <1>1, <1>4
  <2>4. y.ready[n + k].to = s[(n + k) - n] /\ y.ready[n + k].got = S!Error
    BY <1>3, <2>1, <2>3
  <2>5. (n + k) - n = k
    BY <1>1, <2>1
  <2> QED BY <1>4, <2>1, <2>2, <2>4, <2>5
<1> HIDE DEF n
<1>5. ASSUME NEW a \in {"R", "V"}, NEW k \in 1..Len(s), s[k] = a
      PROVE  Once(y, a) /\ ~Free(x, a) /\ Lost(x, y, a)
  <2>1. /\ \A i \in 1..Len(y.ready) : TurnOf(y.ready[i], a) => i = n + k
        /\ n + k \in 1..Len(y.ready) /\ y.ready[n + k].to = a
        /\ y.ready[n + k].got = S!Error
    BY <1>4, <1>5
  <2>2. ~Reading(y, a) /\ ~InBacklog(y, a) /\ ~InReady(x, a)
        /\ (Reading(x, a) \/ InBacklog(x, a))
    BY <1>5
  <2>3. Once(y, a)
    BY <2>1, <2>2 DEF Once, Reading, InBacklog
  <2>4. Turn(y, a) = S!Error
    BY <1>1, <2>1, <2>3, TurnIs
  <2>5. Turn(x, a) = Nil
    <3>1. ~Resumed(x, a) /\ Once(x, a)
      BY <2>2 DEF Resumed, InReady, TurnOf, OneEach
    <3> QED BY <3>1, TurnIs
  <2> QED BY <2>2, <2>3, <2>4, <2>5 DEF Free, Lost
<1>6. ASSUME NEW a \in {"R", "V"}, \A k \in 1..Len(s) : s[k] # a
      PROVE  Once(y, a) /\ (Free(x, a) => Free(y, a)) /\ Turn(y, a) = Turn(x, a)
  <2>1. \A i \in 1..Len(y.ready) : TurnOf(y.ready[i], a) => i \in 1..n /\ TurnOf(x.ready[i], a)
    <3>2. ASSUME NEW i \in 1..Len(y.ready), TurnOf(y.ready[i], a), i \notin 1..n PROVE FALSE
      <4>1. i - n \in 1..Len(s) /\ y.ready[i].to = s[i - n]
        BY <1>3, <3>2
      <4>2. s[i - n] \in {"R", "V"} /\ s[i - n] # a
        BY <1>6, <4>1
      <4> QED BY <3>2, <4>1, <4>2 DEF TurnOf
    <3> QED BY <1>2, <3>2
  <2>2. InReady(y, a) => InReady(x, a)
    BY <2>1 DEF InReady, n
  <2>3. /\ \A i, j \in 1..Len(y.reads) : y.reads[i] = a /\ y.reads[j] = a => i = j
        /\ \A i, j \in 1..Len(y.backlog) :
             y.backlog[i][1] = a /\ y.backlog[j][1] = a => i = j
    <3>1. Len(<<>>) = 0 /\ Once(x, a)
      BY EmptySeq DEF OneEach
    <3>2. \A i, j \in 1..Len(y.reads) : y.reads[i] = a /\ y.reads[j] = a => i = j
      BY <3>1 DEF Once
    <3>3. \A i, j \in 1..Len(y.backlog) :
             y.backlog[i][1] = a /\ y.backlog[j][1] = a => i = j
      BY <3>1 DEF Once
    <3> QED BY <3>2, <3>3
  <2>4. Once(y, a)
    BY <2>1, <2>2, <2>3 DEF Once, OneEach, n
  <2>5. Turn(y, a) = Turn(x, a)
    <3>1. Once(x, a)
      BY DEF OneEach
    <3>2. CASE Resumed(x, a)
      <4>1. PICK i \in 1..n : x.ready[i].to = a
        BY <3>2 DEF Resumed, n
      <4>2. i \in 1..Len(y.ready) /\ y.ready[i].to = a /\ y.ready[i].got = x.ready[i].got
        BY <1>2, <4>1 DEF n
      <4> QED BY <1>1, <2>4, <3>1, <4>1, <4>2, TurnIs DEF n
    <3>3. CASE ~Resumed(x, a)
      <4>1. ~Resumed(y, a)
        BY <1>2, <2>1, <3>3 DEF Resumed, TurnOf, n
      <4> QED BY <1>1, <2>4, <3>1, <3>3, <4>1, TurnIs
    <3> QED BY <3>2, <3>3
  <2> QED BY <2>2, <2>4, <2>5 DEF Free
<1>7. \A a \in {"R", "V"} : /\ Once(y, a)
                            /\ Free(x, a) => Free(y, a)
                            /\ Turn(y, a) = Turn(x, a) \/ Lost(x, y, a)
  BY <1>5, <1>6
<1>8. Late(y) => Late(x) \/ Turn(y, "R") = S!Error
  <2> SUFFICES ASSUME NEW i \in 1..Len(y.ready), NEW j \in 1..Len(y.ready), i < j,
                      y.ready[i].to = "V", y.ready[j].to = "R"
               PROVE  Late(x) \/ Turn(y, "R") = S!Error
    BY DEF Late
  <2>1. CASE j \in 1..n
    <3>1. i \in 1..n
      BY <1>1, <2>1 DEF n
    <3> QED BY <1>2, <2>1, <3>1 DEF Late, n
  <2>2. CASE j \notin 1..n
    <3>1. y.ready[j].got = S!Error
      BY <1>3, <2>2 DEF n
    <3> QED BY <1>1, <1>7, <3>1, TurnIs
  <2> QED BY <2>1, <2>2
<1> QED BY <1>1, <1>7, <1>8 DEF Aborts, OneEach

Draining(x) == \E i \in 1..Len(x.ready) : x.ready[i].to = "drain"
Mild(x, y) == /\ NoMessage(x) => NoMessage(y)
              /\ Draining(y) => Draining(x) \/ y.sendClosed
(* All but pc["D"], ddl and the queue.                                     *)
SameFlags(x, y) ==
  /\ y.length = x.length /\ y.visited = x.visited /\ y.confirmed = x.confirmed
  /\ y.stopping = x.stopping /\ y.sendClosed = x.sendClosed /\ y.sock = x.sock
  /\ y.torn = x.torn
SamePcs(x, y) == \A a \in {"R", "S", "V"} : y.pc[a] = x.pc[a]
Quietly(x, y) ==
  /\ Aborts(x, y) /\ Mild(x, y)
  /\ y.reads = x.reads /\ y.backlog = x.backlog
  /\ OneEach(x) => \A a \in {"R", "V"} : Turn(y, a) = Turn(x, a)
Softly(x, y) == Quietly(x, y) /\ SameFlags(x, y) /\ SamePcs(x, y)

LEMMA QuietlyChain ==
  ASSUME NEW x, NEW y, NEW z, Quietly(x, y), Quietly(y, z), SameFlags(y, z)
  PROVE  Quietly(x, z)
<1>1. Aborts(x, z)
  BY AbortsChain DEF Quietly
<1>2. Mild(x, z)
  BY DEF Mild, Quietly, SameFlags
<1> QED BY <1>1, <1>2 DEF Quietly, Aborts

LEMMA SoftlyChain ==
  ASSUME NEW x, NEW y, NEW z, Softly(x, y), Softly(y, z)
  PROVE  Softly(x, z)
<1>1. Quietly(x, z)
  BY QuietlyChain DEF Softly
<1> QED BY <1>1 DEF Softly, SameFlags, SamePcs

LEMMA QuietSame ==
  ASSUME NEW x \in ServerWorkers, NEW y \in ServerWorkers, y.ready = x.ready,
         y.reads = x.reads, y.backlog = x.backlog
  PROVE  Quietly(x, y)
<1>1. Grows(x, y)
  BY DEF Grows, ServerWorkers
<1>2. \A i \in 1..Len(y.ready) : i \in 1..Len(x.ready)
  OBVIOUS
<1>3. Mild(x, y)
  BY DEF Mild, NoMessage, Draining
<1> QED BY <1>1, <1>2, <1>3, AbortsQuiet DEF Quietly

LEMMA PostFlags ==
  ASSUME NEW x \in ServerWorkers, NEW a, NEW got
  PROVE  SameFlags(x, S!Post(x, a, got)) /\ S!Post(x, a, got).pc = x.pc
<1> DEFINE r == Append(x.ready, S!Handler(a, got))
<1>1. S!Post(x, a, got) = [x EXCEPT !.ready = r]
  BY DEF S!Post
<1> HIDE DEF r
<1> QED BY <1>1 DEF ServerWorkers, SameFlags

LEMMA PostGrows ==
  ASSUME NEW x \in ServerWorkers, NEW a, NEW got, S!Handler(a, got) \in ServerHandlers
  PROVE  LET y == S!Post(x, a, got) n == Len(x.ready) IN
           /\ Grows(x, y) /\ n \in Nat /\ Len(y.ready) = n + 1
           /\ \A i \in 1..n : i \in 1..Len(y.ready) /\ y.ready[i] = x.ready[i]
           /\ n + 1 \in 1..Len(y.ready) /\ n + 1 \notin 1..n
           /\ y.ready[n + 1].to = a /\ y.ready[n + 1].got = got
           /\ \A i \in 1..Len(y.ready) : i \in 1..n \/ i = n + 1
           /\ y.reads = x.reads /\ y.backlog = x.backlog /\ y.waiting = x.waiting
           /\ y \in ServerWorkers
<1> DEFINE y == S!Post(x, a, got)
           n == Len(x.ready)
<1>1. /\ y \in ServerWorkers /\ Len(y.ready) = n + 1 /\ n \in Nat
      /\ \A i \in 1..n : y.ready[i] = x.ready[i]
      /\ y.ready[n + 1] = S!Handler(a, got)
      /\ \A i \in 1..Len(y.ready) : i \in 1..n \/ i = n + 1
      /\ y.reads = x.reads /\ y.backlog = x.backlog /\ y.waiting = x.waiting
  BY ServerPosts
<1>2. y.ready[n + 1].to = a /\ y.ready[n + 1].got = got
  BY <1>1, HandlerParts
<1> HIDE DEF y, n
<1>3. n <= Len(y.ready) /\ n + 1 \in 1..Len(y.ready) /\ n + 1 \notin 1..n
      /\ \A i \in 1..n : i \in 1..Len(y.ready)
  BY <1>1
<1> QED BY <1>1, <1>2, <1>3 DEF Grows, y, n

LEMMA PostMild ==
  ASSUME NEW x \in ServerWorkers, NEW a, NEW got, S!Handler(a, got) \in ServerHandlers,
         a # "S" \/ got \notin Message, a # "drain" \/ x.sendClosed
  PROVE  Mild(x, S!Post(x, a, got))
<1> DEFINE y == S!Post(x, a, got)
           n == Len(x.ready)
<1>1. /\ y.ready[n + 1].to = a /\ y.ready[n + 1].got = got
      /\ \A i \in 1..Len(y.ready) : (i \in 1..n /\ y.ready[i] = x.ready[i]) \/ i = n + 1
  BY PostGrows
<1>2. y.sendClosed = x.sendClosed
  BY PostFlags DEF SameFlags
<1> HIDE DEF y, n
<1> QED BY <1>1, <1>2 DEF Mild, NoMessage, Draining, y, n

LEMMA PostQuietly ==
  ASSUME NEW x \in ServerWorkers, NEW a \in {"S", "D", "wait", "drain"}, NEW got,
         S!Handler(a, got) \in ServerHandlers
  PROVE  LET y == S!Post(x, a, got) IN
           /\ Aborts(x, y) /\ y.reads = x.reads /\ y.backlog = x.backlog
           /\ OneEach(x) => \A b \in {"R", "V"} : Turn(y, b) = Turn(x, b)
           /\ (a # "S" \/ got \notin Message) /\ (a # "drain" \/ x.sendClosed) => Quietly(x, y)
<1> DEFINE y == S!Post(x, a, got)
<1>1. /\ Grows(x, y) /\ y.reads = x.reads /\ y.backlog = x.backlog
      /\ \A i \in 1..Len(y.ready) : i \in 1..Len(x.ready) \/ y.ready[i].to = a
  BY PostGrows
<1>2. Aborts(x, y) /\ (OneEach(x) => \A b \in {"R", "V"} : Turn(y, b) = Turn(x, b))
  BY <1>1, AbortsQuiet
<1> QED BY <1>1, <1>2, PostMild DEF Quietly

LEMMA MoveFlags ==
  ASSUME NEW x \in ServerWorkers, NEW a \in {"R", "S", "D", "V"}, NEW l \in ServerPcs
  PROVE  LET y == S!GoTo(x, a, l) IN
           /\ Quietly(x, y) /\ SameFlags(x, y) /\ y \in ServerWorkers
           /\ \A b \in {"R", "S", "D", "V"} : y.pc[b] = IF b = a THEN l ELSE x.pc[b]
           /\ y.ready = x.ready /\ y.reads = x.reads /\ y.waiting = x.waiting
           /\ y.backlog = x.backlog
<1> DEFINE y == S!GoTo(x, a, l)
<1>1. y = [x EXCEPT !.pc = [x.pc EXCEPT ![a] = l]]
  BY DEF S!GoTo
<1>2. /\ y \in ServerWorkers /\ y.ready = x.ready /\ y.reads = x.reads
      /\ y.waiting = x.waiting /\ y.backlog = x.backlog
      /\ \A b \in {"R", "S", "D", "V"} : y.pc[b] = IF b = a THEN l ELSE x.pc[b]
  BY ServerMoves
<1> HIDE DEF y
<1>3. SameFlags(x, y)
  BY <1>1 DEF ServerWorkers, SameFlags
<1> QED BY <1>2, <1>3, QuietSame DEF y

LEMMA WakeSoftly ==
  ASSUME NEW x \in ServerWorkers
  PROVE  /\ Softly(x, S!WakeDdl(x)) /\ Softly(x, S!AwaitDdl(x))
         /\ \A t \in {"max", "armed", "expired"} : Softly(x, S!WakeDdl([x EXCEPT !.ddl = t]))
<1>1. ASSUME NEW u \in ServerWorkers
      PROVE  Softly(u, S!Post(S!GoTo(u, "D", "woken"), "D", S!Ok))
             /\ Softly(u, S!GoTo(u, "D", "waiting"))
  <2> DEFINE y == S!GoTo(u, "D", "woken")
  <2>1. Softly(u, y) /\ y \in ServerWorkers /\ Softly(u, S!GoTo(u, "D", "waiting"))
    <3>1. "woken" \in ServerPcs /\ "waiting" \in ServerPcs
      BY DEF ServerPcs
    <3> QED BY <3>1, MoveFlags DEF Softly, SamePcs
  <2> HIDE DEF y
  <2>2. S!Handler("D", S!Ok) \in ServerHandlers
    BY PlainHandlers
  <2>3. Softly(y, S!Post(y, "D", S!Ok))
    BY <2>1, <2>2, PostQuietly, PostFlags DEF Softly, SamePcs
  <2> QED BY <2>1, <2>3, SoftlyChain DEF y
<1>2. ASSUME NEW u \in ServerWorkers PROVE Softly(u, u)
  BY QuietSame DEF Softly, SameFlags, SamePcs
<1>3. ASSUME NEW u \in ServerWorkers PROVE Softly(u, S!WakeDdl(u))
  BY <1>1, <1>2 DEF S!WakeDdl
<1>4. Softly(x, S!AwaitDdl(x))
  BY <1>1 DEF S!AwaitDdl
<1>5. ASSUME NEW t \in {"max", "armed", "expired"}
      PROVE  Softly(x, S!WakeDdl([x EXCEPT !.ddl = t]))
  <2> DEFINE y == [x EXCEPT !.ddl = t]
  <2>1. /\ y \in ServerWorkers /\ y.ready = x.ready /\ y.reads = x.reads
        /\ y.backlog = x.backlog /\ y.pc = x.pc
    BY DEF ServerWorkers
  <2>2. SameFlags(x, y)
    BY DEF ServerWorkers, SameFlags
  <2> HIDE DEF y
  <2>3. Softly(x, y) /\ Softly(y, S!WakeDdl(y))
    BY <1>3, <2>1, <2>2, QuietSame DEF Softly, SamePcs
  <2> QED BY <2>3, SoftlyChain DEF y
<1> QED BY <1>3, <1>4, <1>5

LEMMA ConcatIndex ==
  ASSUME NEW T, NEW s \in Seq(T), NEW t \in Seq(T)
  PROVE  /\ s \o t \in Seq(T) /\ Len(s) \in Nat /\ Len(s) <= Len(s \o t)
         /\ \A i \in 1..Len(s) : (s \o t)[i] = s[i]
         /\ \A i \in 1..Len(s \o t) :
              i \in 1..Len(s) \/ (i > Len(s) /\ i - Len(s) \in 1..Len(t)
                                 /\ (s \o t)[i] = t[i - Len(s)])
         /\ \A i \in 1..Len(t) : Len(s) + i \in 1..Len(s \o t)
<1>1. Len(s) \in Nat /\ Len(t) \in Nat
  OBVIOUS
<1>2. /\ s \o t \in Seq(T) /\ Len(s \o t) = Len(s) + Len(t)
      /\ \A i \in 1..(Len(s) + Len(t)) :
           (s \o t)[i] = IF i <= Len(s) THEN s[i] ELSE t[i - Len(s)]
  BY ConcatProperties
<1> DEFINE m == Len(s)
           n == Len(t)
<1>3. /\ m <= m + n
      /\ \A i \in 1..m : i \in 1..(m + n) /\ i <= m
      /\ \A i \in 1..(m + n) : i \in 1..m \/ (i > m /\ i - m \in 1..n /\ ~(i <= m))
      /\ \A i \in 1..n : m + i \in 1..(m + n)
  <2> HIDE DEF m, n
  <2> QED BY <1>1 DEF m, n
<1> QED BY <1>1, <1>2, <1>3

(* The pending reads are cancelled.                                        *)
LEMMA CancelAborts ==
  ASSUME NEW x \in ServerWorkers
  PROVE  LET y == S!CancelReads(x) IN
           /\ Aborts(x, y) /\ Mild(x, y) /\ SameFlags(x, y) /\ y.pc = x.pc /\ y.reads = <<>>
           /\ y \in ServerWorkers /\ y.backlog = x.backlog
<1> DEFINE hs == [i \in DOMAIN x.reads |-> S!Handler(x.reads[i], S!Error)]
           y == S!CancelReads(x)
           n == Len(x.ready)
           s == x.reads
<1>1. y = [x EXCEPT !.ready = x.ready \o hs, !.reads = <<>>]
  BY DEF S!CancelReads
<1>2. /\ DOMAIN s = 1..Len(s) /\ Len(s) \in Nat /\ n \in Nat
      /\ x.ready \in Seq(ServerHandlers) /\ \A i \in 1..Len(s) : s[i] \in {"R", "V"}
  BY DEF ServerWorkers
<1>3. hs \in Seq(ServerHandlers) /\ Len(hs) = Len(s)
      /\ \A i \in 1..Len(s) : hs[i] = S!Handler(s[i], S!Error)
  <2>1. hs \in [1..Len(s) -> ServerHandlers]
    BY <1>2, PlainHandlers
  <2> QED BY <1>2, <2>1, LenProperties, SeqDef
<1> HIDE DEF hs, y
<1> DEFINE r == x.ready \o hs
<1>4. /\ r \in Seq(ServerHandlers) /\ n <= Len(r)
      /\ \A i \in 1..n : r[i] = x.ready[i]
      /\ \A i \in 1..Len(r) : i \in 1..n \/ (i > n /\ i - n \in 1..Len(s) /\ r[i] = hs[i - n])
      /\ \A i \in 1..Len(s) : n + i \in 1..Len(r)
  BY <1>2, <1>3, ConcatIndex
<1> HIDE DEF r
<1>5. /\ y \in ServerWorkers /\ y.ready = r /\ y.reads = <<>>
      /\ y.pc = x.pc /\ y.backlog = x.backlog
  <2>1. <<>> \in Seq({"R", "V"})
    BY EmptySeq
  <2> QED BY <1>1, <1>4, <2>1 DEF ServerWorkers, r
<1>6. SameFlags(x, y)
  BY <1>1 DEF ServerWorkers, SameFlags
<1>7. Grows(x, y)
  BY <1>4, <1>5 DEF Grows
<1>8. \A i \in 1..Len(y.ready) :
        i \in 1..n \/ (i > n /\ i - n \in 1..Len(s)
                       /\ y.ready[i] = S!Handler(s[i - n], S!Error))
  BY <1>3, <1>4, <1>5
<1>9. \A i \in 1..Len(s) : n + i \in 1..Len(y.ready)
  BY <1>4, <1>5
<1>10. Aborts(x, y)
  <2>1. CASE OneEach(x)
    <3>1. \A a : ~Reading(y, a) /\ (InBacklog(y, a) <=> InBacklog(x, a))
      BY <1>5, EmptySeq DEF Reading, InBacklog
    <3>2. \A i, j \in 1..Len(s) : s[i] = s[j] => i = j
      BY <1>2, <2>1 DEF OneEach, Once
    <3>3. ASSUME NEW i \in 1..Len(s)
          PROVE  /\ ~InReady(x, s[i]) /\ Reading(x, s[i])
                 /\ ~Reading(y, s[i]) /\ ~InBacklog(y, s[i])
      <4>1. Reading(x, s[i]) /\ s[i] \in {"R", "V"}
        BY <1>2 DEF Reading
      <4>2. Once(x, s[i])
        BY <2>1, <4>1 DEF OneEach
      <4> QED BY <3>1, <4>1, <4>2 DEF Once
    <3> HIDE DEF s
    <3>4. y.reads \in {x.reads, <<>>} /\ y.backlog \in {x.backlog, <<>>}
      BY <1>5
    <3> QED BY <1>2, <1>7, <1>8, <1>9, <2>1, <3>1, <3>2, <3>3, <3>4, AbortsAll
  <2>2. CASE ~OneEach(x)
    BY <1>5, <2>2 DEF Aborts
  <2> QED BY <2>1, <2>2
<1>11. Mild(x, y)
  <2>1. \A i \in 1..Len(y.ready) : (i \in 1..n /\ y.ready[i] = x.ready[i])
                                   \/ y.ready[i].to \in {"R", "V"}
    BY <1>2, <1>7, <1>8, HandlerParts DEF Grows
  <2> HIDE DEF n
  <2> QED BY <2>1 DEF Mild, NoMessage, Draining, n
<1> QED BY <1>5, <1>6, <1>10, <1>11 DEF y

(* try_stop(): nothing but stopping_ when a visitor has come.              *)
Stops(x, y) ==
  /\ Aborts(x, y) /\ Mild(x, y) /\ SamePcs(x, y)
  /\ y.length = x.length /\ y.visited = x.visited /\ y.confirmed = x.confirmed
  /\ y.stopping /\ y.torn = x.torn
  /\ x.visited => Quietly(x, y) /\ y.sendClosed = x.sendClosed /\ y.sock = x.sock
  /\ ~x.visited => y.sendClosed /\ y.sock = "closed" /\ y.reads = <<>>

LEMMA StopsWorker ==
  ASSUME NEW x \in ServerWorkers
  PROVE  Stops(x, S!TryStop(x))
<1> DEFINE y == [x EXCEPT !.stopping = TRUE]
           yc == [y EXCEPT !.sendClosed = TRUE]
           u == S!Post(yc, "drain", S!Ok)
           v == S!CancelReads(u)
           z == [v EXCEPT !.sock = "closed"]
           zd == S!WakeDdl([z EXCEPT !.ddl = "max"])
<1>1. S!TryStop(x) = IF x.visited THEN y ELSE zd
  BY DEF S!TryStop, S!CancelDdl, S!CloseSend
<1>2. /\ y \in ServerWorkers /\ y.ready = x.ready /\ y.reads = x.reads /\ y.pc = x.pc
      /\ y.waiting = x.waiting /\ y.backlog = x.backlog /\ y.length = x.length
      /\ y.visited = x.visited /\ y.confirmed = x.confirmed /\ y.stopping = TRUE
      /\ y.sendClosed = x.sendClosed /\ y.sock = x.sock /\ y.torn = x.torn
  BY DEF ServerWorkers
<1>3. Quietly(x, y)
  BY <1>2, QuietSame
<1> HIDE DEF y
<1>4. /\ yc \in ServerWorkers /\ yc.ready = y.ready /\ yc.reads = y.reads /\ yc.pc = y.pc
      /\ yc.waiting = y.waiting /\ yc.backlog = y.backlog /\ yc.length = y.length
      /\ yc.visited = y.visited /\ yc.confirmed = y.confirmed /\ yc.stopping = y.stopping
      /\ yc.sendClosed = TRUE /\ yc.sock = y.sock /\ yc.torn = y.torn
  BY <1>2 DEF ServerWorkers
<1> HIDE DEF yc
<1>5. Quietly(x, yc)
  BY <1>2, <1>4, QuietSame
<1>6. Quietly(yc, u) /\ SameFlags(yc, u) /\ u.pc = yc.pc /\ u \in ServerWorkers
  <2>1. S!Handler("drain", S!Ok) \in ServerHandlers
    BY PlainHandlers
  <2> QED BY <1>4, <2>1, PostQuietly, PostFlags, PostGrows
<1> HIDE DEF u
<1>7. /\ Aborts(u, v) /\ Mild(u, v) /\ SameFlags(u, v) /\ v.pc = u.pc /\ v.reads = <<>>
      /\ v \in ServerWorkers
  BY <1>6, CancelAborts
<1> HIDE DEF v
<1>8. /\ z \in ServerWorkers /\ z.ready = v.ready /\ z.reads = v.reads /\ z.pc = v.pc
      /\ z.backlog = v.backlog /\ z.length = v.length
      /\ z.visited = v.visited /\ z.confirmed = v.confirmed /\ z.stopping = v.stopping
      /\ z.sendClosed = v.sendClosed /\ z.sock = "closed" /\ z.torn = v.torn
  BY <1>7 DEF ServerWorkers
<1> HIDE DEF z
<1>9. Quietly(v, z)
  BY <1>7, <1>8, QuietSame
<1>10. Softly(z, zd)
  BY <1>8, WakeSoftly
<1> HIDE DEF zd
<1>11. Aborts(x, zd)
  BY <1>5, <1>6, <1>7, <1>9, <1>10, AbortsChain DEF Quietly, Softly
<1>12. /\ zd.sendClosed /\ zd.stopping /\ zd.sock = "closed" /\ zd.reads = <<>>
       /\ zd.length = x.length /\ zd.visited = x.visited /\ zd.confirmed = x.confirmed
       /\ SamePcs(x, zd) /\ zd.torn = x.torn
  BY <1>2, <1>4, <1>6, <1>7, <1>8, <1>10 DEF SameFlags, SamePcs, Softly, Quietly
<1>13. NoMessage(x) => NoMessage(zd)
  BY <1>5, <1>6, <1>7, <1>9, <1>10 DEF Mild, Quietly, Softly
<1>14. Mild(x, zd)
  BY <1>12, <1>13 DEF Mild
<1>15. CASE x.visited
  <2>1. Stops(x, y)
    BY <1>2, <1>3, <1>15 DEF Stops, SamePcs, Quietly
  <2> QED BY <1>1, <1>15, <2>1
<1>16. CASE ~x.visited
  <2>1. Stops(x, zd)
    BY <1>11, <1>12, <1>14, <1>16 DEF Stops
  <2> QED BY <1>1, <1>16, <2>1
<1> QED BY <1>15, <1>16

(* A coroutine throws: it ends, and stops the worker unless it is visited  *)
(* or has stopped.                                                         *)
Throws(x, a, y) ==
  /\ Aborts(x, y) /\ Mild(x, y)
  /\ \A b \in {"R", "S", "V"} : y.pc[b] = IF b = a THEN "done" ELSE x.pc[b]
  /\ y.length = x.length /\ y.visited = x.visited /\ y.confirmed = x.confirmed
  /\ y.stopping \in {x.stopping, TRUE} /\ y.torn = x.torn
  /\ x.visited => Quietly(x, y) /\ y.sendClosed = x.sendClosed /\ y.sock = x.sock
  /\ \/ Quietly(x, y) /\ SameFlags(x, y)
     \/ y.stopping
  /\ ~x.visited => y.sendClosed \in {x.sendClosed, TRUE} /\ y.sock \in {x.sock, "closed"}

LEMMA ThrowsOn ==
  ASSUME NEW x \in ServerWorkers, NEW a \in {"R", "S"}
  PROVE  Throws(x, a, S!Throw(x, a))
<1> DEFINE y == S!GoTo(x, a, "done")
           z == S!TryStop(y)
<1>1. S!Throw(x, a) = IF x.visited \/ x.stopping THEN y ELSE z
  BY DEF S!Throw
<1>2. /\ Quietly(x, y) /\ SameFlags(x, y) /\ y \in ServerWorkers
      /\ \A b \in {"R", "S", "V"} : y.pc[b] = IF b = a THEN "done" ELSE x.pc[b]
  BY MoveFlags DEF ServerPcs
<1> HIDE DEF y
<1>3. Stops(y, z)
  BY <1>2, StopsWorker
<1> HIDE DEF z
<1>4. CASE x.visited \/ x.stopping
  <2>1. Throws(x, a, y)
    BY <1>2 DEF Throws, Quietly, SameFlags
  <2> QED BY <1>1, <1>4, <2>1
<1>5. CASE ~(x.visited \/ x.stopping)
  <2>1. Aborts(x, z)
    BY <1>2, <1>3, AbortsChain DEF Quietly, Stops
  <2>2. Mild(x, z)
    BY <1>2, <1>3, <1>5 DEF Quietly, Stops, Mild, SameFlags
  <2>3. Throws(x, a, z)
    BY <1>2, <1>3, <1>5, <2>1, <2>2 DEF Throws, Stops, SameFlags, SamePcs
  <2> QED BY <1>1, <1>5, <2>3
<1> QED BY <1>4, <1>5

(* What to_send_ still holds when it is closed is told so.                 *)
Drained(x) ==
  [x EXCEPT !.ready = @ \o (IF x.waiting THEN <<S!Handler("S", S!Error)>> ELSE <<>>)
                        \o [i \in DOMAIN x.backlog |-> S!Handler(x.backlog[i][1], S!Error)],
            !.waiting = FALSE, !.backlog = <<>>]

LEMMA DrainAborts ==
  ASSUME NEW x \in ServerWorkers
  PROVE  LET y == Drained(x) IN
           /\ Aborts(x, y) /\ Mild(x, y) /\ SameFlags(x, y) /\ y.pc = x.pc
           /\ y.reads = x.reads /\ y.backlog = <<>>
<1> DEFINE hs == [i \in DOMAIN x.backlog |-> S!Handler(x.backlog[i][1], S!Error)]
           s == [i \in DOMAIN x.backlog |-> x.backlog[i][1]]
           u == IF x.waiting THEN S!Post(x, "S", S!Error) ELSE x
           n == Len(u.ready)
           y == Drained(x)
<1>1. S!Handler("S", S!Error) \in ServerHandlers
  BY PlainHandlers
<1>2. Quietly(x, u) /\ SameFlags(x, u) /\ u.pc = x.pc /\ u \in ServerWorkers
      /\ u.reads = x.reads /\ u.backlog = x.backlog
  <2>1. CASE x.waiting
    <3>1. S!Error \notin Message
      BY PlainReplies
    <3> QED BY <1>1, <2>1, <3>1, PostQuietly, PostFlags, PostGrows
  <2>2. CASE ~x.waiting
    BY <2>2, QuietSame DEF SameFlags
  <2> QED BY <2>1, <2>2
<1>3. /\ DOMAIN x.backlog = 1..Len(x.backlog) /\ Len(x.backlog) \in Nat
      /\ \A i \in 1..Len(x.backlog) : x.backlog[i][1] \in {"R", "V"}
  BY DEF ServerWorkers, Provided
<1>4. hs \in Seq(ServerHandlers) /\ Len(hs) = Len(x.backlog)
      /\ \A i \in 1..Len(x.backlog) : hs[i] = S!Handler(x.backlog[i][1], S!Error)
  <2>1. hs \in [1..Len(x.backlog) -> ServerHandlers]
    BY <1>3, PlainHandlers
  <2> QED BY <1>3, <2>1, LenProperties, SeqDef
<1>5. Len(s) = Len(x.backlog) /\ \A i \in 1..Len(s) : s[i] = x.backlog[i][1]
  <2>1. s \in [1..Len(x.backlog) -> {"R", "V"}]
    BY <1>3
  <2> QED BY <1>3, <2>1, LenProperties, SeqDef
<1>6. u.ready = x.ready \o (IF x.waiting THEN <<S!Handler("S", S!Error)>> ELSE <<>>)
  <2>1. x.ready \in Seq(ServerHandlers)
    BY DEF ServerWorkers
  <2>2. CASE x.waiting
    <3> DEFINE h == S!Handler("S", S!Error)
    <3>1. u.ready = Append(x.ready, h)
      <4> DEFINE q == Append(x.ready, h)
      <4>1. u = [x EXCEPT !.ready = q]
        BY <2>2 DEF S!Post
      <4> HIDE DEF q
      <4> QED BY <4>1 DEF ServerWorkers, q
    <3> HIDE DEF h
    <3>2. Append(x.ready, h) = x.ready \o <<h>>
      BY <1>1, <2>1, AppendIsConcat DEF h
    <3> QED BY <2>2, <3>1, <3>2 DEF h
  <2>3. CASE ~x.waiting
    BY <2>1, <2>3, ConcatEmptySeq
  <2> QED BY <2>2, <2>3
<1> HIDE DEF hs, s, u
<1> DEFINE r == u.ready \o hs
<1>7. /\ r \in Seq(ServerHandlers) /\ n <= Len(r)
      /\ \A i \in 1..n : r[i] = u.ready[i]
      /\ \A i \in 1..Len(r) : i \in 1..n \/ (i > n /\ i - n \in 1..Len(hs) /\ r[i] = hs[i - n])
      /\ \A i \in 1..Len(hs) : n + i \in 1..Len(r)
  <2>1. u.ready \in Seq(ServerHandlers)
    BY <1>2 DEF ServerWorkers
  <2> QED BY <1>4, <2>1, ConcatIndex
<1>8. y = [x EXCEPT !.ready = r, !.waiting = FALSE, !.backlog = <<>>]
  BY <1>6 DEF hs, Drained
<1> HIDE DEF r, y
<1>9. /\ y \in ServerWorkers /\ y.ready = r /\ y.reads = x.reads /\ y.backlog = <<>>
      /\ y.pc = x.pc
  <2>1. <<>> \in Seq(Provided)
    BY EmptySeq
  <2> QED BY <1>7, <1>8, <2>1 DEF ServerWorkers
<1>10. SameFlags(x, y)
  BY <1>8 DEF ServerWorkers, SameFlags
<1>11. Grows(u, y)
  BY <1>7, <1>9 DEF Grows, n
<1>12. \A i \in 1..Len(y.ready) :
         i \in 1..n \/ (i > n /\ i - n \in 1..Len(s)
                        /\ y.ready[i] = S!Handler(s[i - n], S!Error))
  <2>1. Len(hs) = Len(s) /\ \A i \in 1..Len(hs) : hs[i] = S!Handler(s[i], S!Error)
    BY <1>4, <1>5
  <2>2. \A i \in 1..Len(r) : i \in 1..n \/ (i > n /\ i - n \in 1..Len(hs) /\ r[i] = hs[i - n])
    BY <1>7
  <2> HIDE DEF n
  <2> QED BY <1>9, <2>1, <2>2
<1>13. \A i \in 1..Len(s) : n + i \in 1..Len(y.ready) /\ s[i] \in {"R", "V"}
  BY <1>3, <1>4, <1>5, <1>7, <1>9
<1>14. Aborts(u, y)
  <2>1. CASE OneEach(u)
    <3>1. \A a : ~InBacklog(y, a) /\ (Reading(y, a) <=> Reading(u, a))
      BY <1>2, <1>9, EmptySeq DEF Reading, InBacklog
    <3>2. \A i, j \in 1..Len(s) : s[i] = s[j] => i = j
      BY <1>2, <1>3, <1>5, <2>1 DEF OneEach, Once
    <3>3. ASSUME NEW i \in 1..Len(s)
          PROVE  /\ ~InReady(u, s[i]) /\ InBacklog(u, s[i])
                 /\ ~Reading(y, s[i]) /\ ~InBacklog(y, s[i])
      <4>1. InBacklog(u, s[i]) /\ s[i] \in {"R", "V"}
        BY <1>2, <1>3, <1>5 DEF InBacklog
      <4>2. Once(u, s[i])
        BY <2>1, <4>1 DEF OneEach
      <4> QED BY <3>1, <4>1, <4>2 DEF Once
    <3>4. y.reads \in {u.reads, <<>>} /\ y.backlog \in {u.backlog, <<>>}
      BY <1>2, <1>9
    <3>5. Grows(u, y) /\ u \in ServerWorkers /\ OneEach(u)
      BY <1>2, <1>11, <2>1
    <3>6. \A i \in 1..Len(s) :
            /\ ~InReady(u, s[i])
            /\ Reading(u, s[i]) \/ InBacklog(u, s[i])
            /\ ~Reading(y, s[i]) /\ ~InBacklog(y, s[i])
      BY <3>3
    <3>7. \A a \in {"R", "V"} : (Reading(y, a) => Reading(u, a))
                               /\ (InBacklog(y, a) => InBacklog(u, a))
      BY <3>1
    <3>8. \A i \in 1..Len(s) : Len(u.ready) + i \in 1..Len(y.ready) /\ s[i] \in {"R", "V"}
      BY <1>13
    <3>9. \A i \in 1..Len(y.ready) :
           i \in 1..Len(u.ready)
             \/ (i > Len(u.ready) /\ i - Len(u.ready) \in 1..Len(s)
                 /\ y.ready[i] = S!Handler(s[i - Len(u.ready)], S!Error))
      BY <1>12
    <3> HIDE DEF n
    <3> QED BY <3>2, <3>4, <3>5, <3>6, <3>7, <3>8, <3>9, AbortsAll
  <2>2. CASE ~OneEach(u)
    BY <1>2, <1>9, <2>2 DEF Aborts
  <2> QED BY <2>1, <2>2
<1>15. Mild(u, y)
  <2>1. \A i \in 1..Len(y.ready) : (i \in 1..n /\ y.ready[i] = u.ready[i])
                                   \/ y.ready[i].to \in {"R", "V"}
    <3>1. \A i \in 1..n : y.ready[i] = u.ready[i]
      BY <1>11 DEF Grows
    <3> SUFFICES ASSUME NEW i \in 1..Len(y.ready), i \notin 1..n
                 PROVE  y.ready[i].to \in {"R", "V"}
      BY <3>1
    <3>2. i - n \in 1..Len(s) /\ y.ready[i] = S!Handler(s[i - n], S!Error)
      BY <1>12
    <3>3. s[i - n] \in {"R", "V"}
      BY <1>13, <3>2
    <3> QED BY <3>2, <3>3, HandlerParts
  <2>2. \A i \in 1..Len(y.ready) : (i \in 1..Len(u.ready) /\ y.ready[i] = u.ready[i])
                                   \/ y.ready[i].to \in {"R", "V"}
    BY <2>1
  <2> HIDE DEF n
  <2> QED BY <2>2 DEF Mild, NoMessage, Draining
<1>16. Aborts(x, y)
  BY <1>2, <1>14, AbortsChain DEF Quietly
<1>17. Mild(x, y)
  BY <1>2, <1>10, <1>15 DEF Quietly, Mild, SameFlags
<1> QED BY <1>9, <1>10, <1>16, <1>17 DEF y

(* Who has no turn, no read and no message in to_send_ is given one.       *)
LEMMA PostsTurn ==
  ASSUME NEW x \in ServerWorkers, OneEach(x), NEW a \in {"R", "V"}, Free(x, a),
         NEW got \in Reply
  PROVE  LET y == S!Post(x, a, got) IN
           /\ y \in ServerWorkers /\ OneEach(y) /\ Turn(y, a) = got
           /\ \A b \in {"R", "V"} : b # a => Turn(y, b) = Turn(x, b) /\ (Free(x, b) => Free(y, b))
           /\ a = "V" => ~Late(y)
           /\ y.reads = x.reads /\ y.backlog = x.backlog
           /\ Mild(x, y) /\ SameFlags(x, y) /\ y.pc = x.pc
<1> DEFINE y == S!Post(x, a, got)
           n == Len(x.ready)
<1>1. S!Handler(a, got) \in ServerHandlers
  <2>1. S!Handler(a, got) \in [to : {"R", "V"}, got : Reply]
    BY DEF S!Handler
  <2> QED BY <2>1 DEF ServerHandlers
<1>2. /\ Grows(x, y) /\ n \in Nat /\ Len(y.ready) = n + 1
      /\ \A i \in 1..n : i \in 1..Len(y.ready) /\ y.ready[i] = x.ready[i]
      /\ n + 1 \in 1..Len(y.ready) /\ n + 1 \notin 1..n
      /\ y.ready[n + 1].to = a /\ y.ready[n + 1].got = got
      /\ \A i \in 1..Len(y.ready) : i \in 1..n \/ i = n + 1
      /\ y.reads = x.reads /\ y.backlog = x.backlog /\ y \in ServerWorkers
  BY <1>1, PostGrows
<1>3. Mild(x, y) /\ SameFlags(x, y) /\ y.pc = x.pc
  BY <1>1, PostMild, PostFlags
<1> HIDE DEF y
<1>4. ~InReady(x, a) /\ ~Reading(x, a) /\ ~InBacklog(x, a) /\ Once(x, a)
  BY DEF Free, OneEach
<1>5. \A i \in 1..Len(y.ready) : TurnOf(y.ready[i], a) => i = n + 1
  BY <1>2, <1>4 DEF InReady
<1>6. ~Reading(y, a) /\ ~InBacklog(y, a)
  BY <1>2, <1>4 DEF Reading, InBacklog
<1>7. Once(y, a)
  BY <1>5, <1>6 DEF Once, Reading, InBacklog
<1>8. Turn(y, a) = got
  <2>1. \A i \in 1..Len(y.ready) : y.ready[i].to = a => Turn(y, a) = y.ready[i].got
    BY <1>2, <1>7, TurnIs
  <2> QED BY <1>2, <2>1
<1>9. ASSUME NEW b \in {"R", "V"}, b # a
      PROVE  Once(y, b) /\ (Free(x, b) => Free(y, b)) /\ Turn(y, b) = Turn(x, b)
  <2>1. \A i \in 1..Len(y.ready) : i \in 1..n \/ ~TurnOf(y.ready[i], b)
    BY <1>2, <1>9 DEF TurnOf
  <2>2. Once(x, b)
    BY DEF OneEach
  <2> QED BY <1>2, <2>1, <2>2, TurnStays
<1>10. a = "V" => ~Late(y)
  <2> SUFFICES ASSUME a = "V", NEW i \in 1..Len(y.ready), NEW j \in 1..Len(y.ready), i < j,
                      y.ready[i].to = "V"
               PROVE  FALSE
    BY DEF Late
  <2>1. i = n + 1
    BY <1>5 DEF TurnOf
  <2> HIDE DEF n
  <2> QED BY <1>2, <2>1
<1>11. OneEach(y)
  BY <1>7, <1>9 DEF OneEach
<1> QED BY <1>2, <1>3, <1>8, <1>9, <1>10, <1>11 DEF y

LEMMA PostsProvide ==
  ASSUME NEW x \in ServerWorkers, OneEach(x), NEW a \in {"R", "V"}, Free(x, a),
         NEW m, <<a, m>> \in Provided
  PROVE  LET y == S!Post(x, "provide", <<a, m>>) IN
           /\ y \in ServerWorkers /\ OneEach(y)
           /\ \A b \in {"R", "V"} : Turn(y, b) = Turn(x, b)
           /\ Late(y) => Late(x)
           /\ y.reads = x.reads /\ y.backlog = x.backlog
           /\ Mild(x, y) /\ SameFlags(x, y) /\ y.pc = x.pc
<1> DEFINE g == <<a, m>>
           y == S!Post(x, "provide", g)
           n == Len(x.ready)
<1>1. S!Handler("provide", g) \in ServerHandlers /\ g[1] = a
  BY PlainHandlers
<1> HIDE DEF g
<1>2. /\ Grows(x, y) /\ n \in Nat /\ Len(y.ready) = n + 1
      /\ \A i \in 1..n : i \in 1..Len(y.ready) /\ y.ready[i] = x.ready[i]
      /\ n + 1 \in 1..Len(y.ready) /\ n + 1 \notin 1..n
      /\ y.ready[n + 1].to = "provide" /\ y.ready[n + 1].got = g
      /\ \A i \in 1..Len(y.ready) : i \in 1..n \/ i = n + 1
      /\ y.reads = x.reads /\ y.backlog = x.backlog /\ y \in ServerWorkers
  BY <1>1, PostGrows
<1>3. Mild(x, y) /\ SameFlags(x, y) /\ y.pc = x.pc
  BY <1>1, PostMild, PostFlags
<1> HIDE DEF y
<1>4. ~InReady(x, a) /\ ~Reading(x, a) /\ ~InBacklog(x, a) /\ Once(x, a)
  BY DEF Free, OneEach
<1>5. \A i \in 1..Len(y.ready) : TurnOf(y.ready[i], a) => i = n + 1
  BY <1>2, <1>4 DEF InReady
<1>6. ~Reading(y, a) /\ ~InBacklog(y, a)
  BY <1>2, <1>4 DEF Reading, InBacklog
<1>7. Once(y, a)
  BY <1>5, <1>6 DEF Once, Reading, InBacklog
<1>8. Turn(y, a) = Turn(x, a)
  <2>1. ~Resumed(x, a)
    BY <1>4 DEF Resumed, InReady, TurnOf
  <2>2. ~Resumed(y, a)
    BY <1>2, <1>5 DEF Resumed, TurnOf
  <2> QED BY <2>1, <2>2 DEF Turn
<1>9. ASSUME NEW b \in {"R", "V"}, b # a
      PROVE  Once(y, b) /\ Turn(y, b) = Turn(x, b)
  <2>1. \A i \in 1..Len(y.ready) : i \in 1..n \/ ~TurnOf(y.ready[i], b)
    <3>1. y.ready[n + 1].got[1] = a
      BY <1>1, <1>2
    <3> QED BY <1>2, <1>9, <3>1 DEF TurnOf
  <2>2. Once(x, b)
    BY DEF OneEach
  <2> QED BY <1>2, <2>1, <2>2, TurnStays
<1>10. Late(y) => Late(x)
  BY <1>2 DEF Late
<1>11. OneEach(y)
  BY <1>7, <1>9 DEF OneEach
<1> QED BY <1>2, <1>3, <1>8, <1>9, <1>10, <1>11 DEF y, g

(* A read is started, or the oldest one is over.                           *)
LEMMA SameTurns ==
  ASSUME NEW x, NEW y, y.ready = x.ready
  PROVE  /\ \A a : Turn(y, a) = Turn(x, a) /\ (InReady(y, a) <=> InReady(x, a))
         /\ Late(y) <=> Late(x)
         /\ NoMessage(y) <=> NoMessage(x)
         /\ Draining(y) <=> Draining(x)
BY DEF Turn, Resumed, InReady, Late, NoMessage, Draining

LEMMA ReadStarts ==
  ASSUME NEW x \in ServerWorkers, OneEach(x), NEW a \in {"R", "V"}, Free(x, a)
  PROVE  LET y == [x EXCEPT !.reads = Append(@, a)] IN
           /\ y \in ServerWorkers /\ OneEach(y) /\ y.ready = x.ready
           /\ \A b : Turn(y, b) = Turn(x, b)
           /\ Late(y) => Late(x)
           /\ \A b : Reading(y, b) <=> Reading(x, b) \/ b = a
           /\ First(y) = IF First(x) = "none" THEN a ELSE First(x)
           /\ y.backlog = x.backlog
           /\ Mild(x, y) /\ SameFlags(x, y) /\ y.pc = x.pc
<1> DEFINE y == [x EXCEPT !.reads = Append(@, a)]
           n == Len(x.reads)
<1>1. x.reads \in Seq({"R", "V"})
  BY DEF ServerWorkers
<1> DEFINE q == Append(x.reads, a)
<1>2. /\ q \in Seq({"R", "V"}) /\ n \in Nat /\ Len(q) = n + 1 /\ q[n + 1] = a
      /\ \A i \in 1..n : q[i] = x.reads[i]
  BY <1>1, AppendProperties
<1>3. y = [x EXCEPT !.reads = q]
  OBVIOUS
<1> HIDE DEF y, q
<1>4. /\ y \in ServerWorkers /\ y.reads = q /\ y.ready = x.ready
      /\ y.backlog = x.backlog /\ y.pc = x.pc
  BY <1>2, <1>3 DEF ServerWorkers
<1>5. SameFlags(x, y)
  BY <1>3 DEF ServerWorkers, SameFlags
<1>6. Mild(x, y) /\ (\A b : Turn(y, b) = Turn(x, b)) /\ (Late(y) => Late(x))
      /\ \A b : InReady(y, b) <=> InReady(x, b)
  BY <1>4, SameTurns DEF Mild
<1>7. /\ \A i \in 1..Len(y.reads) : (i \in 1..n /\ y.reads[i] = x.reads[i]) \/ i = n + 1
      /\ \A i \in 1..n : i \in 1..Len(y.reads) /\ y.reads[i] = x.reads[i]
      /\ n + 1 \in 1..Len(y.reads) /\ y.reads[n + 1] = a /\ n + 1 \notin 1..n
  <2> HIDE DEF n
  <2> QED BY <1>2, <1>4 DEF n
<1>8. \A b : Reading(y, b) <=> Reading(x, b) \/ b = a
  BY <1>7 DEF Reading
<1>9. ~InReady(x, a) /\ ~Reading(x, a) /\ ~InBacklog(x, a) /\ Once(x, a)
  BY DEF Free, OneEach
<1>10. \A b : InBacklog(y, b) <=> InBacklog(x, b)
  BY <1>4 DEF InBacklog
<1>11. ASSUME NEW b \in {"R", "V"} PROVE Once(y, b)
  <2>1. Once(x, b)
    BY DEF OneEach
  <2>2. ~(InReady(y, b) /\ Reading(y, b)) /\ ~(InReady(y, b) /\ InBacklog(y, b))
        /\ ~(Reading(y, b) /\ InBacklog(y, b))
    <3>1. CASE b = a
      BY <1>6, <1>8, <1>9, <1>10, <3>1
    <3>2. CASE b # a
      BY <1>6, <1>8, <1>10, <2>1, <3>2 DEF Once
    <3> QED BY <3>1, <3>2
  <2>3. ASSUME NEW i \in 1..Len(y.reads), NEW j \in 1..Len(y.reads),
               y.reads[i] = b, y.reads[j] = b
        PROVE  i = j
    <3>1. CASE b = a
      <4>1. \A k \in 1..n : x.reads[k] # a
        BY <1>9 DEF Reading
      <4> QED BY <1>7, <2>3, <3>1, <4>1
    <3>2. CASE b # a
      <4>1. /\ i \in 1..n /\ j \in 1..n
            /\ x.reads[i] = b /\ x.reads[j] = b
        BY <1>7, <2>3, <3>2
      <4> QED BY <2>1, <4>1 DEF Once
    <3> QED BY <3>1, <3>2
  <2> QED BY <1>4, <2>1, <2>2, <2>3 DEF Once
<1>12. First(y) = IF First(x) = "none" THEN a ELSE First(x)
  <2>1. Reading(y, "R") \/ Reading(y, "V")
    BY <1>8
  <2>2. First(y) = y.reads[1]
    BY <2>1 DEF First
  <2>3. CASE Reading(x, "R") \/ Reading(x, "V")
    <3>1. 1 \in 1..n
      <4>1. \E i \in 1..n : TRUE
        BY <2>3 DEF Reading
      <4> HIDE DEF n
      <4> QED BY <1>2, <4>1
    <3>2. First(x) = x.reads[1] /\ y.reads[1] = x.reads[1] /\ x.reads[1] \in {"R", "V"}
      BY <1>1, <1>7, <2>3, <3>1 DEF First
    <3> QED BY <2>2, <3>2
  <2>4. CASE ~(Reading(x, "R") \/ Reading(x, "V"))
    <3>1. n = 0
      <4>1. \A i \in 1..n : FALSE
        <5>1. \A i \in 1..n : x.reads[i] \in {"R", "V"}
          BY <1>1
        <5> QED BY <2>4, <5>1 DEF Reading
      <4> HIDE DEF n
      <4> QED BY <1>2, <4>1
    <3>2. n + 1 = 1
      BY <3>1
    <3>3. y.reads[1] = a /\ First(x) = "none"
      BY <1>7, <2>4, <3>2 DEF First
    <3> QED BY <2>2, <3>3
  <2> QED BY <2>3, <2>4
<1>13. OneEach(y)
  BY <1>11 DEF OneEach
<1> QED BY <1>4, <1>5, <1>6, <1>8, <1>12, <1>13 DEF y

LEMMA ReadEnded ==
  ASSUME NEW x \in ServerWorkers, OneEach(x), x.reads # <<>>
  PROVE  LET y == [x EXCEPT !.reads = Tail(@)] a == Head(x.reads) IN
           /\ y \in ServerWorkers /\ OneEach(y) /\ y.ready = x.ready /\ a \in {"R", "V"}
           /\ \A b : Turn(y, b) = Turn(x, b)
           /\ Late(y) <=> Late(x)
           /\ Free(y, a) /\ Reading(x, a) /\ First(x) = a /\ Turn(x, a) = Nil
           /\ \A b : Reading(y, b) <=> Reading(x, b) /\ b # a
           /\ \A b : Reading(y, b) => First(y) = b
           /\ y.backlog = x.backlog
           /\ Mild(x, y) /\ SameFlags(x, y) /\ y.pc = x.pc
<1> DEFINE y == [x EXCEPT !.reads = Tail(@)]
           a == Head(x.reads)
           q == Tail(x.reads)
<1>1. x.reads \in Seq({"R", "V"})
  BY DEF ServerWorkers
<1>2. /\ a \in {"R", "V"} /\ a = x.reads[1] /\ 1 \in 1..Len(x.reads)
      /\ q \in Seq({"R", "V"}) /\ Len(q) = Len(x.reads) - 1 /\ Len(x.reads) \in Nat
      /\ \A i \in 1..Len(q) : i + 1 \in 1..Len(x.reads) /\ q[i] = x.reads[i + 1]
  BY <1>1, PopSeq
<1>3. y = [x EXCEPT !.reads = q]
  OBVIOUS
<1> HIDE DEF y, q, a
<1>4. /\ y \in ServerWorkers /\ y.reads = q /\ y.ready = x.ready
      /\ y.backlog = x.backlog /\ y.pc = x.pc
  BY <1>2, <1>3 DEF ServerWorkers
<1>5. SameFlags(x, y)
  BY <1>3 DEF ServerWorkers, SameFlags
<1>6. Mild(x, y) /\ (\A b : Turn(y, b) = Turn(x, b)) /\ (Late(y) <=> Late(x))
      /\ \A b : InReady(y, b) <=> InReady(x, b)
  BY <1>4, SameTurns DEF Mild
<1>7. Reading(x, a) /\ First(x) = a
  BY <1>2 DEF Reading, First
<1>8. Once(x, a)
  BY <1>2 DEF OneEach
<1>9. ~InReady(x, a) /\ ~InBacklog(x, a)
  BY <1>7, <1>8 DEF Once
<1>10. \A i \in 1..Len(y.reads) : i + 1 \in 1..Len(x.reads) /\ y.reads[i] = x.reads[i + 1]
                                  /\ i + 1 # 1 /\ i \in Nat
  BY <1>2, <1>4
<1>11. ~Reading(y, a)
  <2>1. \A i \in 1..Len(x.reads) : x.reads[i] = a => i = 1
    BY <1>2, <1>8 DEF Once
  <2> QED BY <1>10, <2>1 DEF Reading
<1>12. \A b : InBacklog(y, b) <=> InBacklog(x, b)
  BY <1>4 DEF InBacklog
<1>13. ASSUME NEW b, b # a, Reading(x, b)
       PROVE  Reading(y, b)
  <2>1. PICK i \in 1..Len(x.reads) : x.reads[i] = b
    BY <1>13 DEF Reading
  <2>2. i # 1
    BY <1>2, <1>13, <2>1
  <2>3. i - 1 \in 1..Len(q) /\ (i - 1) + 1 = i
    BY <1>2, <2>1, <2>2
  <2>4. q[i - 1] = b
    BY <1>2, <2>1, <2>3
  <2> QED BY <1>4, <2>3, <2>4 DEF Reading
<1>14. \A b : Reading(y, b) <=> Reading(x, b) /\ b # a
  <2>1. \A b : Reading(y, b) => Reading(x, b)
    BY <1>10 DEF Reading
  <2> QED BY <1>11, <1>13, <2>1
<1>15. ASSUME NEW b \in {"R", "V"} PROVE Once(y, b)
  <2>1. Once(x, b)
    BY DEF OneEach
  <2>2. ~(InReady(y, b) /\ Reading(y, b)) /\ ~(InReady(y, b) /\ InBacklog(y, b))
        /\ ~(Reading(y, b) /\ InBacklog(y, b))
    BY <1>6, <1>12, <1>14, <2>1 DEF Once
  <2>3. ASSUME NEW i \in 1..Len(y.reads), NEW j \in 1..Len(y.reads),
               y.reads[i] = b, y.reads[j] = b
        PROVE  i = j
    <3>1. i + 1 = j + 1
      BY <1>10, <2>1, <2>3 DEF Once
    <3> QED BY <1>10, <3>1
  <2> QED BY <1>4, <2>1, <2>2, <2>3 DEF Once
<1>16. ASSUME NEW b, Reading(y, b) PROVE First(y) = b
  <2>1. PICK i \in 1..Len(y.reads) : y.reads[i] = b
    BY <1>16 DEF Reading
  <2>2. 1 \in 1..Len(y.reads) /\ y.reads[1] \in {"R", "V"} /\ y.reads[i] \in {"R", "V"}
    <3>1. Len(q) \in Nat
      BY <1>2
    <3>2. 1 \in 1..Len(q) /\ i \in 1..Len(q)
      BY <1>4, <2>1, <3>1
    <3> QED BY <1>2, <1>4, <3>2
  <2>3. Reading(y, y.reads[1])
    BY <2>2 DEF Reading
  <2>4. y.reads[1] = b
    BY <1>2, <1>14, <1>16, <2>1, <2>2, <2>3
  <2> QED BY <1>16, <2>1, <2>2, <2>4 DEF First
<1>17. Turn(x, a) = Nil /\ Free(y, a)
  <2>1. ~Resumed(x, a)
    BY <1>9 DEF Resumed, InReady, TurnOf
  <2>2. Turn(x, a) = Nil
    BY <2>1 DEF Turn
  <2> QED BY <1>6, <1>9, <1>11, <1>12, <2>2 DEF Free
<1>18. OneEach(y)
  BY <1>15 DEF OneEach
<1> QED BY <1>2, <1>4, <1>5, <1>6, <1>7, <1>14, <1>16, <1>17, <1>18 DEF y, a

(* The head of the queue runs.                                             *)
LEMMA Pops ==
  ASSUME NEW x \in ServerWorkers, OneEach(x), x.ready # <<>>
  PROVE  LET y == [x EXCEPT !.ready = Tail(@)] h == Head(x.ready) IN
           /\ y \in ServerWorkers /\ OneEach(y) /\ h \in ServerHandlers /\ y.reads = x.reads
           /\ y.backlog = x.backlog /\ y.waiting = x.waiting
           /\ \A a \in {"R", "V"} : TurnOf(h, a) => Free(y, a)
           /\ \A a \in {"R", "V"} : h.to = a => Turn(x, a) = h.got /\ Turn(y, a) = Nil
           /\ \A a \in {"R", "V"} : h.to # a => Turn(y, a) = Turn(x, a)
           /\ \A a \in {"R", "V"} : Free(x, a) => Free(y, a)
           /\ Late(y) => Late(x)
           /\ h.to = "R" => ~Late(x)
           /\ h.to = "V" /\ Turn(x, "R") # Nil => Late(x)
           /\ h.to = "drain" => Draining(x)
           /\ Mild(x, y) /\ SameFlags(x, y) /\ y.pc = x.pc
<1> DEFINE y == [x EXCEPT !.ready = Tail(@)]
           h == Head(x.ready)
           q == Tail(x.ready)
<1>1. x.ready \in Seq(ServerHandlers)
  BY DEF ServerWorkers
<1>2. /\ h \in ServerHandlers /\ h = x.ready[1] /\ 1 \in 1..Len(x.ready)
      /\ q \in Seq(ServerHandlers) /\ Len(q) = Len(x.ready) - 1 /\ Len(x.ready) \in Nat
      /\ \A i \in 1..Len(q) : i + 1 \in 1..Len(x.ready) /\ q[i] = x.ready[i + 1]
  BY <1>1, PopSeq
<1>3. y = [x EXCEPT !.ready = q]
  OBVIOUS
<1> HIDE DEF y, q, h
<1>4. /\ y \in ServerWorkers /\ y.ready = q /\ y.reads = x.reads
      /\ y.backlog = x.backlog /\ y.pc = x.pc /\ y.waiting = x.waiting
  BY <1>2, <1>3 DEF ServerWorkers
<1>5. SameFlags(x, y)
  BY <1>3 DEF ServerWorkers, SameFlags
<1>6. \A i \in 1..Len(y.ready) : /\ i + 1 \in 1..Len(x.ready) /\ y.ready[i] = x.ready[i + 1]
                                 /\ i + 1 # 1 /\ i \in Nat
  BY <1>2, <1>4
<1>7. \A i \in 1..Len(x.ready) : i # 1 => i - 1 \in 1..Len(y.ready)
                                          /\ y.ready[i - 1] = x.ready[i] /\ i > 1
  <2> SUFFICES ASSUME NEW i \in 1..Len(x.ready), i # 1
               PROVE  i - 1 \in 1..Len(y.ready) /\ y.ready[i - 1] = x.ready[i] /\ i > 1
    OBVIOUS
  <2>1. i - 1 \in 1..Len(y.ready) /\ (i - 1) + 1 = i /\ i > 1
    BY <1>2, <1>4
  <2> QED BY <1>6, <2>1
<1>8. Mild(x, y)
  <2>1. \A i \in 1..Len(y.ready) : \E j \in 1..Len(x.ready) : y.ready[i] = x.ready[j]
    BY <1>6
  <2> QED BY <2>1 DEF Mild, NoMessage, Draining
<1>9. \A a : /\ Reading(y, a) <=> Reading(x, a)
             /\ InBacklog(y, a) <=> InBacklog(x, a)
             /\ InReady(y, a) => InReady(x, a)
  BY <1>4, <1>6 DEF Reading, InBacklog, InReady
<1>10. ASSUME NEW a \in {"R", "V"} PROVE Once(y, a)
  <2>1. Once(x, a)
    BY DEF OneEach
  <2>2. ASSUME NEW i \in 1..Len(y.ready), NEW j \in 1..Len(y.ready),
               TurnOf(y.ready[i], a), TurnOf(y.ready[j], a)
        PROVE  i = j
    <3>1. i + 1 = j + 1
      BY <1>6, <2>1, <2>2 DEF Once
    <3> QED BY <1>6, <3>1
  <2> QED BY <1>4, <1>9, <2>1, <2>2 DEF Once
<1>11. ASSUME NEW a \in {"R", "V"}, TurnOf(h, a) PROVE Free(y, a)
  <2>1. Once(x, a) /\ InReady(x, a)
    BY <1>2, <1>11 DEF OneEach, InReady
  <2>2. \A i \in 1..Len(x.ready) : TurnOf(x.ready[i], a) => i = 1
    BY <1>2, <1>11, <2>1 DEF Once
  <2>3. ~InReady(y, a)
    BY <1>6, <2>2 DEF InReady
  <2> QED BY <1>9, <2>1, <2>3 DEF Free, Once
<1>12. ASSUME NEW a \in {"R", "V"}, h.to = a PROVE Turn(x, a) = h.got /\ Turn(y, a) = Nil
  <2>1. Once(x, a) /\ ~Resumed(y, a)
    BY <1>11, <1>12 DEF OneEach, Free, Resumed, InReady, TurnOf
  <2>2. Turn(x, a) = x.ready[1].got
    <3>1. 1 \in 1..Len(x.ready) /\ x.ready[1].to = a
      BY <1>2, <1>12
    <3> QED BY <2>1, <3>1, TurnIs, Zenon
  <2>3. Turn(y, a) = Nil
    BY <2>1 DEF Turn
  <2> QED BY <1>2, <2>2, <2>3
<1>13. ASSUME NEW a \in {"R", "V"}, h.to # a PROVE Turn(y, a) = Turn(x, a)
  <2>1. Once(x, a) /\ Once(y, a)
    BY <1>10 DEF OneEach
  <2>2. CASE Resumed(x, a)
    <3>1. PICK i \in 1..Len(x.ready) : x.ready[i].to = a
      BY <2>2 DEF Resumed
    <3>2. i - 1 \in 1..Len(y.ready) /\ y.ready[i - 1] = x.ready[i]
      BY <1>2, <1>7, <1>13, <3>1
    <3> QED BY <1>4, <2>1, <3>1, <3>2, TurnIs
  <2>3. CASE ~Resumed(x, a)
    <3>1. ~Resumed(y, a)
      BY <1>6, <2>3 DEF Resumed
    <3> QED BY <2>3, <3>1 DEF Turn
  <2> QED BY <2>2, <2>3
<1>14. Late(y) => Late(x)
  <2> SUFFICES ASSUME NEW i \in 1..Len(y.ready), NEW j \in 1..Len(y.ready), i < j,
                      y.ready[i].to = "V", y.ready[j].to = "R"
               PROVE  Late(x)
    BY DEF Late
  <2>1. i + 1 < j + 1
    BY <1>6
  <2> QED BY <1>6, <2>1 DEF Late
<1>15. h.to = "R" => ~Late(x)
  <2> SUFFICES ASSUME h.to = "R", NEW i \in 1..Len(x.ready), NEW j \in 1..Len(x.ready), i < j,
                      x.ready[j].to = "R"
               PROVE  FALSE
    BY DEF Late
  <2>1. j = 1
    BY <1>2 DEF OneEach, Once, TurnOf
  <2> QED BY <1>2, <2>1
<1>16. h.to = "V" /\ Turn(x, "R") # Nil => Late(x)
  <2> SUFFICES ASSUME h.to = "V", Turn(x, "R") # Nil PROVE Late(x)
    OBVIOUS
  <2>1. Resumed(x, "R")
    BY DEF Turn
  <2>2. PICK j \in 1..Len(x.ready) : x.ready[j].to = "R"
    BY <2>1 DEF Resumed
  <2>3. j # 1
    BY <1>2, <2>2
  <2>4. 1 < j
    BY <1>2, <2>2, <2>3
  <2> QED BY <1>2, <2>2, <2>4 DEF Late
<1>17. h.to = "drain" => Draining(x)
  BY <1>2 DEF Draining
<1>18. OneEach(y) /\ \A a \in {"R", "V"} : Free(x, a) => Free(y, a)
  BY <1>9, <1>10 DEF OneEach, Free
<1> QED BY <1>2, <1>4, <1>5, <1>8, <1>11, <1>12, <1>13, <1>14, <1>15, <1>16, <1>17, <1>18
        DEF y, h

(* recv_msg: a asks for a chunk, or is told that the socket is closed.     *)
LEMMA AsksForChunk ==
  ASSUME NEW x \in ServerWorkers, OneEach(x), NEW a \in {"R", "V"}, Free(x, a),
         NEW l \in ServerPcs
  PROVE  LET y == S!StartRead(x, a, l) IN
           /\ y \in ServerWorkers /\ OneEach(y)
           /\ \A b \in {"R", "V"} : b # a => Turn(y, b) = Turn(x, b)
                                             /\ (Reading(y, b) <=> Reading(x, b))
           /\ \A b \in {"R", "S", "V"} : y.pc[b] = IF b = a THEN l ELSE x.pc[b]
           /\ Mild(x, y) /\ SameFlags(x, y)
           /\ IF x.sock = "open"
              THEN /\ Turn(y, a) = Nil /\ Reading(y, a)
                   /\ First(y) = IF First(x) = "none" THEN a ELSE First(x)
                   /\ Late(y) => Late(x)
              ELSE /\ Turn(y, a) = S!Error /\ ~Reading(y, a) /\ y.reads = x.reads
                   /\ a = "V" => ~Late(y)
<1> DEFINE z == S!GoTo(x, a, l)
           y1 == [z EXCEPT !.reads = Append(@, a)]
           y2 == S!Post(z, a, S!Error)
<1>1. S!StartRead(x, a, l) = IF x.sock = "open" THEN y1 ELSE y2
  BY DEF S!StartRead
<1>2. /\ z \in ServerWorkers /\ SameFlags(x, z) /\ Mild(x, z)
      /\ \A b \in {"R", "S", "V"} : z.pc[b] = IF b = a THEN l ELSE x.pc[b]
      /\ z.ready = x.ready /\ z.reads = x.reads /\ z.backlog = x.backlog
  BY MoveFlags DEF Quietly
<1> HIDE DEF z
<1>3. /\ \A b : Turn(z, b) = Turn(x, b) /\ (InReady(z, b) <=> InReady(x, b))
      /\ Late(z) <=> Late(x)
  BY <1>2, SameTurns
<1>4. \A b : (Reading(z, b) <=> Reading(x, b)) /\ (InBacklog(z, b) <=> InBacklog(x, b))
  BY <1>2 DEF Reading, InBacklog
<1>5. First(z) = First(x)
  BY <1>2, <1>4 DEF First
<1>6. Free(z, a) /\ OneEach(z) /\ Turn(z, a) = Nil /\ ~Reading(z, a)
  <2>1. ~Resumed(x, a) /\ ~Reading(x, a)
    BY DEF Free, InReady, Resumed, TurnOf
  <2>2. Free(z, a) /\ OneEach(z)
    BY <1>2, <1>3, <1>4 DEF OneEach, Once, Free
  <2> QED BY <1>3, <1>4, <2>1, <2>2 DEF Turn
<1>7. CASE x.sock = "open"
  <2>1. /\ y1 \in ServerWorkers /\ OneEach(y1)
        /\ \A b : Turn(y1, b) = Turn(z, b)
        /\ Late(y1) => Late(z)
        /\ \A b : Reading(y1, b) <=> Reading(z, b) \/ b = a
        /\ First(y1) = IF First(z) = "none" THEN a ELSE First(z)
        /\ Mild(z, y1) /\ SameFlags(z, y1) /\ y1.pc = z.pc
    BY <1>2, <1>6, ReadStarts
  <2> HIDE DEF y1
  <2>2. Mild(x, y1) /\ SameFlags(x, y1)
    BY <1>2, <2>1 DEF Mild, SameFlags
  <2> QED BY <1>1, <1>2, <1>3, <1>4, <1>5, <1>6, <1>7, <2>1, <2>2
<1>8. CASE x.sock # "open"
  <2>1. S!Error \in Reply
    BY PlainReplies
  <2>2. /\ y2 \in ServerWorkers /\ OneEach(y2) /\ Turn(y2, a) = S!Error
        /\ \A b \in {"R", "V"} : b # a => Turn(y2, b) = Turn(z, b)
        /\ a = "V" => ~Late(y2)
        /\ y2.reads = z.reads
        /\ Mild(z, y2) /\ SameFlags(z, y2) /\ y2.pc = z.pc
    BY <1>2, <1>6, <2>1, PostsTurn
  <2> HIDE DEF y2
  <2>3. Mild(x, y2) /\ SameFlags(x, y2)
    BY <1>2, <2>2 DEF Mild, SameFlags
  <2>4. \A b : Reading(y2, b) <=> Reading(z, b)
    BY <2>2 DEF Reading
  <2> QED BY <1>1, <1>2, <1>3, <1>4, <1>6, <1>8, <2>2, <2>3, <2>4
<1> QED BY <1>7, <1>8

(* to_send_ keeps what nobody waits for, and gives up its oldest.          *)
LEMMA Backlogs ==
  ASSUME NEW x \in ServerWorkers, OneEach(x), NEW p \in Provided, Free(x, p[1])
  PROVE  LET y == [x EXCEPT !.backlog = Append(@, p)] IN
           /\ y \in ServerWorkers /\ OneEach(y) /\ y.ready = x.ready
           /\ \A b : Turn(y, b) = Turn(x, b)
           /\ Late(y) => Late(x)
           /\ y.reads = x.reads
           /\ Mild(x, y) /\ SameFlags(x, y) /\ y.pc = x.pc
<1> DEFINE y == [x EXCEPT !.backlog = Append(@, p)]
           n == Len(x.backlog)
           a == p[1]
<1>1. x.backlog \in Seq(Provided)
  BY DEF ServerWorkers
<1> DEFINE q == Append(x.backlog, p)
<1>2. /\ q \in Seq(Provided) /\ n \in Nat /\ Len(q) = n + 1 /\ q[n + 1] = p
      /\ \A i \in 1..n : q[i] = x.backlog[i]
  BY <1>1, AppendProperties
<1>3. y = [x EXCEPT !.backlog = q]
  OBVIOUS
<1> HIDE DEF y, q
<1>4. /\ y \in ServerWorkers /\ y.backlog = q /\ y.ready = x.ready
      /\ y.reads = x.reads /\ y.pc = x.pc
  BY <1>2, <1>3 DEF ServerWorkers
<1>5. SameFlags(x, y)
  BY <1>3 DEF ServerWorkers, SameFlags
<1>6. Mild(x, y) /\ (\A b : Turn(y, b) = Turn(x, b)) /\ (Late(y) => Late(x))
      /\ \A b : InReady(y, b) <=> InReady(x, b)
  BY <1>4, SameTurns DEF Mild
<1>7. /\ \A i \in 1..Len(y.backlog) : (i \in 1..n /\ y.backlog[i] = x.backlog[i])
                                      \/ (i = n + 1 /\ y.backlog[i] = p)
  <2> HIDE DEF n
  <2> QED BY <1>2, <1>4 DEF n
<1>8. \A b : InBacklog(y, b) => InBacklog(x, b) \/ b = a
  BY <1>7 DEF InBacklog
<1>9. ~InReady(x, a) /\ ~Reading(x, a) /\ ~InBacklog(x, a)
  BY DEF Free
<1>10. \A b : Reading(y, b) <=> Reading(x, b)
  BY <1>4 DEF Reading
<1> HIDE DEF a
<1>11. ASSUME NEW b \in {"R", "V"} PROVE Once(y, b)
  <2>1. Once(x, b)
    BY DEF OneEach
  <2>2. ~(InReady(y, b) /\ Reading(y, b)) /\ ~(InReady(y, b) /\ InBacklog(y, b))
        /\ ~(Reading(y, b) /\ InBacklog(y, b))
    <3>1. CASE b = a
      BY <1>6, <1>9, <1>10, <3>1
    <3>2. CASE b # a
      BY <1>6, <1>8, <1>10, <2>1, <3>2 DEF Once
    <3> QED BY <3>1, <3>2
  <2>3. ASSUME NEW i \in 1..Len(y.backlog), NEW j \in 1..Len(y.backlog),
               y.backlog[i][1] = b, y.backlog[j][1] = b
        PROVE  i = j
    <3>1. CASE b = a
      <4>1. \A k \in 1..n : x.backlog[k][1] # a
        BY <1>9 DEF InBacklog
      <4> QED BY <1>7, <2>3, <3>1, <4>1
    <3>2. CASE b # a
      <4>1. /\ i \in 1..n /\ j \in 1..n
            /\ x.backlog[i][1] = b /\ x.backlog[j][1] = b
        BY <1>7, <2>3, <3>2 DEF a
      <4> QED BY <2>1, <4>1 DEF Once
    <3> QED BY <3>1, <3>2
  <2> QED BY <1>4, <2>1, <2>2, <2>3 DEF Once
<1>12. OneEach(y)
  BY <1>11 DEF OneEach
<1> QED BY <1>4, <1>5, <1>6, <1>12 DEF y

LEMMA Unbacklogs ==
  ASSUME NEW x \in ServerWorkers, OneEach(x), x.backlog # <<>>
  PROVE  LET y == [x EXCEPT !.backlog = Tail(@)] p == Head(x.backlog) IN
           /\ y \in ServerWorkers /\ OneEach(y) /\ y.ready = x.ready /\ p \in Provided
           /\ \A b : Turn(y, b) = Turn(x, b)
           /\ Late(y) => Late(x)
           /\ Free(y, p[1]) /\ y.reads = x.reads
           /\ Mild(x, y) /\ SameFlags(x, y) /\ y.pc = x.pc
<1> DEFINE y == [x EXCEPT !.backlog = Tail(@)]
           p == Head(x.backlog)
           q == Tail(x.backlog)
           a == p[1]
<1>1. x.backlog \in Seq(Provided)
  BY DEF ServerWorkers
<1>2. /\ p \in Provided /\ p = x.backlog[1] /\ 1 \in 1..Len(x.backlog)
      /\ q \in Seq(Provided) /\ Len(q) = Len(x.backlog) - 1 /\ Len(x.backlog) \in Nat
      /\ \A i \in 1..Len(q) : i + 1 \in 1..Len(x.backlog) /\ q[i] = x.backlog[i + 1]
  BY <1>1, PopSeq
<1>3. y = [x EXCEPT !.backlog = q]
  OBVIOUS
<1> HIDE DEF y, q, p
<1>4. /\ y \in ServerWorkers /\ y.backlog = q /\ y.ready = x.ready
      /\ y.reads = x.reads /\ y.pc = x.pc
  BY <1>2, <1>3 DEF ServerWorkers
<1>5. SameFlags(x, y)
  BY <1>3 DEF ServerWorkers, SameFlags
<1>6. Mild(x, y) /\ (\A b : Turn(y, b) = Turn(x, b)) /\ (Late(y) => Late(x))
      /\ \A b : InReady(y, b) <=> InReady(x, b)
  BY <1>4, SameTurns DEF Mild
<1>7. \A i \in 1..Len(y.backlog) : i + 1 \in 1..Len(x.backlog)
                                   /\ y.backlog[i] = x.backlog[i + 1] /\ i + 1 # 1 /\ i \in Nat
  BY <1>2, <1>4
<1>8. \A b : InBacklog(y, b) => InBacklog(x, b)
  BY <1>7 DEF InBacklog
<1>9. \A b : Reading(y, b) <=> Reading(x, b)
  BY <1>4 DEF Reading
<1>10. a \in {"R", "V"} /\ InBacklog(x, a)
  <2>1. a \in {"R", "V"}
    BY <1>2 DEF Provided
  <2> QED BY <1>2, <2>1 DEF InBacklog
<1>11. Once(x, a)
  BY <1>10 DEF OneEach
<1>12. Free(y, a)
  <2>1. \A i \in 1..Len(x.backlog) : x.backlog[i][1] = a => i = 1
    BY <1>2, <1>11 DEF Once
  <2>2. ~InBacklog(y, a)
    BY <1>7, <2>1 DEF InBacklog
  <2> HIDE DEF a
  <2> QED BY <1>6, <1>9, <1>10, <1>11, <2>2 DEF Free, Once
<1>13. ASSUME NEW b \in {"R", "V"} PROVE Once(y, b)
  <2>1. Once(x, b)
    BY DEF OneEach
  <2>2. ~(InReady(y, b) /\ Reading(y, b)) /\ ~(InReady(y, b) /\ InBacklog(y, b))
        /\ ~(Reading(y, b) /\ InBacklog(y, b))
    BY <1>6, <1>8, <1>9, <2>1 DEF Once
  <2>3. ASSUME NEW i \in 1..Len(y.backlog), NEW j \in 1..Len(y.backlog),
               y.backlog[i][1] = b, y.backlog[j][1] = b
        PROVE  i = j
    <3>1. i + 1 = j + 1
      BY <1>7, <2>1, <2>3 DEF Once
    <3> QED BY <1>7, <3>1
  <2> QED BY <1>4, <2>1, <2>2, <2>3 DEF Once
<1>14. OneEach(y)
  BY <1>13 DEF OneEach
<1> QED BY <1>2, <1>4, <1>5, <1>6, <1>12, <1>14 DEF y, p

-----------------------------------------------------------------------------
(* What moves neither R's nor V's coroutine leaves the phases as they are: *)
(* it may abort what they wait for, or have to_send_ take what they gave.  *)

SoundStays == ~Sound => ~Sound'
Told(a) == /\ Turn(w, a) = Nil /\ Turn(w', a) \in {S!Ok, S!Error}
           /\ Turn(w', a) = S!Ok => ~w.sendClosed
VisitStands ==
  /\ w'.pc["V"] = w.pc["V"]
  /\ w'.visited = w.visited /\ w'.confirmed = w.confirmed
  /\ w.stopping => w'.stopping
Stands == VisitStands /\ w'.pc["R"] = w.pc["R"]

LEMMA FlagsCarry ==
  ASSUME ServerFlags, VisitStands,
         w'.pc["R"] = "start" => w.pc["R"] = "start",
         w.visited => w'.sendClosed = w.sendClosed /\ w'.sock = w.sock,
         w'.sendClosed => w.sendClosed \/ w'.stopping, w.sendClosed => w'.sendClosed,
         w'.sock = w.sock \/ w'.stopping,
         ~S!Alive => \A a \in {"R", "S", "D"} : w'.pc[a] = w.pc[a],
         NoMessage(w) /\ w.sendClosed => NoMessage(w'),
         Draining(w') => Draining(w) \/ w'.sendClosed
  PROVE  ServerFlags'
<1>1. ~S!Alive => ~S!Alive'
  BY DEF S!Alive, S!Coroutines, VisitStands
<1>2. Draining(w') => w'.sendClosed
  BY DEF ServerFlags, Draining
<1>3. \A p \in {"confirmed", "handed"} : w'.pc["V"] = p => NoMessage(w')
  BY DEF ServerFlags, VisitStands
<1>4. w'.pc["V"] \in {"none", "start"} /\ w'.sock # "open" => w'.stopping \/ ~S!Alive'
  BY <1>1 DEF ServerFlags, VisitStands
<1>5. w.visited <=> w.pc["V"] \notin {"none", "start"}
  BY DEF ServerFlags
<1>6. w'.pc["V"] \in Visiting => w'.sock = "open"
  BY <1>5 DEF ServerFlags, VisitStands, Visiting
<1>7. w'.pc["V"] \in {"none", "start", "providing"} /\ w'.sendClosed => w'.stopping
  BY <1>5 DEF ServerFlags, VisitStands
<1> QED BY <1>2, <1>3, <1>4, <1>5, <1>6, <1>7 DEF ServerFlags, VisitStands, Draining

LEMMA Replies ==
  /\ Nil # S!Ok /\ Nil # S!Error /\ S!Ok # S!Error
  /\ S!Ok \notin Chunk /\ S!Error \notin Chunk /\ Nil \notin Chunk
  /\ Ping # S!Ok /\ Ping # S!Error /\ Ping # Nil /\ Ping \in Chunk
  /\ S!Ok # Ping
  /\ \A got \in {S!Part, S!Torn} :
       /\ got \in Reply /\ got \notin Chunk /\ got[2] = "none"
       /\ got # Nil /\ got # S!Ok /\ got # S!Error /\ got # Ping
  /\ S!Part # S!Torn
BY DEF S!Ok, S!Error, Nil, Ping, Chunk, S!Part, S!Torn, Reply

LEMMA Carries ==
  ASSUME ServerFlags, Phases, Stands, SoundStays, w'.length = w.length, w'.torn = w.torn,
         UNCHANGED <<up, upRead>>,
         \A a \in {"R", "V"} : Turn(w', a) = Turn(w, a) \/ Told(a),
         Turn(w', "V") = S!Error => Turn(w, "V") = S!Error \/ ~Sound'
                                    \/ w.pc["V"] \in {"none", "start"},
         Late(w') => Late(w) \/ Turn(w', "R") \notin Chunk,
         w.pc["V"] = "providing" =>
           ~(Turn(w', "V") = S!Ok /\ Turn(w', "R") = S!Ok /\ Late(w')),
         w'.reads = w.reads \/ (w'.reads = <<>> /\ ~w.visited)
  PROVE  Phases'
<1>1. /\ Turn(w', "R") = Turn(w, "R") \/ Told("R")
      /\ Turn(w', "V") = Turn(w, "V") \/ Told("V")
  OBVIOUS
<1>2. /\ \A a : Reading(w', a) => Reading(w, a)
      /\ w.visited => (\A a : Reading(w', a) <=> Reading(w, a)) /\ First(w') = First(w)
  <2>1. Len(<<>>) = 0
    BY EmptySeq
  <2> QED BY <2>1 DEF Reading, First
<1>3. /\ Reading(w', "R") => Reading(w, "R")
      /\ Reading(w', "V") => Reading(w, "V")
      /\ w.visited => /\ Reading(w', "R") <=> Reading(w, "R")
                      /\ Reading(w', "V") <=> Reading(w, "V")
                      /\ First(w') = First(w)
  BY <1>2
<1>4. /\ w.pc["V"] \notin {"none", "start"} => w.visited
      /\ w.pc["V"] \in {"length", "body", "confirmed", "handed"} => w.sendClosed
  BY DEF ServerFlags
<1>5. /\ \A a \in {"R", "V"} : \A got \in {S!Part, S!Torn} : Turn(w', a) = got => Turn(w, a) = got
      /\ \A a \in {"R", "V"} : Turn(w', a) \in Chunk => Turn(w', a) = Turn(w, a)
  BY <1>1, Replies DEF Told
<1>6. /\ Holds => Holds'
      /\ Takes => Takes'
      /\ (InStep <=> InStep') /\ (AtLength <=> AtLength') /\ (Unconfirmed <=> Unconfirmed')
      /\ Scattered <=> Scattered'
  <2>1. Holds => Holds'
    BY <1>1, Replies DEF Holds, Told, Stands, VisitStands
  <2>2. Takes => Takes'
    BY <1>1, Replies DEF Takes, Told, Stands, VisitStands
  <2>3. /\ (InStep <=> InStep') /\ (AtLength <=> AtLength') /\ (Unconfirmed <=> Unconfirmed')
        /\ Scattered <=> Scattered'
    BY DEF InStep, AtLength, Unconfirmed, Confirmed, Stands, VisitStands, Scattered
  <2> QED BY <2>1, <2>2, <2>3
<1>7. Reads("R")' => Reads("R")
  BY <1>3, <1>5 DEF Reads
<1>8. Reads("V")' => Reads("V")
  BY <1>3, <1>5 DEF Reads
<1>9. Parts'
  BY <1>5, <1>6 DEF Phases, Parts, Stands, VisitStands
<1>10. BeforeVisit'
  <2>1. CASE w.pc["V"] \in {"none", "start", "providing"}
    <3>1. /\ w'.torn # "V" /\ ~Reading(w', "V")
          /\ Reads("R")' => InStep'
      BY <1>3, <1>6, <1>7, <2>1 DEF Phases, BeforeVisit
    <3>2. /\ Turn(w', "R") \in Chunk /\ w'.pc["R"] = "length" =>
               Takes' /\ ~AtLength' /\ Unconfirmed'
          /\ Turn(w', "R") \in Chunk /\ w'.pc["R"] = "body" =>
               AtLength' /\ w'.length["R"] # "none" /\ (Turn(w', "R") = Ping => Unconfirmed')
      BY <1>5, <1>6, <2>1 DEF Phases, BeforeVisit, Stands, VisitStands
    <3>3. /\ w'.pc["R"] \in {"start", "providing"} => AtLength' /\ Unconfirmed'
          /\ ~AtLength' => Holds' \/ Takes'
          /\ ~Unconfirmed' => Holds'
      BY <1>6, <2>1 DEF Phases, BeforeVisit, Stands, VisitStands
    <3>4. w'.pc["V"] = "providing" =>
            /\ Turn(w', "V") \in {Nil, S!Ok, S!Error}
            /\ Turn(w', "V") = S!Error => ~Sound'
            /\ Turn(w', "V") = S!Ok /\ Turn(w', "R") = S!Ok => ~Late(w')
      BY <1>1, <2>1 DEF Phases, BeforeVisit, VisitStands, Stands, Told, SoundStays
    <3> QED BY <3>1, <3>2, <3>3, <3>4 DEF BeforeVisit
  <2>2. CASE w.pc["V"] \notin {"none", "start", "providing"}
    BY <2>2 DEF BeforeVisit, Stands, VisitStands
  <2> QED BY <2>1, <2>2
<1>11. AwaitsLength'
  <2>1. CASE w.pc["V"] = "length" /\ ~Scattered
    <3>1. w.visited /\ w.sendClosed
      BY <1>4, <2>1
    <3>2. /\ Turn(w', "R") # S!Ok /\ Turn(w', "V") # S!Ok
          /\ Turn(w', "V") = S!Error => ~Sound'
      BY <1>1, <2>1, <3>1 DEF Phases, AwaitsLength, Told, SoundStays
    <3>3. Reads("V")' =>
            /\ w'.torn = "R" => (Reads("R")' => InStep')
            /\ w'.torn = "none" /\ Reading(w', "R") /\ First(w') = "R" => InStep'
            /\ Reading(w', "R") /\ (w'.torn = "V" \/ (w'.torn = "none" /\ First(w') = "V")) =>
                 ~AtLength' /\ Holds' /\ w'.pc["R"] = "body"
            /\ w'.torn # "R" /\ ~Reading(w', "R") /\ AtLength' =>
                 /\ w'.pc["R"] = "length" => Turn(w', "R") \notin Chunk
                 /\ ~Unconfirmed' => Holds'
            /\ w'.torn # "R" /\ ~Reading(w', "R") /\ ~AtLength' => Holds' \/ Takes'
      BY <1>3, <1>5, <1>6, <1>7, <1>8, <2>1, <3>1
         DEF Phases, AwaitsLength, Stands, VisitStands
    <3>4. Turn(w', "V") \in Chunk => Turn(w', "V") = Turn(w, "V")
      BY <1>5
    <3>5. Turn(w', "V") \in Chunk /\ Turn(w', "V")[2] = "length" =>
            /\ w'.torn = "none" /\ ~Reading(w', "R") /\ ~AtLength' /\ Unconfirmed'
            /\ Turn(w', "R") \in Chunk => w'.pc["R"] # "length" /\ ~Late(w')
            /\ Turn(w', "V") = up'[upRead'] /\ 0 < upRead'
      BY <1>3, <1>5, <1>6, <2>1, <3>1, <3>4 DEF Phases, AwaitsLength, Stands, VisitStands
    <3>6. Turn(w', "V") \in Chunk /\ Turn(w', "V")[2] # "length" =>
            \/ Holds' /\ (Reads("R")' => w'.pc["R"] = "body" /\ AtLength')
            \/ Takes' /\ AtLength' /\ ~Late(w')
      <4>1. Takes => Turn(w', "R") \in Chunk
        BY <1>6 DEF Takes
      <4> QED BY <1>6, <1>7, <2>1, <3>1, <3>4, <4>1 DEF Phases, AwaitsLength, Stands, VisitStands
    <3> QED BY <3>2, <3>3, <3>5, <3>6 DEF AwaitsLength
  <2>2. CASE ~(w.pc["V"] = "length" /\ ~Scattered)
    BY <1>6, <2>2 DEF AwaitsLength, Stands, VisitStands
  <2> QED BY <2>1, <2>2
<1>12. AwaitsBody'
  <2>1. CASE w.pc["V"] = "body"
    <3>1. w.visited /\ w.sendClosed
      BY <1>4, <2>1
    <3>2. /\ Turn(w', "V") # S!Ok /\ (Turn(w', "V") = S!Error => ~Sound')
          /\ Turn(w', "R") \in {Nil, S!Error}
      BY <1>1, <2>1, <3>1 DEF Phases, AwaitsBody, Told, SoundStays
    <3>3. Turn(w', "V") \in Chunk => Turn(w', "V") = Turn(w, "V")
      BY <1>5
    <3> QED BY <1>3, <1>6, <1>8, <2>1, <3>1, <3>2, <3>3
            DEF Phases, AwaitsBody, Stands, VisitStands
  <2>2. CASE w.pc["V"] # "body"
    BY <2>2 DEF AwaitsBody, Stands, VisitStands
  <2> QED BY <2>1, <2>2
<1>13. Taken'
  BY <1>1, <1>3, <1>4 DEF Phases, Taken, Stands, VisitStands, Told
<1>14. Failed'
  <2>1. w.pc["V"] = "failed" => w.visited
    BY <1>4
  <2> QED BY <1>3, <1>6, <1>7, <2>1 DEF Phases, Failed, Stands, VisitStands, SoundStays
<1> QED BY <1>9, <1>10, <1>11, <1>12, <1>13, <1>14 DEF Phases

(* The steps of send_msgs and ddl_actor, of the lambdas of to_send_, and   *)
(* what comes from outside: x is the worker on the way to the next state.  *)
Keeps(x) ==
  /\ x \in ServerWorkers /\ OneEach(x)
  /\ \A a \in {"R", "V"} : Turn(x, a) = Turn(w, a) /\ x.pc[a] = w.pc[a]
  /\ Late(x) => Late(w) \/ Turn(x, "R") = S!Error
  /\ x.reads = w.reads
  /\ Mild(w, x) /\ SameFlags(w, x)
ServerOnly == w \in ServerWorkers /\ UNCHANGED <<up, upRead, c, lost>>

LEMMA KeepsQuietly ==
  ASSUME NEW x, NEW y, Keeps(x), Quietly(x, y), SameFlags(x, y),
         y.pc["R"] = x.pc["R"], y.pc["V"] = x.pc["V"]
  PROVE  Keeps(y)
<1>1. /\ y \in ServerWorkers /\ OneEach(y) /\ y.reads = x.reads
      /\ \A a \in {"R", "V"} : Turn(y, a) = Turn(x, a)
      /\ Late(y) => Late(x) \/ Turn(y, "R") = S!Error
  BY DEF Keeps, Quietly, Aborts
<1>2. Late(y) => Late(w) \/ Turn(y, "R") = S!Error
  BY <1>1 DEF Keeps
<1>3. Mild(w, y) /\ SameFlags(w, y)
  BY DEF Keeps, Quietly, Mild, SameFlags
<1> QED BY <1>1, <1>2, <1>3 DEF Keeps

LEMMA KeepsSelf ==
  ASSUME w \in ServerWorkers, OneTurn
  PROVE  Keeps(w)
BY DEF Keeps, OneTurn, Mild, SameFlags

LEMMA KeepsPop ==
  ASSUME w \in ServerWorkers, OneTurn, w.ready # <<>>, Head(w.ready).to \notin {"R", "V"}
  PROVE  /\ Keeps(S!Rest) /\ S!Rest.pc = w.pc /\ S!Rest.waiting = w.waiting
         /\ S!Rest.backlog = w.backlog
         /\ \A a \in {"R", "V"} : TurnOf(Head(w.ready), a) => Free(S!Rest, a)
         /\ Head(w.ready) \in ServerHandlers
         /\ Head(w.ready).to = "drain" => Draining(w)
BY Pops DEF OneTurn, Keeps, S!Rest

(* Where they end.                                                         *)
LEMMA KeptSound ==
  ASSUME ServerOnly, w.stopping => w'.stopping
  PROVE  SoundStays
BY DEF ServerOnly, SoundStays, Sound

LEMMA Kept ==
  ASSUME ServerOnly, ServerReading, Keeps(w'),
         ~S!Alive => w'.pc["D"] = w.pc["D"] /\ w'.pc["S"] = w.pc["S"]
  PROVE  ServerReading'
<1>1. Stands /\ w'.length = w.length /\ w'.torn = w.torn
  BY DEF Keeps, Stands, VisitStands, SameFlags
<1>2. ServerFlags'
  BY <1>1, FlagsCarry DEF Keeps, SameFlags, Mild, ServerReading, Stands
<1>3. SoundStays
  BY KeptSound DEF Keeps, SameFlags
<1>4. Late(w') => Late(w) \/ (Turn(w', "R") \notin Chunk /\ Turn(w', "R") # S!Ok)
  BY Replies DEF Keeps
<1>5. w.pc["V"] = "providing" =>
        ~(Turn(w', "V") = S!Ok /\ Turn(w', "R") = S!Ok /\ Late(w'))
  BY <1>4 DEF Keeps, ServerReading, Phases, BeforeVisit
<1>6. Phases'
  BY <1>1, <1>3, <1>4, <1>5, Carries DEF Keeps, ServerReading, ServerOnly
<1> QED BY <1>2, <1>6 DEF ServerReading, OneTurn, Keeps

(* One of them aborts what R or V waits for.                               *)
LEMMA Aborted ==
  ASSUME ServerOnly, ServerReading, NEW x, Keeps(x), Aborts(x, w'), Mild(x, w'), Stands,
         w'.length = w.length, w'.torn = w.torn,
         w.visited => w'.sendClosed = w.sendClosed /\ w'.sock = w.sock /\ w'.reads = w.reads,
         w'.sendClosed => w.sendClosed \/ w'.stopping, w.sendClosed => w'.sendClosed,
         w'.sock = w.sock \/ w'.stopping,
         ~S!Alive => w'.pc["D"] = w.pc["D"] /\ w'.pc["S"] = w.pc["S"],
         Lost(x, w', "V") => w'.stopping \/ w.pc["V"] \in {"none", "start"}
  PROVE  ServerReading'
<1>1. ServerFlags'
  <2>1. Mild(w, w')
    BY DEF Mild, Keeps, SameFlags
  <2> QED BY <2>1, FlagsCarry DEF Mild, ServerReading, Stands
<1>2. SoundStays
  BY KeptSound DEF Stands, VisitStands
<1>3. /\ OneEach(w')
      /\ \A a \in {"R", "V"} : Turn(w', a) = Turn(x, a) \/ Lost(x, w', a)
      /\ Late(w') => Late(x) \/ Turn(w', "R") = S!Error
  BY DEF Keeps, Aborts
<1>4. Late(w') => Late(w) \/ (Turn(w', "R") \notin Chunk /\ Turn(w', "R") # S!Ok)
  <2>1. Late(w') => Late(w) \/ Turn(w', "R") = S!Error \/ Turn(x, "R") = S!Error
    BY <1>3 DEF Keeps
  <2>2. Turn(x, "R") = S!Error => Turn(w', "R") = S!Error
    BY <1>3, Replies DEF Lost
  <2> QED BY <2>1, <2>2, Replies
<1>5. \A a \in {"R", "V"} : Turn(w', a) = Turn(w, a) \/ (Told(a) /\ Turn(w', a) = S!Error
                                                        /\ Lost(x, w', a))
  BY <1>3, Replies DEF Lost, Told, Keeps
<1>6. w.pc["V"] = "providing" =>
        ~(Turn(w', "V") = S!Ok /\ Turn(w', "R") = S!Ok /\ Late(w'))
  <2>1. \A a \in {"R", "V"} : Turn(w', a) = S!Ok => Turn(w, a) = S!Ok
    BY <1>5, Replies
  <2> QED BY <1>4, <2>1 DEF ServerReading, Phases, BeforeVisit
<1>7. Turn(w', "V") = S!Error => Turn(w, "V") = S!Error \/ ~Sound'
                                 \/ w.pc["V"] \in {"none", "start"}
  BY <1>5 DEF Sound
<1>8. w'.reads = w.reads \/ (w'.reads = <<>> /\ ~w.visited)
  BY DEF Aborts, Keeps
<1>9. Phases'
  BY <1>2, <1>4, <1>5, <1>6, <1>7, <1>8, Carries DEF ServerReading, ServerOnly
<1> QED BY <1>1, <1>3, <1>9 DEF ServerReading, OneTurn

LEMMA KeptByThrow ==
  ASSUME ServerOnly, ServerReading, S!Alive, NEW x, Keeps(x), Throws(x, "S", w')
  PROVE  ServerReading'
<1>1. CASE Quietly(x, w') /\ SameFlags(x, w')
  <2>1. Keeps(w')
    BY <1>1, KeepsQuietly DEF Throws
  <2> QED BY <2>1, Kept
<1>2. CASE w'.stopping
  <2>1. Stands /\ w'.length = w.length /\ w'.torn = w.torn
    BY <1>2 DEF Throws, Stands, VisitStands, Keeps, SameFlags
  <2>2. /\ w.visited => w'.sendClosed = w.sendClosed /\ w'.sock = w.sock /\ w'.reads = w.reads
        /\ w'.sendClosed => w.sendClosed \/ w'.stopping
        /\ w.sendClosed => w'.sendClosed
    BY <1>2 DEF Throws, Keeps, SameFlags, Quietly
  <2> QED BY <1>2, <2>1, <2>2, Aborted DEF Throws
<1> QED BY <1>1, <1>2 DEF Throws

LEMMA KeptByStop ==
  ASSUME ServerOnly, ServerReading, S!Alive, NEW x, Keeps(x), Stops(x, w')
  PROVE  ServerReading'
<1>1. Stands /\ w'.length = w.length /\ w'.torn = w.torn /\ w'.stopping
  BY DEF Stops, Stands, VisitStands, Keeps, SameFlags, SamePcs
<1>2. /\ w.visited => w'.sendClosed = w.sendClosed /\ w'.sock = w.sock /\ w'.reads = w.reads
      /\ w.sendClosed => w'.sendClosed
  BY DEF Stops, Keeps, SameFlags, Quietly
<1> QED BY <1>1, <1>2, Aborted DEF Stops

LEMMA KeepsMove ==
  ASSUME NEW x, Keeps(x), NEW a \in {"S", "D"}, NEW l \in ServerPcs
  PROVE  Keeps(S!GoTo(x, a, l))
<1>1. x \in ServerWorkers
  BY DEF Keeps
<1>2. /\ Quietly(x, S!GoTo(x, a, l)) /\ SameFlags(x, S!GoTo(x, a, l))
      /\ \A b \in {"R", "S", "D", "V"} : S!GoTo(x, a, l).pc[b] = IF b = a THEN l ELSE x.pc[b]
  BY <1>1, MoveFlags
<1> QED BY <1>2, KeepsQuietly

LEMMA KeepsPost ==
  ASSUME NEW x, Keeps(x), NEW a \in {"S", "D", "wait"}, NEW got \in {S!Ok, S!Error},
         S!Handler(a, got) \in ServerHandlers
  PROVE  Keeps(S!Post(x, a, got))
<1>1. x \in ServerWorkers /\ got \notin Message
  BY PlainReplies DEF Keeps
<1>2. Quietly(x, S!Post(x, a, got))
  BY <1>1, PostQuietly
<1>3. SameFlags(x, S!Post(x, a, got)) /\ S!Post(x, a, got).pc = x.pc
  BY <1>1, PostFlags
<1> QED BY <1>2, <1>3, KeepsQuietly

LEMMA ReadingSends ==
  ASSUME ServerOnly, ServerReading, S!SendStart \/ S!SendMsg \/ S!SendAborted \/ S!SendDone
  PROVE  ServerReading'
<1> DEFINE x == S!Rest
<1>1. /\ w.ready # <<>> /\ Head(w.ready).to = "S"
      /\ w.pc["S"] # "done"
      /\ \/ w' = S!Wait(x) \/ w' = S!Throw(x, "S")
         \/ \E got \in {S!Ok, S!Error} : w' = S!Post(S!GoTo(x, "S", "sending"), "S", got)
  BY DEF S!SendStart, S!SendMsg, S!SendAborted, S!SendDone, S!Resumes
<1>2. Keeps(x) /\ S!Alive
  BY <1>1, KeepsPop DEF ServerOnly, ServerReading, S!Alive, S!Coroutines
<1> HIDE DEF x
<1>3. CASE w' = S!Wait(x)
  <2>1. Keeps(S!GoTo(x, "S", "getting"))
    BY <1>2, KeepsMove DEF ServerPcs
  <2>2. Keeps(w')
    BY <1>3, <2>1, KeepsPost, PlainHandlers DEF S!Wait
  <2> QED BY <1>2, <2>2, Kept
<1>4. CASE \E got \in {S!Ok, S!Error} : w' = S!Post(S!GoTo(x, "S", "sending"), "S", got)
  <2>1. Keeps(S!GoTo(x, "S", "sending"))
    BY <1>2, KeepsMove DEF ServerPcs
  <2>2. Keeps(w')
    BY <1>4, <2>1, KeepsPost, PlainHandlers
  <2> QED BY <1>2, <2>2, Kept
<1>5. CASE w' = S!Throw(x, "S")
  <2>1. Throws(x, "S", w')
    BY <1>2, <1>5, ThrowsOn DEF Keeps
  <2> QED BY <1>2, <2>1, KeptByThrow
<1> QED BY <1>1, <1>3, <1>4, <1>5

LEMMA ReadingDeadline ==
  ASSUME ServerOnly, ServerReading, S!DdlStart \/ S!DdlWake
  PROVE  ServerReading'
<1> DEFINE x == S!Rest
           y == S!GoTo(x, "D", "done")
<1>1. /\ w.ready # <<>> /\ Head(w.ready).to = "D"
      /\ w.pc["D"] # "done"
      /\ w' = S!AwaitDdl(x) \/ w' = y \/ w' = S!TryStop(y)
  BY DEF S!DdlStart, S!DdlWake, S!Resumes
<1>2. Keeps(x) /\ S!Alive
  BY <1>1, KeepsPop DEF ServerOnly, ServerReading, S!Alive, S!Coroutines
<1> HIDE DEF x
<1>3. Keeps(y)
  BY <1>2, KeepsMove DEF ServerPcs
<1> HIDE DEF y
<1>4. CASE w' = S!AwaitDdl(x)
  <2>1. Softly(x, w')
    BY <1>2, <1>4, WakeSoftly DEF Keeps
  <2>2. Keeps(w')
    BY <1>2, <2>1, KeepsQuietly DEF Softly, SamePcs
  <2> QED BY <1>2, <2>2, Kept
<1>5. CASE w' = y
  BY <1>2, <1>3, <1>5, Kept
<1>6. CASE w' = S!TryStop(y)
  <2>1. Stops(y, w')
    BY <1>3, <1>6, StopsWorker DEF Keeps
  <2> QED BY <1>2, <1>3, <2>1, KeptByStop
<1> QED BY <1>1, <1>4, <1>5, <1>6

LEMMA ReadingOutside ==
  ASSUME ServerOnly, ServerReading, S!DdlExpires \/ S!StopWorker \/ S!Destroyed
  PROVE  ServerReading'
<1>1. Keeps(w)
  BY KeepsSelf DEF ServerOnly, ServerReading
<1>2. CASE S!DdlExpires
  <2> DEFINE y == S!WakeDdl([w EXCEPT !.ddl = "expired"])
  <2>1. w' = y
    BY <1>2 DEF S!DdlExpires
  <2>2. Softly(w, y)
    BY WakeSoftly DEF ServerOnly
  <2>3. w'.pc["D"] = w.pc["D"] \/ w.pc["D"] = "waiting"
    <3> DEFINE u == [w EXCEPT !.ddl = "expired"]
    <3>1. u \in ServerWorkers /\ u.pc = w.pc
      BY DEF ServerOnly, ServerWorkers
    <3> HIDE DEF u
    <3>2. y = S!WakeDdl(u)
      BY DEF u
    <3> HIDE DEF y
    <3> QED BY <2>1, <3>1, <3>2 DEF S!WakeDdl
  <2> HIDE DEF y
  <2>4. Keeps(w')
    BY <1>1, <2>1, <2>2, KeepsQuietly DEF Softly, SamePcs
  <2>5. ~S!Alive => w'.pc["D"] = w.pc["D"] /\ w'.pc["S"] = w.pc["S"]
    BY <2>1, <2>2, <2>3 DEF S!Alive, S!Coroutines, Softly, SamePcs
  <2> QED BY <2>4, <2>5, Kept
<1>3. CASE S!StopWorker
  <2>1. w' = S!TryStop(w) /\ S!Alive
    BY <1>3 DEF S!StopWorker, S!Registered
  <2>2. Stops(w, w')
    BY <2>1, StopsWorker DEF ServerOnly
  <2> QED BY <1>1, <2>1, <2>2, KeptByStop
<1>4. CASE S!Destroyed
  <2>1. /\ ~S!Alive /\ w' = [w EXCEPT !.sock = "closed"] /\ w \in ServerWorkers
        /\ w.sock = "open"
    BY <1>4 DEF S!Destroyed, ServerOnly
  <2>2. /\ w'.ready = w.ready /\ w'.reads = w.reads /\ w'.pc = w.pc /\ w'.length = w.length
        /\ w'.visited = w.visited /\ w'.confirmed = w.confirmed /\ w'.stopping = w.stopping
        /\ w'.sendClosed = w.sendClosed /\ w'.sock = "closed" /\ w'.backlog = w.backlog
        /\ w'.torn = w.torn
    BY <2>1 DEF ServerWorkers
  <2>3. /\ \A a : Turn(w', a) = Turn(w, a)
        /\ Late(w') <=> Late(w)
        /\ NoMessage(w') <=> NoMessage(w)
        /\ Draining(w') <=> Draining(w)
    BY <2>2, SameTurns
  <2>4. OneTurn'
    BY <2>2 DEF ServerReading, OneTurn, OneEach, Once, InReady, Reading, InBacklog
  <2>5. Stands
    BY <2>2 DEF Stands, VisitStands
  <2>6. SoundStays
    BY <2>2, KeptSound
  <2>7. Phases'
    <3>1. w.pc["V"] = "providing" =>
            ~(Turn(w', "V") = S!Ok /\ Turn(w', "R") = S!Ok /\ Late(w'))
      BY <2>3 DEF ServerReading, Phases, BeforeVisit
    <3> QED BY <2>2, <2>3, <2>5, <2>6, <3>1, Carries DEF ServerReading, ServerOnly
  <2>8. ServerFlags'
    <3>1. w.pc["V"] \notin Visiting
      BY <2>1 DEF S!Alive, Visiting
    <3>2. ~S!Alive'
      BY <2>1, <2>2 DEF S!Alive, S!Coroutines
    <3> QED BY <2>2, <2>3, <3>1, <3>2 DEF ServerReading, ServerFlags, Draining
  <2> QED BY <2>4, <2>7, <2>8 DEF ServerReading
<1> QED BY <1>2, <1>3, <1>4

(* A lambda of to_send_ tells R or V how its provide() went.               *)
LEMMA TurnGiven ==
  ASSUME ServerOnly, ServerReading, NEW z \in ServerWorkers, OneEach(z),
         \A a \in {"R", "V"} : Turn(z, a) = Turn(w, a), z.reads = w.reads,
         SameFlags(w, z), z.pc = w.pc, Draining(z) => Draining(w) \/ w.sendClosed,
         w.sendClosed /\ NoMessage(w) => NoMessage(z),
         NEW a \in {"R", "V"}, Free(z, a), NEW got \in {S!Ok, S!Error},
         w' = S!Post(z, a, got), got = S!Ok => ~w.sendClosed,
         a = "V" /\ got = S!Error => w.stopping,
         a = "R" /\ got = S!Ok /\ w.pc["V"] = "providing" => Turn(w, "V") # S!Ok
  PROVE  ServerReading'
<1>1. /\ w' \in ServerWorkers /\ OneEach(w') /\ Turn(w', a) = got
      /\ \A b \in {"R", "V"} : b # a => Turn(w', b) = Turn(w, b)
      /\ a = "V" => ~Late(w')
      /\ w'.reads = w.reads
      /\ Mild(z, w') /\ SameFlags(w, w') /\ w'.pc = w.pc
  <2>1. got \in Reply
    BY PlainReplies
  <2> DEFINE y == S!Post(z, a, got)
  <2>2. /\ y \in ServerWorkers /\ OneEach(y) /\ Turn(y, a) = got
        /\ \A b \in {"R", "V"} : b # a => Turn(y, b) = Turn(z, b)
        /\ a = "V" => ~Late(y)
        /\ y.reads = z.reads
        /\ Mild(z, y) /\ SameFlags(z, y) /\ y.pc = z.pc
    BY <2>1, PostsTurn
  <2> HIDE DEF y
  <2>3. w' = y
    BY DEF y
  <2> QED BY <2>2, <2>3 DEF SameFlags
<1>2. Turn(w, a) = Nil
  BY DEF Free, InReady, Turn, TurnOf, Resumed
<1>3. Stands /\ w'.length = w.length /\ w'.torn = w.torn
  BY <1>1 DEF Stands, VisitStands, SameFlags
<1>4. ServerFlags'
  <2>1. /\ NoMessage(w) /\ w.sendClosed => NoMessage(w')
        /\ Draining(w') => Draining(w) \/ w'.sendClosed
    BY <1>1 DEF Mild, SameFlags
  <2> QED BY <1>1, <1>3, <2>1, FlagsCarry DEF SameFlags, ServerReading, Stands
<1>5. SoundStays
  BY <1>3, KeptSound DEF Stands, VisitStands
<1>6. \A b \in {"R", "V"} : Turn(w', b) = Turn(w, b) \/ Told(b)
  BY <1>1, <1>2 DEF Told
<1>7. Late(w') => Turn(w', "R") \notin Chunk
  BY <1>1, Replies
<1>8. w.pc["V"] = "providing" =>
        ~(Turn(w', "V") = S!Ok /\ Turn(w', "R") = S!Ok /\ Late(w'))
  BY <1>1
<1>9. Turn(w', "V") = S!Error => Turn(w, "V") = S!Error \/ ~Sound'
                                 \/ w.pc["V"] \in {"none", "start"}
  BY <1>1, <1>3 DEF Sound, Stands, VisitStands
<1>10. Phases'
  BY <1>1, <1>3, <1>5, <1>6, <1>7, <1>8, <1>9, Carries DEF ServerReading, ServerOnly
<1> QED BY <1>1, <1>4, <1>10 DEF ServerReading, OneTurn

(* The message goes to send_msgs, and its provider goes on.                *)
LEMMA MessageTaken ==
  ASSUME ServerOnly, ServerReading, ~w.sendClosed, NEW x, Keeps(x), x.pc = w.pc,
         NEW r \in Provided, Free(x, r[1]),
         w' = S!Post(S!Post(x, "S", <<r[2], "message">>), r[1], S!Ok),
         r[1] = "R" /\ w.pc["V"] = "providing" => Turn(w, "V") # S!Ok
  PROVE  ServerReading'
<1> DEFINE m == <<r[2], "message">>
           z == S!Post(x, "S", m)
<1>1. S!Handler("S", m) \in ServerHandlers /\ r[1] \in {"R", "V"}
  <2>1. m \in Message /\ r[1] \in {"R", "V"}
    BY DEF Provided, Message
  <2> HIDE DEF m
  <2> QED BY <2>1, PlainHandlers
<1> HIDE DEF m
<1>2. x \in ServerWorkers /\ OneEach(x)
  BY DEF Keeps
<1>3. /\ Aborts(x, z) /\ z.reads = x.reads /\ z.backlog = x.backlog
      /\ \A b \in {"R", "V"} : Turn(z, b) = Turn(x, b)
      /\ SameFlags(x, z) /\ z.pc = x.pc
  BY <1>1, <1>2, PostQuietly, PostFlags
<1>4. Draining(z) => Draining(x)
  <2>1. \A i \in 1..Len(z.ready) : \/ i \in 1..Len(x.ready) /\ z.ready[i] = x.ready[i]
                                   \/ z.ready[i].to = "S"
    BY <1>1, <1>2, PostGrows
  <2> HIDE DEF z
  <2> QED BY <2>1 DEF Draining
<1>5. w' = S!Post(z, r[1], S!Ok)
  BY DEF m
<1> HIDE DEF z
<1>6. z \in ServerWorkers /\ OneEach(z) /\ Free(z, r[1])
  BY <1>1, <1>2, <1>3 DEF Aborts
<1>7. /\ \A b \in {"R", "V"} : Turn(z, b) = Turn(w, b)
      /\ z.reads = w.reads /\ SameFlags(w, z) /\ z.pc = w.pc
      /\ Draining(z) => Draining(w)
  <2>1. SameFlags(w, z)
    BY <1>3 DEF SameFlags, Keeps
  <2>2. Draining(x) => Draining(w)
    BY DEF Keeps, Mild, SameFlags
  <2> QED BY <1>3, <1>4, <2>1, <2>2 DEF Keeps
<1> QED BY <1>1, <1>5, <1>6, <1>7, TurnGiven, PlainReplies

(* When the visit message has been taken, send_msgs has it and does not    *)
(* wait for another.                                                       *)
LEMMA VisitAlone ==
  ASSUME ServerInv, OneTurn, w.pc["V"] = "providing", Turn(w, "V") = S!Ok,
         w.ready # <<>>, Head(w.ready).to \in {"wait", "provide"}
  PROVE  ~w.waiting /\ Head(w.ready).to = "provide"
<1>1. w \in ServerWorkers /\ SendInPlace(w) /\ VisitFollows(w)
  BY DEF ServerInv, InPlace
<1>2. w.ready \in Seq(ServerHandlers) /\ Head(w.ready) = w.ready[1] /\ 1 \in 1..Len(w.ready)
      /\ Len(w.ready) \in Nat
  <2>1. w.ready \in Seq(ServerHandlers)
    BY <1>1 DEF ServerWorkers
  <2> QED BY <2>1, PopSeq
<1>3. PICK i \in 1..Len(w.ready) : w.ready[i].to = "V" /\ w.ready[i].got = S!Ok
  <2>1. Resumed(w, "V")
    BY Replies DEF Turn
  <2>2. PICK i \in 1..Len(w.ready) : w.ready[i].to = "V"
    BY <2>1 DEF Resumed
  <2>3. Once(w, "V")
    BY DEF OneTurn, OneEach
  <2>4. w.ready[i].got = S!Ok
    BY <1>1, <2>2, <2>3, TurnIs
  <2> QED BY <2>2, <2>4
<1>4. w.ready[i] = VisitGoesOn
  <2>1. w.ready[i] \in ServerHandlers
    BY <1>2
  <2>2. w.ready[i] \in [to : {"R", "V"}, got : Reply]
    BY <1>3, <2>1 DEF ServerHandlers
  <2> QED BY <1>3, <2>2 DEF VisitGoesOn, S!Handler
<1>5. i # 1
  BY <1>2, <1>3
<1>6. w.ready[i - 1] = SendVisit /\ i - 1 \in 1..Len(w.ready)
  BY <1>1, <1>2, <1>4, <1>5 DEF VisitFollows
<1>7. w.ready[i - 1].to = "S"
  BY <1>6, HandlerParts DEF SendVisit
<1>8. SendTurn(w.ready[i - 1])
  BY <1>7 DEF SendTurn
<1>9. ~w.waiting
  BY <1>1, <1>6, <1>8 DEF SendInPlace
<1>10. Head(w.ready).to # "wait"
  <2> SUFFICES ASSUME Head(w.ready).to = "wait" PROVE FALSE
    OBVIOUS
  <2>1. SendTurn(w.ready[1])
    BY <1>2 DEF SendTurn
  <2>2. i - 1 = 1
    BY <1>1, <1>2, <1>6, <1>8, <2>1 DEF SendInPlace
  <2> QED BY <1>2, <1>7, <2>2
<1> QED BY <1>9, <1>10

LEMMA ReadingWaits ==
  ASSUME ServerInv, ServerOnly, ServerReading, S!RunWait
  PROVE  ServerReading'
<1> DEFINE x == S!Rest
           y == [x EXCEPT !.waiting = TRUE]
           z == [x EXCEPT !.backlog = Tail(@)]
           r == Head(w.backlog)
<1>1. /\ w.ready # <<>> /\ Head(w.ready).to = "wait"
      /\ \/ w' = S!Post(x, "S", S!Error)
         \/ /\ ~w.sendClosed /\ w.backlog # <<>>
            /\ w' = S!Post(S!Post(z, "S", <<r[2], "message">>), r[1], S!Ok)
         \/ w' = y
  BY DEF S!RunWait
<1>2. Keeps(x) /\ x.pc = w.pc /\ x.backlog = w.backlog
  BY <1>1, KeepsPop DEF ServerOnly, ServerReading
<1> HIDE DEF x
<1>3. CASE w' = S!Post(x, "S", S!Error)
  <2>1. Keeps(w')
    BY <1>2, <1>3, KeepsPost, PlainHandlers
  <2>2. w'.pc = w.pc
    BY <1>2, <1>3, PostFlags DEF Keeps
  <2> QED BY <2>1, <2>2, Kept
<1>4. CASE w' = y
  <2>1. /\ y \in ServerWorkers /\ y.ready = x.ready /\ y.reads = x.reads /\ y.pc = x.pc
        /\ y.backlog = x.backlog /\ SameFlags(x, y)
    BY <1>2 DEF Keeps, ServerWorkers, SameFlags
  <2> HIDE DEF y
  <2>2. Quietly(x, y)
    BY <1>2, <2>1, QuietSame DEF Keeps
  <2>3. Keeps(w')
    BY <1>2, <1>4, <2>1, <2>2, KeepsQuietly
  <2> QED BY <1>2, <1>4, <2>1, <2>3, Kept
<1>5. CASE /\ ~w.sendClosed /\ w.backlog # <<>>
           /\ w' = S!Post(S!Post(z, "S", <<r[2], "message">>), r[1], S!Ok)
  <2>1. /\ z \in ServerWorkers /\ OneEach(z) /\ z.ready = x.ready /\ r \in Provided
        /\ \A b : Turn(z, b) = Turn(x, b)
        /\ Late(z) => Late(x)
        /\ Free(z, r[1]) /\ z.reads = x.reads
        /\ Mild(x, z) /\ SameFlags(x, z) /\ z.pc = x.pc
    BY <1>2, <1>5, Unbacklogs DEF Keeps
  <2> HIDE DEF z, r
  <2>2. Keeps(z)
    <3>1. Mild(w, z) /\ SameFlags(w, z)
      BY <1>2, <2>1 DEF Keeps, Mild, SameFlags
    <3> QED BY <1>2, <2>1, <3>1 DEF Keeps
  <2>3. w.pc["V"] = "providing" => Turn(w, "V") # S!Ok
    BY <1>1, VisitAlone DEF ServerReading
  <2> QED BY <1>2, <1>5, <2>1, <2>2, <2>3, MessageTaken
<1> QED BY <1>1, <1>3, <1>4, <1>5

LEMMA ReadingProvides ==
  ASSUME ServerInv, ServerOnly, ServerReading, S!RunProvide
  PROVE  ServerReading'
<1> DEFINE x == S!Rest
           y == [x EXCEPT !.waiting = FALSE]
           z == [x EXCEPT !.backlog = Append(@, S!Got)]
           r == S!Got
<1>1. /\ w.ready # <<>> /\ Head(w.ready).to = "provide"
      /\ \/ w.sendClosed /\ w' = S!Post(x, r[1], S!Error)
         \/ /\ ~w.sendClosed /\ w.waiting
            /\ w' = S!Post(S!Post(y, "S", <<r[2], "message">>), r[1], S!Ok)
         \/ w' = z
  BY DEF S!RunProvide
<1>2. /\ Keeps(x) /\ x.pc = w.pc /\ x.backlog = w.backlog
      /\ r \in Provided /\ Free(x, r[1]) /\ r[1] \in {"R", "V"}
      /\ r[1] = "V" => w.pc["V"] = "providing"
  <2>1. r \in Provided /\ r = Head(w.ready).got
        /\ (r[1] = "V" => w.pc["V"] = "providing")
    BY <1>1, QueuePops DEF S!Got
  <2>2. r[1] \in {"R", "V"}
    BY <2>1 DEF Provided
  <2>3. TurnOf(Head(w.ready), r[1])
    BY <1>1, <2>1 DEF TurnOf
  <2> QED BY <1>1, <2>1, <2>2, <2>3, KeepsPop DEF ServerOnly, ServerReading
<1> HIDE DEF x, r
<1>3. CASE w.sendClosed /\ w' = S!Post(x, r[1], S!Error)
  <2>1. r[1] = "V" => w.stopping
    BY <1>2, <1>3 DEF ServerReading, ServerFlags
  <2>2. S!Error # S!Ok
    BY Replies
  <2>3. /\ x \in ServerWorkers /\ OneEach(x)
        /\ \A a \in {"R", "V"} : Turn(x, a) = Turn(w, a)
        /\ x.reads = w.reads /\ SameFlags(w, x)
        /\ Draining(x) => Draining(w) \/ w.sendClosed
        /\ NoMessage(w) => NoMessage(x)
    BY <1>2 DEF Keeps, Mild, SameFlags
  <2> QED BY <1>2, <1>3, <2>1, <2>2, <2>3, TurnGiven
<1>4. CASE /\ ~w.sendClosed /\ w.waiting
           /\ w' = S!Post(S!Post(y, "S", <<r[2], "message">>), r[1], S!Ok)
  <2>1. /\ y \in ServerWorkers /\ y.ready = x.ready /\ y.reads = x.reads /\ y.pc = x.pc
        /\ y.backlog = x.backlog /\ SameFlags(x, y)
    BY <1>2 DEF Keeps, ServerWorkers, SameFlags
  <2> HIDE DEF y
  <2>2. Quietly(x, y)
    BY <1>2, <2>1, QuietSame DEF Keeps
  <2>3. Keeps(y)
    BY <1>2, <2>1, <2>2, KeepsQuietly
  <2>4. Free(y, r[1])
    BY <1>2, <2>1 DEF Free, InReady, Reading, InBacklog
  <2>5. w.pc["V"] = "providing" => Turn(w, "V") # S!Ok
    BY <1>1, <1>4, VisitAlone DEF ServerReading
  <2> QED BY <1>2, <1>4, <2>1, <2>3, <2>4, <2>5, MessageTaken
<1>5. CASE w' = z
  <2>1. /\ z \in ServerWorkers /\ OneEach(z)
        /\ \A b : Turn(z, b) = Turn(x, b)
        /\ Late(z) => Late(x)
        /\ z.reads = x.reads
        /\ Mild(x, z) /\ SameFlags(x, z) /\ z.pc = x.pc
    BY <1>2, Backlogs DEF Keeps, r
  <2> HIDE DEF z
  <2>2. Keeps(z)
    <3>1. Mild(w, z) /\ SameFlags(w, z)
      BY <1>2, <2>1 DEF Keeps, Mild, SameFlags
    <3> QED BY <1>2, <2>1, <3>1 DEF Keeps
  <2> QED BY <1>2, <1>5, <2>1, <2>2, Kept
<1> QED BY <1>1, <1>3, <1>4, <1>5

LEMMA ReadingDrains ==
  ASSUME ServerInv, ServerOnly, ServerReading, S!RunDrain
  PROVE  ServerReading'
<1> DEFINE x == S!Rest
           y == Drained(x)
<1>1. w.ready # <<>> /\ Head(w.ready).to = "drain"
  BY DEF S!RunDrain
<1>2. /\ Keeps(x) /\ x.pc = w.pc /\ x.backlog = w.backlog /\ x.waiting = w.waiting
      /\ Draining(w)
  BY <1>1, KeepsPop DEF ServerOnly, ServerReading
<1>3. w' = y
  <2>1. w' = [x EXCEPT
               !.ready = @ \o (IF w.waiting THEN <<S!Handler("S", S!Error)>> ELSE <<>>)
                           \o [i \in DOMAIN w.backlog |-> S!Handler(w.backlog[i][1], S!Error)],
               !.waiting = FALSE, !.backlog = <<>>]
    BY DEF S!RunDrain
  <2> HIDE DEF x
  <2> QED BY <1>2, <2>1 DEF Drained
<1> HIDE DEF x
<1>4. /\ Aborts(x, y) /\ Mild(x, y) /\ SameFlags(x, y) /\ y.pc = x.pc
      /\ y.reads = x.reads
  BY <1>2, DrainAborts DEF Keeps
<1> HIDE DEF y
<1>5. SameFlags(w, w') /\ w'.pc = w.pc /\ w'.reads = w.reads
  BY <1>2, <1>3, <1>4 DEF SameFlags, Keeps
<1>6. Lost(x, w', "V") => w.stopping
  <2> SUFFICES ASSUME Lost(x, w', "V") PROVE w.stopping
    OBVIOUS
  <2>1. OneEach(y) /\ y \in ServerWorkers /\ Turn(y, "V") = S!Error
        /\ (Reading(x, "V") \/ InBacklog(x, "V"))
    BY <1>2, <1>3, <1>4 DEF Aborts, Keeps, Lost
  <2>2. ~Reading(x, "V")
    <3>1. Resumed(y, "V") /\ Once(y, "V")
      BY <2>1, Replies DEF Turn, OneEach
    <3>2. ~Reading(y, "V")
      BY <3>1 DEF Once, Resumed, InReady, TurnOf
    <3> QED BY <1>4, <3>2 DEF Reading
  <2>3. Backlogged(w)
    BY <1>2, <2>1, <2>2 DEF InBacklog, Backlogged
  <2>4. w.pc["V"] = "providing"
    BY <2>3 DEF ServerInv, InPlace, VisitInPlace
  <2>5. w.sendClosed
    BY <1>2 DEF ServerReading, ServerFlags, Draining
  <2> QED BY <2>4, <2>5 DEF ServerReading, ServerFlags
<1>7. Stands
  BY <1>5 DEF Stands, VisitStands, SameFlags
<1> QED BY <1>2, <1>3, <1>4, <1>5, <1>6, <1>7, Aborted DEF SameFlags

-----------------------------------------------------------------------------
(* recv_msgs.  R's turn is over, and V stays where it is.                  *)
RecvMoves(l) ==
  /\ VisitStands /\ w'.pc["R"] = l /\ SoundStays /\ UNCHANGED <<up, upRead>>
  /\ ~Reading(w, "R") /\ ~Late(w) /\ Turn(w, "R") \in Reply
  /\ Turn(w', "R") \in {Nil, S!Error}
  /\ Reading(w', "V") => Reading(w, "V")
  /\ Turn(w', "V") = Turn(w, "V") \/ Turn(w', "V") = S!Error
  /\ w.visited => /\ Turn(w', "V") = Turn(w, "V")
                  /\ Reading(w', "V") <=> Reading(w, "V")
  /\ Reading(w', "R") /\ Reading(w', "V") => First(w') = "V"
  /\ w'.length["V"] = w.length["V"] /\ w'.torn = w.torn

LEMMA VisitedAfter ==
  ASSUME ServerFlags
  PROVE  /\ w.pc["V"] \notin {"none", "start"} => w.visited /\ w.pc["R"] # "start"
         /\ w.pc["V"] \in {"length", "body", "confirmed", "handed"} => w.sendClosed
BY DEF ServerFlags

LEMMA RecvKeeps ==
  ASSUME Phases, NEW l, RecvMoves(l)
  PROVE  /\ Parts' /\ (Reads("V")' => Reads("V"))
         /\ Turn(w', "R") # S!Part /\ (Reads("R")' <=> Reading(w', "R"))
         /\ AtLength <=> AtLength'
         /\ Unconfirmed <=> Unconfirmed'
         /\ Scattered <=> Scattered'
<1>1. /\ AtLength <=> AtLength'
      /\ Unconfirmed <=> Unconfirmed'
      /\ Scattered <=> Scattered'
  BY DEF AtLength, Unconfirmed, Confirmed, Scattered, RecvMoves
<1>2. \A got \in {S!Part, S!Torn} : Turn(w', "R") # got /\ (Turn(w', "V") = got => Turn(w, "V") = got)
  BY Replies DEF RecvMoves
<1>3. Turn(w', "R") \notin Chunk /\ (Turn(w', "V") \in Chunk => Turn(w', "V") = Turn(w, "V"))
  BY Replies DEF RecvMoves
<1>4. w'.torn = w.torn /\ w'.pc["V"] = w.pc["V"]
  BY DEF RecvMoves, VisitStands
<1>5. Parts'
  BY <1>1, <1>2, <1>3, <1>4 DEF Phases, Parts
<1>6. Reads("V")' => Reads("V")
  BY <1>2 DEF Reads, RecvMoves
<1>7. Turn(w', "R") # S!Part /\ (Reads("R")' <=> Reading(w', "R"))
  BY <1>2 DEF Reads
<1> QED BY <1>1, <1>5, <1>6, <1>7

LEMMA RecvEnds ==
  ASSUME ServerFlags, Phases, RecvMoves("done"), Turn(w', "R") = Nil, ~Reading(w', "R"),
         w'.length["R"] = w.length["R"], ~Takes
  PROVE  Phases'
<1>1. /\ Holds => Holds'
      /\ AtLength <=> AtLength'
      /\ Unconfirmed <=> Unconfirmed'
      /\ Scattered <=> Scattered'
      /\ Parts' /\ (Reads("V")' => Reads("V")) /\ ~Reads("R")'
  BY RecvKeeps, Replies DEF Holds, RecvMoves
<1>2. w.pc["V"] \notin {"none", "start"} => w.visited
  BY VisitedAfter
<1>3. BeforeVisit'
  BY <1>1, <1>2, Replies DEF RecvMoves, VisitStands, SoundStays, Phases, BeforeVisit
<1>4. AwaitsLength'
  BY <1>1, <1>2, Replies DEF RecvMoves, VisitStands, SoundStays, Phases, AwaitsLength
<1>5. AwaitsBody'
  BY <1>1, <1>2, Replies DEF RecvMoves, VisitStands, SoundStays, Phases, AwaitsBody
<1>6. Taken'
  BY <1>2 DEF RecvMoves, VisitStands, Phases, Taken
<1>7. Failed'
  BY <1>1, <1>2 DEF RecvMoves, VisitStands, SoundStays, Phases, Failed
<1> QED BY <1>1, <1>3, <1>4, <1>5, <1>6, <1>7 DEF Phases

(* It asks for the length of the next message.                             *)
LEMMA RecvAsksLength ==
  ASSUME ServerFlags, Phases, RecvMoves("length"), w.pc["R"] \in {"start", "providing"},
         w.pc["R"] = "providing" => Turn(w, "R") = S!Ok
  PROVE  Phases'
<1>1. /\ ~Holds /\ ~Takes
      /\ AtLength <=> AtLength'
      /\ Unconfirmed <=> Unconfirmed'
      /\ Scattered <=> Scattered'
      /\ Parts' /\ (Reads("R")' <=> Reading(w', "R"))
  BY RecvKeeps, Replies DEF Holds, Takes
<1>2. w.pc["V"] \notin {"none", "start"} => w.visited /\ Turn(w, "R") = S!Ok
  BY VisitedAfter
<1>3. BeforeVisit'
  <2>1. CASE w.pc["V"] \in {"none", "start", "providing"}
    <3>1. AtLength' /\ Unconfirmed'
      BY <1>1, <2>1 DEF Phases, BeforeVisit
    <3>2. InStep'
      BY <3>1 DEF RecvMoves, InStep
    <3> QED BY <1>1, <1>2, <2>1, <3>1, <3>2, Replies
            DEF RecvMoves, VisitStands, SoundStays, Phases, BeforeVisit
  <2>2. CASE w.pc["V"] \notin {"none", "start", "providing"}
    BY <2>2 DEF BeforeVisit, RecvMoves, VisitStands
  <2> QED BY <2>1, <2>2
<1>4. w.pc["V"] \notin {"body", "confirmed", "handed"} /\ (w.pc["V"] = "length" => Scattered)
  BY <1>2, Replies DEF Phases, AwaitsLength, AwaitsBody, Taken
<1>5. AwaitsLength' /\ AwaitsBody' /\ Taken'
  BY <1>1, <1>4 DEF RecvMoves, VisitStands, AwaitsLength, AwaitsBody, Taken
<1>6. Failed'
  BY <1>1 DEF RecvMoves, VisitStands, SoundStays, Phases, Failed
<1> QED BY <1>1, <1>3, <1>5, <1>6 DEF Phases

(* It has the length and asks for the body.                                *)
LEMMA RecvAsksBody ==
  ASSUME ServerFlags, Phases, RecvMoves("body"), w.pc["R"] = "length",
         Turn(w, "R") \in Chunk, Turn(w, "R")[2] = "length", w'.length["R"] # "none",
         w'.pc["V"] = "length" => Reading(w', "R")
  PROVE  Phases'
<1>1. /\ Takes /\ ~Holds /\ Holds'
      /\ AtLength <=> AtLength'
      /\ Unconfirmed <=> Unconfirmed'
      /\ Scattered <=> Scattered'
      /\ Parts' /\ (Reads("V")' => Reads("V")) /\ (Reads("R")' <=> Reading(w', "R"))
  BY RecvKeeps, Replies DEF Takes, Holds, RecvMoves
<1>2. w.pc["V"] \notin {"none", "start"} => w.visited
  BY VisitedAfter
<1>3. BeforeVisit'
  <2>1. CASE w.pc["V"] \in {"none", "start", "providing"}
    <3>1. ~AtLength' /\ Unconfirmed'
      BY <1>1, <2>1 DEF Phases, BeforeVisit, Takes
    <3>2. InStep'
      BY <3>1 DEF RecvMoves, InStep
    <3> QED BY <1>1, <1>2, <2>1, <3>1, <3>2, Replies
            DEF RecvMoves, VisitStands, SoundStays, Phases, BeforeVisit
  <2>2. CASE w.pc["V"] \notin {"none", "start", "providing"}
    BY <2>2 DEF BeforeVisit, RecvMoves, VisitStands
  <2> QED BY <2>1, <2>2
<1>4. AwaitsLength'
  <2>1. CASE w.pc["V"] = "length" /\ ~Scattered
    <3>1. /\ w.visited /\ Turn(w', "V") = Turn(w, "V") /\ (Reading(w', "V") <=> Reading(w, "V"))
          /\ Reading(w', "R") /\ w'.torn = w.torn
      BY <1>2, <2>1 DEF RecvMoves, VisitStands
    <3>2. w.torn # "R" /\ (Turn(w, "V") = S!Part => w.torn = "V")
      BY <2>1 DEF Phases, Parts, Scattered
    <3>3. Reads("V") => ~AtLength
      BY <2>1, <3>2 DEF Phases, AwaitsLength, RecvMoves
    <3>4. /\ Turn(w', "R") # S!Ok /\ Turn(w', "V") # S!Ok
          /\ Turn(w', "V") = S!Error => ~Sound'
      BY <2>1, <3>1, Replies DEF Phases, AwaitsLength, RecvMoves, SoundStays
    <3>5. Reads("V")' =>
            /\ w'.torn = "none" => First(w') = "V"
            /\ ~AtLength' /\ Holds' /\ w'.pc["R"] = "body"
      BY <1>1, <2>1, <3>1, <3>2, <3>3 DEF RecvMoves, Reads
    <3>6. Turn(w', "V") \in Chunk => Turn(w', "V")[2] # "length" /\ AtLength
      BY <1>1, <2>1, <3>1 DEF Phases, AwaitsLength
    <3>7. Turn(w', "V") \in Chunk => Holds' /\ w'.pc["R"] = "body" /\ AtLength'
      BY <1>1, <3>6 DEF RecvMoves
    <3> QED BY <3>1, <3>2, <3>4, <3>5, <3>6, <3>7 DEF AwaitsLength
  <2>2. CASE ~(w.pc["V"] = "length" /\ ~Scattered)
    BY <1>1, <2>2 DEF AwaitsLength, RecvMoves, VisitStands
  <2> QED BY <2>1, <2>2
<1>5. w.pc["V"] \notin {"body", "confirmed", "handed"}
  BY Replies DEF Phases, AwaitsBody, Taken
<1>6. AwaitsBody' /\ Taken'
  BY <1>5 DEF RecvMoves, VisitStands, AwaitsBody, Taken
<1>7. Failed'
  BY <1>1 DEF RecvMoves, VisitStands, SoundStays, Phases, Failed
<1> QED BY <1>1, <1>3, <1>4, <1>6, <1>7 DEF Phases

(* It has a part of what it reads and reads on.                            *)
LEMMA RecvReadsOn ==
  ASSUME ServerFlags, Phases, NEW l \in {"length", "body"}, RecvMoves(l), w.pc["R"] = l,
         Turn(w, "R") \in {S!Part, S!Torn}, w'.length["R"] = w.length["R"],
         w'.pc["V"] = "length" => Reading(w', "R")
  PROVE  Phases'
<1>1. /\ Holds => Holds'
      /\ ~Takes /\ Turn(w, "R") \notin Chunk \cup {Nil, S!Ok, S!Error}
      /\ AtLength <=> AtLength'
      /\ Unconfirmed <=> Unconfirmed'
      /\ InStep <=> InStep'
      /\ Scattered <=> Scattered'
      /\ Parts' /\ (Reads("V")' => Reads("V"))
  BY RecvKeeps, Replies DEF Takes, Holds, InStep, RecvMoves
<1>2. /\ w.pc["V"] \notin {"none", "start"} => w.visited
      /\ ~Scattered => Turn(w, "R") = S!Part /\ Reads("R") /\ w.torn = "R"
      /\ Scattered => w.pc["V"] \in {"length", "failed"}
  BY VisitedAfter DEF Phases, Parts, Reads, Scattered
<1>3. BeforeVisit'
  <2>1. CASE w.pc["V"] \in {"none", "start", "providing"}
    <3>1. InStep /\ w.torn = "R"
      BY <1>2, <2>1 DEF Phases, BeforeVisit
    <3> QED BY <1>1, <1>2, <2>1, <3>1, Replies
            DEF RecvMoves, VisitStands, SoundStays, Phases, BeforeVisit
  <2>2. CASE w.pc["V"] \notin {"none", "start", "providing"}
    BY <2>2 DEF BeforeVisit, RecvMoves, VisitStands
  <2> QED BY <2>1, <2>2
<1>4. AwaitsLength'
  <2>1. CASE w.pc["V"] = "length" /\ ~Scattered
    <3>1. w'.torn = "R" /\ Turn(w', "V") = Turn(w, "V") /\ w'.pc["R"] = w.pc["R"]
      BY <1>2, <2>1 DEF RecvMoves, VisitStands
    <3>2. Reads("V")' => InStep'
      BY <1>1, <1>2, <2>1 DEF Phases, AwaitsLength
    <3>3. /\ Turn(w', "R") # S!Ok /\ Turn(w', "V") # S!Ok
          /\ Turn(w', "V") = S!Error => ~Sound'
      BY <2>1, <3>1, Replies DEF Phases, AwaitsLength, RecvMoves, SoundStays
    <3>4. Turn(w', "V") \in Chunk =>
            Turn(w', "V")[2] # "length" /\ Holds' /\ w'.pc["R"] = "body" /\ AtLength'
      BY <1>1, <1>2, <2>1, <3>1 DEF Phases, AwaitsLength
    <3> QED BY <3>1, <3>2, <3>3, <3>4 DEF AwaitsLength
  <2>2. CASE ~(w.pc["V"] = "length" /\ ~Scattered)
    BY <1>1, <2>2 DEF AwaitsLength, RecvMoves, VisitStands
  <2> QED BY <2>1, <2>2
<1>5. w.pc["V"] \notin {"body", "confirmed", "handed"}
  BY <1>1 DEF Phases, AwaitsBody, Taken
<1>6. AwaitsBody' /\ Taken'
  BY <1>5 DEF RecvMoves, VisitStands, AwaitsBody, Taken
<1>7. Failed'
  <2>1. CASE w.pc["V"] = "failed" /\ Sound /\ ~Scattered
    <3>1. Holds /\ ~Reading(w, "V") /\ w.pc["R"] = "body" /\ AtLength
      BY <1>2, <2>1 DEF Phases, Failed
    <3> QED BY <1>1, <3>1 DEF Failed, RecvMoves
  <2>2. CASE ~(w.pc["V"] = "failed" /\ Sound /\ ~Scattered)
    BY <1>1, <2>2 DEF Failed, RecvMoves, VisitStands, SoundStays
  <2> QED BY <2>1, <2>2
<1> QED BY <1>1, <1>3, <1>4, <1>6, <1>7 DEF Phases

(* It answers a ping.                                                      *)
LEMMA RecvAnswers ==
  ASSUME ServerFlags, Phases, RecvMoves("providing"), w.pc["R"] = "body",
         Turn(w, "R") = Ping, Turn(w', "R") = Nil, ~Reading(w', "R")
  PROVE  Phases'
<1>1. /\ ~Takes /\ ~Holds
      /\ AtLength <=> AtLength'
      /\ Unconfirmed <=> Unconfirmed'
      /\ Scattered <=> Scattered'
      /\ Parts' /\ (Reads("V")' => Reads("V")) /\ ~Reads("R")'
  BY RecvKeeps DEF Takes, Holds
<1>2. w.pc["V"] \notin {"none", "start"} => w.visited
  BY VisitedAfter
<1>3. BeforeVisit'
  <2>1. w.pc["V"] \in {"none", "start", "providing"} => AtLength /\ Unconfirmed
    BY Replies DEF Phases, BeforeVisit
  <2> QED BY <1>1, <1>2, <2>1, Replies
          DEF RecvMoves, VisitStands, SoundStays, Phases, BeforeVisit
<1>4. AwaitsLength'
  BY <1>1, <1>2, Replies DEF RecvMoves, VisitStands, SoundStays, Phases, AwaitsLength
<1>5. w.pc["V"] \notin {"body", "confirmed", "handed"}
  BY Replies DEF Phases, AwaitsBody, Taken
<1>6. AwaitsBody' /\ Taken'
  BY <1>5 DEF RecvMoves, VisitStands, AwaitsBody, Taken
<1>7. Failed'
  BY <1>1 DEF RecvMoves, VisitStands, SoundStays, Phases, Failed
<1> QED BY <1>1, <1>3, <1>4, <1>6, <1>7 DEF Phases

LEMMA FirstIs ==
  ASSUME NEW x \in ServerWorkers, NEW a, Reading(x, a),
         \A b \in {"R", "V"} : b # a => ~Reading(x, b)
  PROVE  First(x) = a
<1>1. x.reads \in Seq({"R", "V"})
  BY DEF ServerWorkers
<1>2. 1 \in 1..Len(x.reads)
  <2>1. \E i \in 1..Len(x.reads) : TRUE
    BY DEF Reading
  <2> QED BY <1>1, <2>1
<1>3. x.reads[1] \in {"R", "V"} /\ Reading(x, x.reads[1])
  BY <1>1, <1>2 DEF Reading
<1>4. x.reads[1] = a
  BY <1>3
<1> QED BY <1>3, <1>4 DEF First

LEMMA RecvPops ==
  ASSUME ServerOnly, ServerReading, w.ready # <<>>, Head(w.ready).to = "R"
  PROVE  LET x == S!Rest IN
           /\ x \in ServerWorkers /\ OneEach(x) /\ Free(x, "R") /\ x.reads = w.reads
           /\ Turn(w, "R") = S!Got /\ S!Got \in Reply /\ ~Late(w) /\ ~Reading(w, "R")
           /\ Turn(x, "V") = Turn(w, "V")
           /\ Mild(w, x) /\ SameFlags(w, x) /\ x.pc = w.pc
<1> DEFINE x == S!Rest
           h == Head(w.ready)
<1>1. w \in ServerWorkers /\ OneEach(w)
  BY DEF ServerOnly, ServerReading, OneTurn
<1>2. /\ x \in ServerWorkers /\ OneEach(x) /\ h \in ServerHandlers /\ x.reads = w.reads
      /\ TurnOf(h, "R") => Free(x, "R")
      /\ Turn(w, "R") = h.got
      /\ Turn(x, "V") = Turn(w, "V")
      /\ ~Late(w)
      /\ Mild(w, x) /\ SameFlags(w, x) /\ x.pc = w.pc
  <2>1. /\ S!Rest \in ServerWorkers /\ OneEach(S!Rest) /\ Head(w.ready) \in ServerHandlers
        /\ S!Rest.reads = w.reads
        /\ \A a \in {"R", "V"} : TurnOf(Head(w.ready), a) => Free(S!Rest, a)
        /\ \A a \in {"R", "V"} : Head(w.ready).to = a =>
             Turn(w, a) = Head(w.ready).got /\ Turn(S!Rest, a) = Nil
        /\ \A a \in {"R", "V"} : Head(w.ready).to # a => Turn(S!Rest, a) = Turn(w, a)
        /\ Head(w.ready).to = "R" => ~Late(w)
        /\ Mild(w, S!Rest) /\ SameFlags(w, S!Rest) /\ S!Rest.pc = w.pc
    BY <1>1, Pops DEF S!Rest
  <2> QED BY <2>1
<1> HIDE DEF x
<1>3. h.got \in Reply
  BY <1>2 DEF ServerHandlers
<1>4. Free(x, "R") /\ ~Reading(w, "R")
  <2>1. Free(x, "R")
    BY <1>2 DEF TurnOf
  <2> QED BY <1>2, <2>1 DEF Free, Reading
<1> QED BY <1>2, <1>3, <1>4 DEF x, S!Got

(* The worker on the way: R has run, V is where it was.                    *)
RecvAlong(x) ==
  /\ x \in ServerWorkers /\ OneEach(x) /\ Free(x, "R") /\ x.reads = w.reads
  /\ Turn(x, "V") = Turn(w, "V") /\ x.pc["V"] = w.pc["V"]
  /\ Mild(w, x) /\ x.length["V"] = w.length["V"]
  /\ x.visited = w.visited /\ x.confirmed = w.confirmed
  /\ x.stopping = w.stopping /\ x.sendClosed = w.sendClosed /\ x.sock = w.sock
  /\ x.torn = w.torn
RecvRan == /\ ~Late(w) /\ Turn(w, "R") = S!Got /\ S!Got \in Reply /\ ~Reading(w, "R")
           /\ w.pc["R"] # "done" /\ S!Alive

LEMMA RecvBegins ==
  ASSUME ServerOnly, ServerReading, NEW l, l # "done", S!Resumes("R", l)
  PROVE  RecvAlong(S!Rest) /\ RecvRan /\ w.pc["R"] = l /\ S!Rest.length = w.length
<1>1. w.ready # <<>> /\ Head(w.ready).to = "R" /\ w.pc["R"] = l
  BY DEF S!Resumes
<1>2. S!Alive
  BY <1>1 DEF S!Alive, S!Coroutines
<1> QED BY <1>1, <1>2, RecvPops DEF RecvAlong, RecvRan, SameFlags

LEMMA AlongQuietly ==
  ASSUME NEW x, NEW y, RecvAlong(x), Softly(x, y)
  PROVE  RecvAlong(y) /\ y.length = x.length
<1>1. /\ y \in ServerWorkers /\ OneEach(y) /\ y.reads = x.reads
      /\ Turn(y, "V") = Turn(x, "V") /\ Free(y, "R")
  BY DEF RecvAlong, Softly, Quietly, Aborts
<1>2. Mild(w, y)
  BY DEF RecvAlong, Softly, Quietly, Mild, SameFlags
<1> QED BY <1>1, <1>2 DEF RecvAlong, Softly, SameFlags, SamePcs

LEMMA RecvFlags ==
  ASSUME ServerReading, RecvRan, VisitStands, w'.pc["R"] # "start", Mild(w, w'),
         w'.sendClosed = w.sendClosed, w'.sock = w.sock
  PROVE  ServerFlags'
BY FlagsCarry DEF ServerReading, RecvRan, Mild

LEMMA RecvAsks ==
  ASSUME ServerOnly, ServerReading, RecvRan, NEW x, RecvAlong(x),
         NEW l \in {"length", "body"}, w' = S!StartRead(x, "R", l)
  PROVE  /\ OneTurn' /\ ServerFlags' /\ RecvMoves(l) /\ w'.length = x.length
         /\ w'.pc["V"] = "length" => Reading(w', "R")
<1> DEFINE y == S!StartRead(x, "R", l)
<1>1. /\ y \in ServerWorkers /\ OneEach(y)
      /\ Turn(y, "V") = Turn(x, "V") /\ (Reading(y, "V") <=> Reading(x, "V"))
      /\ \A b \in {"R", "S", "V"} : y.pc[b] = IF b = "R" THEN l ELSE x.pc[b]
      /\ Mild(x, y) /\ SameFlags(x, y)
      /\ IF x.sock = "open"
         THEN /\ Turn(y, "R") = Nil /\ Reading(y, "R")
              /\ First(y) = IF First(x) = "none" THEN "R" ELSE First(x)
         ELSE Turn(y, "R") = S!Error /\ ~Reading(y, "R")
  BY AsksForChunk DEF RecvAlong, ServerPcs
<1> HIDE DEF y
<1>2. w' = y
  BY DEF y
<1>3. VisitStands /\ SoundStays /\ w'.pc["R"] = l
  <2>1. VisitStands /\ w'.pc["R"] = l
    BY <1>1, <1>2 DEF RecvAlong, SameFlags, VisitStands
  <2> QED BY <2>1, KeptSound DEF VisitStands
<1>4. ServerFlags'
  <2>1. Mild(w, w') /\ w'.sendClosed = w.sendClosed /\ w'.sock = w.sock
    BY <1>1, <1>2 DEF Mild, RecvAlong, SameFlags
  <2> QED BY <1>3, <2>1, RecvFlags
<1>5. Reading(x, "V") <=> Reading(w, "V")
  BY DEF Reading, RecvAlong
<1>6. Reading(y, "R") /\ Reading(y, "V") => First(y) = "V"
  <2> SUFFICES ASSUME Reading(y, "R"), Reading(y, "V") PROVE First(y) = "V"
    OBVIOUS
  <2>1. Reading(x, "V") /\ ~Reading(x, "R") /\ x \in ServerWorkers
    BY <1>1 DEF RecvAlong, Free
  <2>2. First(x) = "V"
    BY <2>1, FirstIs
  <2> QED BY <1>1, <2>2
<1>7. RecvMoves(l)
  BY <1>1, <1>2, <1>3, <1>5, <1>6 DEF RecvMoves, RecvRan, RecvAlong, ServerOnly, SameFlags
<1>8. w'.pc["V"] = "length" => Reading(w', "R")
  <2>1. w.pc["V"] = "length" => w.sock = "open"
    BY DEF ServerReading, ServerFlags, Visiting
  <2> QED BY <1>1, <1>2, <1>3, <2>1 DEF RecvAlong, VisitStands
<1> QED BY <1>1, <1>2, <1>4, <1>7, <1>8 DEF OneTurn, SameFlags

LEMMA RecvThrows ==
  ASSUME ServerOnly, ServerReading, RecvRan, NEW x, RecvAlong(x), x.length = w.length,
         w' = S!Throw(x, "R"), ~Takes
  PROVE  ServerReading'
<1>1. Throws(x, "R", w') /\ x \in ServerWorkers
  BY ThrowsOn DEF RecvAlong
<1>2. /\ VisitStands /\ w'.pc["R"] = "done" /\ w'.length = w.length /\ w'.torn = w.torn
  BY <1>1 DEF Throws, VisitStands, RecvAlong
<1>3. SoundStays
  BY <1>2, KeptSound DEF VisitStands
<1>4. /\ OneEach(w') /\ Free(w', "R") /\ (w'.reads = w.reads \/ w'.reads = <<>>)
      /\ w.visited => w'.reads = w.reads /\ Turn(w', "V") = Turn(w, "V")
      /\ Turn(w', "V") = Turn(w, "V") \/ Turn(w', "V") = S!Error
  BY <1>1 DEF Throws, RecvAlong, Aborts, Quietly, Lost
<1>5. Turn(w', "R") = Nil /\ ~Reading(w', "R")
  BY <1>4 DEF Free, InReady, Turn, TurnOf, Resumed
<1>6. /\ Reading(w', "V") => Reading(w, "V")
      /\ w.visited => (Reading(w', "V") <=> Reading(w, "V"))
  <2>1. Len(<<>>) = 0
    BY EmptySeq
  <2> QED BY <1>4, <2>1 DEF Reading
<1>7. RecvMoves("done")
  BY <1>2, <1>3, <1>4, <1>5, <1>6 DEF RecvMoves, RecvRan, ServerOnly
<1>8. ServerFlags'
  <2>1. Mild(w, w')
    BY <1>1, <1>2 DEF Mild, RecvAlong, Throws
  <2>2. /\ w.visited => w'.sendClosed = w.sendClosed /\ w'.sock = w.sock
        /\ w'.sendClosed => w.sendClosed \/ w'.stopping
        /\ w.sendClosed => w'.sendClosed
        /\ w'.sock = w.sock \/ w'.stopping
    BY <1>1 DEF Throws, RecvAlong, SameFlags
  <2> QED BY <1>2, <2>1, <2>2, FlagsCarry DEF ServerReading, RecvRan, Mild
<1>9. Phases'
  BY <1>2, <1>5, <1>7, RecvEnds DEF ServerReading
<1> QED BY <1>4, <1>8, <1>9 DEF ServerReading, OneTurn

LEMMA LengthAlong ==
  ASSUME NEW x, RecvAlong(x), NEW m \in Names \cup {"none"}
  PROVE  LET y == [x EXCEPT !.length.R = m] IN
           RecvAlong(y) /\ y.length["R"] = m /\ y.pc = x.pc
<1> DEFINE q == [x.length EXCEPT !["R"] = m]
           y == [x EXCEPT !.length = q]
<1>1. x \in ServerWorkers
  BY DEF RecvAlong
<1>2. q \in [{"R", "V"} -> Names \cup {"none"}] /\ q["R"] = m /\ q["V"] = x.length["V"]
  BY <1>1 DEF ServerWorkers
<1> HIDE DEF q
<1>3. /\ y \in ServerWorkers /\ y.ready = x.ready /\ y.reads = x.reads /\ y.pc = x.pc
      /\ y.backlog = x.backlog /\ y.length = q /\ y.visited = x.visited
      /\ y.confirmed = x.confirmed /\ y.stopping = x.stopping
      /\ y.sendClosed = x.sendClosed /\ y.sock = x.sock /\ y.torn = x.torn
  BY <1>1, <1>2 DEF ServerWorkers
<1>4. y = [x EXCEPT !.length.R = m]
  BY DEF q
<1> HIDE DEF y
<1>5. Quietly(x, y)
  BY <1>1, <1>3, QuietSame
<1>6. OneEach(y) /\ Turn(y, "V") = Turn(x, "V") /\ Free(y, "R")
  BY <1>5 DEF Quietly, Aborts, RecvAlong
<1>7. Mild(w, y)
  BY <1>3, <1>5 DEF Quietly, Mild, RecvAlong
<1>8. RecvAlong(y) /\ y.length["R"] = m /\ y.pc = x.pc
  BY <1>2, <1>3, <1>6, <1>7 DEF RecvAlong
<1> QED BY <1>4, <1>8

LEMMA RecvMsgs ==
  ASSUME ServerOnly, ServerReading, RecvRan, NEW x, RecvAlong(x), w' = S!RecvMsg(x),
         w.pc["R"] \in {"start", "providing"}, w.pc["R"] = "providing" => S!Got = S!Ok
  PROVE  ServerReading'
<1> DEFINE y == S!WakeDdl([x EXCEPT !.ddl = "armed"])
<1>1. w' = S!StartRead(y, "R", "length")
  BY DEF S!RecvMsg, S!SetDdl
<1>2. Softly(x, y)
  BY WakeSoftly DEF RecvAlong
<1> HIDE DEF y
<1>3. RecvAlong(y)
  BY <1>2, AlongQuietly
<1>4. OneTurn' /\ ServerFlags' /\ RecvMoves("length")
  BY <1>1, <1>3, RecvAsks
<1>5. Phases'
  BY <1>4, RecvAsksLength DEF ServerReading, RecvRan
<1> QED BY <1>4, <1>5 DEF ServerReading

LEMMA RecvGoesOn ==
  ASSUME ServerOnly, ServerReading, RecvRan, NEW x, RecvAlong(x), x.length = w.length,
         NEW l \in {"length", "body"}, w.pc["R"] = l, w' = S!StartRead(x, "R", l),
         S!Got \in {S!Part, S!Torn}
  PROVE  ServerReading'
<1>1. /\ OneTurn' /\ ServerFlags' /\ RecvMoves(l) /\ w'.length = w.length
      /\ w'.pc["V"] = "length" => Reading(w', "R")
  BY RecvAsks
<1>2. Phases'
  BY <1>1, RecvReadsOn DEF ServerReading, RecvRan
<1> QED BY <1>1, <1>2 DEF ServerReading

LEMMA ReadingReceives ==
  ASSUME ServerOnly, ServerReading,
         S!RecvStart \/ S!RecvLength \/ S!RecvBody \/ S!RecvAnswered
  PROVE  ServerReading'
<1> DEFINE x == S!Rest
           m == S!Got[1]
<1>1. CASE S!RecvStart
  <2>1. RecvAlong(x) /\ RecvRan /\ w.pc["R"] = "start"
    BY <1>1, RecvBegins DEF S!RecvStart
  <2> QED BY <1>1, <2>1, RecvMsgs DEF S!RecvStart
<1>2. CASE S!RecvAnswered
  <2>1. RecvAlong(x) /\ RecvRan /\ w.pc["R"] = "providing" /\ x.length = w.length
    BY <1>2, RecvBegins DEF S!RecvAnswered
  <2>2. CASE S!Got = S!Ok /\ w' = S!RecvMsg(x)
    BY <2>1, <2>2, RecvMsgs
  <2>3. CASE w' = S!Throw(x, "R")
    <3>1. ~Takes
      BY <2>1 DEF Takes
    <3> QED BY <2>1, <2>3, <3>1, RecvThrows
  <2> QED BY <1>2, <2>2, <2>3 DEF S!RecvAnswered
<1>3. CASE S!RecvLength
  <2>1. RecvAlong(x) /\ RecvRan /\ w.pc["R"] = "length" /\ x.length = w.length
    BY <1>3, RecvBegins DEF S!RecvLength
  <2> DEFINE y == [x EXCEPT !.length.R = m]
  <2>2. CASE S!Got[2] = "length" /\ w' = S!StartRead(y, "R", "body")
    <3>1. S!Got \in Chunk /\ m \in Names /\ m # "none"
      BY <2>1, <2>2 DEF RecvRan, Reply, Chunk, Names
    <3>2. RecvAlong(y) /\ y.length["R"] = m
      BY <2>1, <3>1, LengthAlong
    <3> HIDE DEF y, x, m
    <3>3. /\ OneTurn' /\ ServerFlags' /\ RecvMoves("body") /\ w'.length = y.length
          /\ w'.pc["V"] = "length" => Reading(w', "R")
      BY <2>1, <2>2, <3>2, RecvAsks
    <3>4. Phases'
      <4>1. Turn(w, "R") \in Chunk /\ Turn(w, "R")[2] = "length" /\ w'.length["R"] # "none"
        BY <2>1, <2>2, <3>1, <3>2, <3>3 DEF RecvRan
      <4> QED BY <2>1, <3>3, <4>1, RecvAsksBody DEF ServerReading
    <3> QED BY <3>3, <3>4 DEF ServerReading
  <2>3. CASE S!Got[2] # "length" /\ w' = S!Throw(x, "R")
    <3>1. ~Takes
      BY <2>1, <2>3 DEF Takes, RecvRan
    <3> QED BY <2>1, <2>3, <3>1, RecvThrows
  <2>4. CASE S!ReadOn("R", "length")
    BY <2>1, <2>4, RecvGoesOn DEF S!ReadOn
  <2> QED BY <1>3, <2>2, <2>3, <2>4 DEF S!RecvLength
<1>4. CASE S!RecvBody
  <2>1. RecvAlong(x) /\ RecvRan /\ w.pc["R"] = "body" /\ x.length = w.length
    BY <1>4, RecvBegins DEF S!RecvBody
  <2> DEFINE y == [x EXCEPT !.length.R = "none"]
             u == S!GoTo(y, "R", "providing")
             z == S!Post(u, "provide", <<"R", "pong">>)
  <2>2. CASE S!Got = Ping /\ w' = S!Provide(y, "R", "pong")
    <3>1. RecvAlong(y)
      BY <2>1, LengthAlong
    <3>2. w' = z
      BY <2>2 DEF S!Provide
    <3> HIDE DEF x, y
    <3>3. /\ Quietly(y, u) /\ SameFlags(y, u) /\ u \in ServerWorkers
          /\ \A b \in {"R", "S", "D", "V"} : u.pc[b] = IF b = "R" THEN "providing" ELSE y.pc[b]
      BY <3>1, MoveFlags DEF RecvAlong, ServerPcs
    <3> HIDE DEF u
    <3>4. OneEach(u) /\ Free(u, "R") /\ u.reads = y.reads /\ Turn(u, "V") = Turn(y, "V")
      BY <3>1, <3>3 DEF Quietly, Aborts, RecvAlong
    <3>5. /\ z \in ServerWorkers /\ OneEach(z)
          /\ \A b \in {"R", "V"} : Turn(z, b) = Turn(u, b)
          /\ z.reads = u.reads
          /\ Mild(u, z) /\ SameFlags(u, z) /\ z.pc = u.pc
      BY <3>3, <3>4, PostsProvide DEF Provided
    <3> HIDE DEF z
    <3>6. VisitStands /\ w'.pc["R"] = "providing"
      BY <3>1, <3>2, <3>3, <3>5 DEF RecvAlong, SameFlags, VisitStands
    <3>7. Turn(w', "R") = Nil /\ ~Reading(w', "R")
      <4>1. Turn(u, "R") = Nil /\ ~Reading(u, "R")
        BY <3>4 DEF Free, InReady, Turn, TurnOf, Resumed
      <4> QED BY <3>2, <3>5, <4>1 DEF Reading
    <3>8. w'.reads = w.reads /\ Turn(w', "V") = Turn(w, "V")
      BY <3>1, <3>2, <3>4, <3>5 DEF RecvAlong
    <3>9. RecvMoves("providing")
      <4>1. w'.length["V"] = w.length["V"] /\ w'.torn = w.torn
        BY <3>1, <3>2, <3>3, <3>5 DEF RecvAlong, SameFlags
      <4>2. SoundStays
        BY <3>6, KeptSound DEF VisitStands
      <4>3. Reading(w', "V") <=> Reading(w, "V")
        BY <3>8 DEF Reading
      <4> QED BY <2>1, <3>6, <3>7, <3>8, <4>1, <4>2, <4>3 DEF RecvMoves, RecvRan, ServerOnly
    <3>10. ServerFlags'
      <4>1. Mild(w, w') /\ w'.sendClosed = w.sendClosed /\ w'.sock = w.sock
        BY <3>1, <3>2, <3>3, <3>5 DEF Mild, RecvAlong, SameFlags, Quietly
      <4> QED BY <2>1, <3>6, <4>1, RecvFlags
    <3>11. Phases'
      BY <2>1, <2>2, <3>7, <3>9, RecvAnswers DEF ServerReading, RecvRan
    <3> QED BY <3>2, <3>5, <3>10, <3>11 DEF ServerReading, OneTurn
  <2>3. CASE w' = S!Throw(x, "R")
    <3>1. ~Takes
      BY <2>1 DEF Takes
    <3> QED BY <2>1, <2>3, <3>1, RecvThrows
  <2>4. CASE S!ReadOn("R", "body")
    BY <2>1, <2>4, RecvGoesOn DEF S!ReadOn
  <2> QED BY <1>4, <2>2, <2>3, <2>4 DEF S!RecvBody, Ping
<1> QED BY <1>1, <1>2, <1>3, <1>4

-----------------------------------------------------------------------------
(* The body of visit().  V's turn is over, and R stays where it is.        *)
VisitTo(l) ==
  /\ w'.pc["V"] = l /\ w'.pc["R"] = w.pc["R"] /\ SoundStays /\ UNCHANGED <<up, upRead>>
  /\ Turn(w', "R") = Turn(w, "R") /\ w'.length["R"] = w.length["R"] /\ w'.torn = w.torn
  /\ Reading(w', "R") <=> Reading(w, "R")
VisitRan == /\ Turn(w, "V") = S!Got /\ S!Got \in Reply /\ ~Reading(w, "V")
            /\ Turn(w, "R") # Nil => Late(w)
            /\ Turn(w, "R") = Nil \/ Turn(w, "R") \in Reply
VisitReads == /\ Reading(w', "V") /\ Turn(w', "V") = Nil
              /\ Reading(w', "R") => First(w') = "R"

LEMMA VisitViews ==
  ASSUME NEW l, VisitTo(l)
  PROVE  /\ Holds <=> Holds'
         /\ Takes <=> Takes'
         /\ AtLength <=> AtLength'
         /\ Unconfirmed <=> Unconfirmed'
         /\ InStep <=> InStep'
         /\ Scattered <=> Scattered'
         /\ Reads("R") <=> Reads("R")'
BY DEF Holds, Takes, AtLength, Unconfirmed, Confirmed, InStep, Scattered, Reads, VisitTo

LEMMA VisitParts ==
  ASSUME Phases, NEW l, VisitTo(l), Turn(w', "V") = Nil,
         w.pc["V"] \in {"length", "failed"} => l \in {"length", "failed"} \/ ~Scattered
  PROVE  Parts' /\ (Reads("V")' <=> Reading(w', "V"))
<1>1. /\ Turn(w', "V") \notin Chunk
      /\ \A got \in {S!Part, S!Torn} : Turn(w', "V") # got
      /\ Scattered <=> Scattered'
  BY VisitViews, Replies
<1>2. Parts'
  BY <1>1 DEF Phases, Parts, VisitTo
<1> QED BY <1>1, <1>2 DEF Reads

(* It was sent: visit() asks for the length of what comes.                 *)
LEMMA VisitAsksLength ==
  ASSUME Phases, VisitRan, VisitTo("length"), VisitReads, w.pc["V"] = "providing",
         Turn(w, "V") = S!Ok
  PROVE  Phases'
<1>1. /\ Holds <=> Holds'
      /\ Takes <=> Takes'
      /\ AtLength <=> AtLength'
      /\ Unconfirmed <=> Unconfirmed'
      /\ InStep <=> InStep'
      /\ Reads("R") <=> Reads("R")'
  BY VisitViews
<1>2. Turn(w, "R") # S!Ok
  BY Replies DEF Phases, BeforeVisit, VisitRan
<1>3. Parts'
  BY VisitParts DEF VisitReads
<1>4. w'.torn # "V"
  BY DEF Phases, BeforeVisit, VisitTo
<1>5. AwaitsLength'
  <2>1. w'.torn = "R" => (Reads("R")' => InStep')
    BY <1>1 DEF Phases, BeforeVisit
  <2>2. Reading(w', "R") => InStep' /\ First(w') = "R"
    BY <1>1 DEF Phases, BeforeVisit, VisitTo, VisitReads, Reads
  <2>3. /\ ~AtLength' => Holds' \/ Takes'
        /\ ~Unconfirmed' => Holds'
        /\ Turn(w', "R") \in Chunk /\ w'.pc["R"] = "length" => ~AtLength'
    BY <1>1 DEF Phases, BeforeVisit, VisitTo
  <2>4. Turn(w', "R") # S!Ok /\ Turn(w', "V") = Nil
    BY <1>2 DEF VisitTo, VisitReads
  <2> QED BY <1>4, <2>1, <2>2, <2>3, <2>4, Replies DEF AwaitsLength
<1> QED BY <1>3, <1>5 DEF Phases, BeforeVisit, AwaitsBody, Taken, Failed, VisitTo

(* A ping came first: visit() asks for the next length.                    *)
LEMMA VisitAsksAgain ==
  ASSUME Phases, VisitRan, VisitTo("length"), VisitReads, w.pc["V"] = "body",
         Turn(w, "V") = Ping
  PROVE  Phases'
<1>1. /\ AtLength <=> AtLength'
      /\ Unconfirmed <=> Unconfirmed'
  BY VisitViews
<1>2. Parts'
  BY VisitParts DEF VisitReads
<1>3. w'.torn \notin {"R", "V"}
  BY Replies DEF Phases, Parts, AwaitsBody, VisitTo
<1>4. AwaitsLength'
  BY <1>1, <1>3, Replies DEF Phases, AwaitsBody, AwaitsLength, VisitTo, VisitReads
<1> QED BY <1>2, <1>4 DEF Phases, BeforeVisit, AwaitsBody, Taken, Failed, VisitTo

(* It has a length: visit() asks for the body.                             *)
LEMMA VisitAsksBody ==
  ASSUME Phases, VisitRan, VisitTo("body"), VisitReads, w.pc["V"] = "length",
         WholeMessages(up), upRead \in 0..Len(up), Len(up) \in Nat,
         Turn(w, "V") \in Chunk, Turn(w, "V")[2] = "length",
         w'.length["V"] = Turn(w, "V")[1]
  PROVE  Phases'
<1>1. /\ AtLength <=> AtLength'
      /\ Unconfirmed <=> Unconfirmed'
  BY VisitViews
<1>2. ~Scattered /\ Parts'
  <2>1. ~Scattered
    BY DEF Phases, Parts
  <2> QED BY <2>1, VisitParts DEF VisitReads
<1>3. /\ ~Reading(w, "R") /\ ~AtLength /\ Unconfirmed /\ w.torn = "none"
      /\ Turn(w, "R") \in Chunk => ~Late(w)
      /\ Turn(w, "V") = up[upRead] /\ 0 < upRead /\ Turn(w, "R") # S!Ok
  BY <1>2 DEF Phases, AwaitsLength
<1>4. Turn(w, "R") \in {Nil, S!Error}
  <2>1. Turn(w, "R") \notin {S!Part, S!Torn}
    BY <1>2, <1>3 DEF Phases, Parts
  <2>2. Turn(w, "R") = Nil \/ Turn(w, "R") \in Chunk \cup {S!Ok, S!Error, S!Part, S!Torn}
    BY DEF VisitRan, Reply, S!Ok, S!Error, S!Part, S!Torn
  <2> QED BY <1>3, <2>1, <2>2, Replies DEF VisitRan
<1>5. upRead \in 1..Len(up) /\ up[upRead][2] = "length"
  BY <1>3
<1>6. up[upRead][1] \in {"ping", "confirmed"}
  BY <1>5 DEF WholeMessages
<1>7. up[upRead] = <<w'.length["V"], "length">>
  BY <1>3, <1>5 DEF Chunk
<1>8. AwaitsBody'
  BY <1>1, <1>3, <1>4, <1>6, <1>7, Replies DEF AwaitsBody, VisitTo, VisitReads
<1> QED BY <1>2, <1>8 DEF Phases, BeforeVisit, AwaitsLength, Taken, Failed, VisitTo

(* It has a part of what it reads and reads on.                            *)
LEMMA VisitReadsOn ==
  ASSUME Phases, VisitRan, NEW l \in {"length", "body"}, VisitTo(l), VisitReads,
         w.pc["V"] = l, Turn(w, "V") \in {S!Part, S!Torn}, w'.length["V"] = w.length["V"]
  PROVE  Phases'
<1>1. /\ Holds <=> Holds'
      /\ Takes <=> Takes'
      /\ AtLength <=> AtLength'
      /\ Unconfirmed <=> Unconfirmed'
      /\ Scattered <=> Scattered'
  BY VisitViews
<1>2. Scattered => l = "length"
  BY DEF Phases, Parts
<1>3. Parts'
  BY <1>2, VisitParts DEF VisitReads
<1>4. ~Scattered => w.torn = "V" /\ Reads("V")
  BY DEF Phases, Parts, Reads, Scattered
<1>5. AwaitsLength'
  <2>1. CASE l = "length" /\ ~Scattered
    <3>1. w'.torn = "V" /\ Reads("V")
      BY <1>4, <2>1 DEF VisitTo
    <3>2. Turn(w', "R") # S!Ok /\ Turn(w', "V") = Nil
      BY <2>1 DEF Phases, AwaitsLength, VisitTo, VisitReads
    <3>3. /\ Reading(w', "R") => ~AtLength' /\ Holds' /\ w'.pc["R"] = "body"
          /\ ~Reading(w', "R") /\ AtLength' =>
               /\ w'.pc["R"] = "length" => Turn(w', "R") \notin Chunk
               /\ ~Unconfirmed' => Holds'
          /\ ~Reading(w', "R") /\ ~AtLength' => Holds' \/ Takes'
      BY <1>1, <1>4, <2>1, <3>1 DEF Phases, AwaitsLength, VisitTo
    <3> QED BY <3>1, <3>2, <3>3, Replies DEF AwaitsLength
  <2>2. CASE ~(l = "length" /\ ~Scattered)
    BY <1>1, <2>2 DEF AwaitsLength, VisitTo
  <2> QED BY <2>1, <2>2
<1>6. AwaitsBody'
  <2>1. CASE l = "body"
    BY <1>1, <1>2, <1>4, <2>1, Replies DEF Phases, AwaitsBody, VisitTo, VisitReads
  <2>2. CASE l # "body"
    BY <2>2 DEF AwaitsBody, VisitTo
  <2> QED BY <2>1, <2>2
<1> QED BY <1>3, <1>5, <1>6 DEF Phases, BeforeVisit, Taken, Failed, VisitTo

(* The confirmation.                                                       *)
LEMMA VisitTaken ==
  ASSUME Phases, VisitRan, VisitTo("confirmed"), ~Reading(w', "V"), Turn(w', "V") = Nil,
         w.pc["V"] = "body"
  PROVE  Phases'
<1>1. Taken'
  BY DEF Phases, AwaitsBody, Taken, VisitTo
<1>2. Parts'
  BY VisitParts
<1> QED BY <1>1, <1>2 DEF Phases, BeforeVisit, AwaitsLength, AwaitsBody, Failed, VisitTo

(* The visit fails, as the connection or the worker does, or as recv_msgs  *)
(* has the length of what visit() has read, or a part of it.               *)
LEMMA VisitFails ==
  ASSUME Phases, VisitRan, VisitTo("failed"), ~Reading(w', "V"), Turn(w', "V") = Nil,
         \/ w.pc["V"] = "start" /\ ~Sound'
         \/ w.pc["V"] = "providing" /\ Turn(w, "V") # S!Ok
         \/ w.pc["V"] = "length" /\ Turn(w, "V")[2] # "length" /\ Turn(w, "V") # S!Part
         \/ /\ w.pc["V"] = "body" /\ Turn(w, "V") # <<w.length["V"], "body">>
            /\ Turn(w, "V") # S!Part
  PROVE  Phases'
<1>1. /\ Holds <=> Holds'
      /\ AtLength <=> AtLength'
      /\ Scattered <=> Scattered'
      /\ Reads("R") <=> Reads("R")'
      /\ Parts'
  BY VisitViews, VisitParts
<1>2. /\ Turn(w, "V") = S!Torn => Scattered
      /\ Turn(w, "V") \in Chunk \cup {S!Ok, S!Error, S!Part, S!Torn}
  BY DEF Phases, Parts, VisitRan, Reply, S!Ok, S!Error, S!Part, S!Torn
<1>3. \/ ~Sound' \/ Scattered
      \/ Holds /\ (Reads("R") => w.pc["R"] = "body" /\ AtLength)
  <2>1. CASE w.pc["V"] = "start" /\ ~Sound'
    BY <2>1
  <2>2. CASE w.pc["V"] = "providing" /\ Turn(w, "V") # S!Ok
    <3>1. Turn(w, "V") = S!Error
      BY <1>2, <2>2, Replies DEF Phases, BeforeVisit
    <3> QED BY <2>2, <3>1 DEF Phases, BeforeVisit, VisitTo, SoundStays
  <2>3. CASE /\ w.pc["V"] = "length" /\ Turn(w, "V")[2] # "length" /\ Turn(w, "V") # S!Part
             /\ ~Scattered
    <3>1. CASE Turn(w, "V") \in Chunk
      <4>1. ~(Takes /\ ~Late(w))
        BY Replies DEF Takes, VisitRan
      <4> QED BY <2>3, <3>1, <4>1 DEF Phases, AwaitsLength
    <3>2. CASE Turn(w, "V") \notin Chunk
      <4>1. Turn(w, "V") = S!Error
        BY <1>2, <2>3, <3>2 DEF Phases, AwaitsLength
      <4> QED BY <2>3, <4>1 DEF Phases, AwaitsLength, VisitTo, SoundStays
    <3> QED BY <3>1, <3>2
  <2>4. CASE /\ w.pc["V"] = "body" /\ Turn(w, "V") # <<w.length["V"], "body">>
             /\ Turn(w, "V") # S!Part
    <3>1. Turn(w, "V") \notin Chunk /\ Turn(w, "V") # S!Ok
      BY <2>4 DEF Phases, AwaitsBody
    <3>2. Turn(w, "V") = S!Error \/ Scattered
      BY <1>2, <2>4, <3>1
    <3> QED BY <2>4, <3>2 DEF Phases, AwaitsBody, VisitTo, SoundStays
  <2> QED BY <2>1, <2>2, <2>3, <2>4
<1>4. Failed'
  BY <1>1, <1>3 DEF Failed, VisitTo
<1> QED BY <1>1, <1>4 DEF Phases, BeforeVisit, AwaitsLength, AwaitsBody, Taken, VisitTo

LEMMA VisitorPops ==
  ASSUME ServerOnly, ServerReading, w.ready # <<>>, Head(w.ready).to = "V"
  PROVE  LET x == S!Rest IN
           /\ x \in ServerWorkers /\ OneEach(x) /\ Free(x, "V") /\ x.reads = w.reads
           /\ Turn(x, "R") = Turn(w, "R") /\ VisitRan
           /\ Mild(w, x) /\ SameFlags(w, x) /\ x.pc = w.pc
<1> DEFINE x == S!Rest
           h == Head(w.ready)
<1>1. w \in ServerWorkers /\ OneEach(w)
  BY DEF ServerOnly, ServerReading, OneTurn
<1>2. /\ x \in ServerWorkers /\ OneEach(x) /\ h \in ServerHandlers /\ x.reads = w.reads
      /\ TurnOf(h, "V") => Free(x, "V")
      /\ Turn(w, "V") = h.got
      /\ Turn(x, "R") = Turn(w, "R")
      /\ Turn(w, "R") # Nil => Late(w)
      /\ Mild(w, x) /\ SameFlags(w, x) /\ x.pc = w.pc
  <2>1. /\ S!Rest \in ServerWorkers /\ OneEach(S!Rest) /\ Head(w.ready) \in ServerHandlers
        /\ S!Rest.reads = w.reads
        /\ \A a \in {"R", "V"} : TurnOf(Head(w.ready), a) => Free(S!Rest, a)
        /\ \A a \in {"R", "V"} : Head(w.ready).to = a =>
             Turn(w, a) = Head(w.ready).got /\ Turn(S!Rest, a) = Nil
        /\ \A a \in {"R", "V"} : Head(w.ready).to # a => Turn(S!Rest, a) = Turn(w, a)
        /\ Head(w.ready).to = "V" /\ Turn(w, "R") # Nil => Late(w)
        /\ Mild(w, S!Rest) /\ SameFlags(w, S!Rest) /\ S!Rest.pc = w.pc
    BY <1>1, Pops DEF S!Rest
  <2> QED BY <2>1
<1> HIDE DEF x
<1>3. h.got \in Reply
  BY <1>2 DEF ServerHandlers
<1>4. Free(x, "V") /\ ~Reading(w, "V")
  <2>1. Free(x, "V")
    BY <1>2 DEF TurnOf
  <2> QED BY <1>2, <2>1 DEF Free, Reading
<1>5. Turn(w, "R") = Nil \/ Turn(w, "R") \in Reply
  BY <1>1, TurnIs DEF OneEach
<1> QED BY <1>2, <1>3, <1>4, <1>5 DEF x, S!Got, VisitRan

(* The worker on the way: V has run, R is where it was.                    *)
VisitAlong(x) ==
  /\ x \in ServerWorkers /\ OneEach(x) /\ Free(x, "V") /\ x.reads = w.reads
  /\ Turn(x, "R") = Turn(w, "R") /\ x.pc["R"] = w.pc["R"]
  /\ Mild(w, x) /\ x.length["R"] = w.length["R"]
  /\ x.visited /\ x.stopping = w.stopping /\ x.sock = w.sock /\ x.torn = w.torn

LEMMA VisitGoes ==
  ASSUME ServerOnly, ServerReading, NEW l \in {"providing", "length", "body"},
         S!Resumes("V", l)
  PROVE  /\ VisitAlong(S!Rest) /\ VisitRan /\ w.pc["V"] = l
         /\ S!Rest.length = w.length /\ S!Rest.confirmed = w.confirmed
         /\ S!Rest.sendClosed = w.sendClosed
<1>1. w.ready # <<>> /\ Head(w.ready).to = "V" /\ w.pc["V"] = l
  BY DEF S!Resumes
<1>2. w.visited
  BY <1>1, VisitedAfter DEF ServerReading
<1> QED BY <1>1, <1>2, VisitorPops DEF VisitAlong, SameFlags

LEMMA VisitQuietly ==
  ASSUME NEW x, NEW y, VisitAlong(x), Quietly(x, y), y.pc["R"] = x.pc["R"],
         y.length["R"] = x.length["R"], y.visited, y.stopping = x.stopping, y.sock = x.sock,
         y.torn = x.torn, x.sendClosed => y.sendClosed
  PROVE  VisitAlong(y)
<1>1. /\ y \in ServerWorkers /\ OneEach(y) /\ y.reads = x.reads
      /\ Turn(y, "R") = Turn(x, "R") /\ Free(y, "V")
  BY DEF VisitAlong, Quietly, Aborts
<1>2. NoMessage(w) => NoMessage(y)
  BY DEF VisitAlong, Quietly, Mild
<1>3. Draining(y) => Draining(w) \/ y.sendClosed
  BY DEF VisitAlong, Quietly, Mild
<1> QED BY <1>1, <1>2, <1>3 DEF VisitAlong, Mild

(* Once the visit has been sent, the flags go on like this.                *)
LEMMA VisitFlags ==
  ASSUME ServerFlags, w.pc["V"] \in {"providing", "length", "body"},
         w'.pc["V"] \in {"length", "body", "confirmed", "failed"}, w'.pc["R"] = w.pc["R"],
         w'.visited, w'.confirmed <=> w'.pc["V"] = "confirmed",
         w'.sock = w.sock, w'.pc["V"] # "failed" => w'.sendClosed,
         w'.pc["V"] = "confirmed" => NoMessage(w'), Draining(w') => w'.sendClosed
  PROVE  ServerFlags'
BY DEF ServerFlags, Visiting, Draining

LEMMA VisitAsks ==
  ASSUME ServerOnly, ServerReading, VisitRan, NEW x, VisitAlong(x),
         NEW l \in {"length", "body"}, w' = S!StartRead(x, "V", l),
         w.pc["V"] \in {"providing", "length", "body"}, x.sendClosed, ~x.confirmed
  PROVE  /\ OneTurn' /\ ServerFlags' /\ VisitTo(l) /\ VisitReads
         /\ w'.length = x.length
<1> DEFINE y == S!StartRead(x, "V", l)
<1>1. /\ y \in ServerWorkers /\ OneEach(y)
      /\ Turn(y, "R") = Turn(x, "R") /\ (Reading(y, "R") <=> Reading(x, "R"))
      /\ \A b \in {"R", "S", "V"} : y.pc[b] = IF b = "V" THEN l ELSE x.pc[b]
      /\ Mild(x, y) /\ SameFlags(x, y)
      /\ IF x.sock = "open"
         THEN /\ Turn(y, "V") = Nil /\ Reading(y, "V")
              /\ First(y) = IF First(x) = "none" THEN "V" ELSE First(x)
         ELSE Turn(y, "V") = S!Error /\ ~Reading(y, "V")
  BY AsksForChunk DEF VisitAlong, ServerPcs
<1> HIDE DEF y
<1>2. w' = y
  BY DEF y
<1>3. SoundStays
  BY <1>1, <1>2, KeptSound DEF VisitAlong, SameFlags
<1>4. Reading(x, "R") <=> Reading(w, "R")
  BY DEF Reading, VisitAlong
<1>5. VisitTo(l)
  BY <1>1, <1>2, <1>3, <1>4 DEF VisitTo, VisitAlong, ServerOnly, SameFlags
<1>6. VisitReads
  <2>1. x.sock = "open"
    BY DEF ServerReading, ServerFlags, Visiting, VisitAlong
  <2>2. Reading(x, "R") => First(x) = "R"
    BY FirstIs DEF VisitAlong, Free
  <2> QED BY <1>1, <1>2, <2>1, <2>2 DEF VisitReads
<1>7. ServerFlags'
  BY <1>1, <1>2, <1>5, VisitFlags DEF ServerReading, VisitTo, VisitAlong, SameFlags
<1> QED BY <1>1, <1>2, <1>5, <1>6, <1>7 DEF OneTurn, SameFlags

LEMMA VisitEnds ==
  ASSUME ServerOnly, ServerReading, VisitRan, NEW x, VisitAlong(x), ~x.confirmed,
         w' = S!GoTo(x, "V", "failed"), w.sendClosed => x.sendClosed,
         \/ w.pc["V"] = "start" /\ w.sock # "open"
         \/ w.pc["V"] = "providing" /\ Turn(w, "V") # S!Ok
         \/ w.pc["V"] = "length" /\ Turn(w, "V")[2] # "length" /\ Turn(w, "V") # S!Part
         \/ /\ w.pc["V"] = "body" /\ Turn(w, "V") # <<w.length["V"], "body">>
            /\ Turn(w, "V") # S!Part
  PROVE  ServerReading'
<1> DEFINE y == S!GoTo(x, "V", "failed")
<1>1. /\ Quietly(x, y) /\ SameFlags(x, y) /\ y \in ServerWorkers
      /\ \A b \in {"R", "S", "D", "V"} : y.pc[b] = IF b = "V" THEN "failed" ELSE x.pc[b]
  BY MoveFlags DEF VisitAlong, ServerPcs
<1> HIDE DEF y
<1>2. w' = y
  BY DEF y
<1>3. VisitAlong(y)
  BY <1>1, VisitQuietly DEF VisitAlong, SameFlags
<1>4. SoundStays
  BY <1>2, <1>3, KeptSound DEF VisitAlong
<1>5. Reading(w', "R") <=> Reading(w, "R")
  BY <1>2, <1>3 DEF Reading, VisitAlong
<1>6. VisitTo("failed") /\ ~Reading(w', "V") /\ Turn(w', "V") = Nil
  BY <1>1, <1>2, <1>3, <1>4, <1>5
     DEF VisitTo, VisitAlong, ServerOnly, Free, InReady, TurnOf, Turn, Resumed
<1>7. w.pc["V"] = "start" /\ w.sock # "open" => w.stopping
  BY DEF ServerReading, ServerFlags, S!Alive
<1>8. Phases'
  <2>1. w.pc["V"] = "start" /\ w.sock # "open" => ~Sound'
    BY <1>2, <1>3, <1>7 DEF VisitAlong, Sound
  <2> QED BY <1>6, <2>1, VisitFails DEF ServerReading
<1>9. ServerFlags'
  <2>1. w.pc["V"] \notin {"none", "confirmed", "handed"}
    OBVIOUS
  <2>2. w'.pc["R"] # "start"
    BY <1>6, <2>1 DEF ServerReading, ServerFlags, VisitTo
  <2>3. Draining(w') => w'.sendClosed
    BY <1>1, <1>2, <1>3 DEF VisitAlong, Mild, SameFlags, ServerReading, ServerFlags, Draining
  <2>4. w'.visited /\ ~w'.confirmed
    BY <1>1, <1>2 DEF VisitAlong, SameFlags
  <2> QED BY <1>6, <2>2, <2>3, <2>4 DEF ServerFlags, Visiting, VisitTo, Draining
<1> QED BY <1>2, <1>3, <1>8, <1>9 DEF ServerReading, OneTurn, VisitAlong

(* visit() starts: it cancels recv_msgs's read.                            *)
LEMMA VisitCalls ==
  ASSUME Phases, w.pc["V"] = "start", w'.pc["V"] = "providing", w'.pc["R"] = w.pc["R"],
         UNCHANGED <<up, upRead>>, w'.length["R"] = w.length["R"], w'.torn = w.torn,
         Turn(w', "R") = Turn(w, "R") \/ (Turn(w, "R") = Nil /\ Turn(w', "R") = S!Error),
         Turn(w', "V") = Nil, \A a : ~Reading(w', a)
  PROVE  Phases'
<1>1. /\ Holds => Holds'
      /\ Takes => Takes'
      /\ AtLength <=> AtLength'
      /\ Unconfirmed <=> Unconfirmed'
  BY Replies DEF Holds, Takes, AtLength, Unconfirmed, Confirmed
<1>2. /\ \A got \in {S!Part, S!Torn} : /\ Turn(w', "R") = got => Turn(w, "R") = got
                                     /\ Turn(w', "V") # got
      /\ Turn(w', "R") \in Chunk => Turn(w', "R") = Turn(w, "R")
      /\ Turn(w', "V") \notin Chunk
  BY Replies
<1>3. /\ Parts'
      /\ Reads("R")' => Reads("R") /\ (InStep => InStep')
  BY <1>1, <1>2 DEF Phases, Parts, Scattered, Reads, InStep
<1>4. BeforeVisit'
  BY <1>1, <1>3, Replies DEF Phases, BeforeVisit
<1> QED BY <1>3, <1>4 DEF Phases, AwaitsLength, AwaitsBody, Taken, Failed

LEMMA ReadingVisitStarts ==
  ASSUME ServerOnly, ServerReading, S!VisitStart
  PROVE  ServerReading'
<1> DEFINE q == [S!Rest EXCEPT !.visited = TRUE]
           r == S!CancelReads(q)
           s == S!WakeDdl([r EXCEPT !.ddl = "armed"])
           u == S!GoTo(s, "V", "providing")
           z == S!Post(u, "provide", <<"V", "visit">>)
<1>1. /\ w.ready # <<>> /\ Head(w.ready).to = "V" /\ w.pc["V"] = "start"
      /\ \/ w.sock = "open" /\ w' = z
         \/ w.sock # "open" /\ w' = S!GoTo(q, "V", "failed")
  BY DEF S!VisitStart, S!Resumes, S!SetDdl, S!Provide
<1>2. /\ q \in ServerWorkers /\ OneEach(q) /\ Free(q, "V") /\ q.reads = w.reads
      /\ Turn(q, "R") = Turn(w, "R") /\ q.pc = w.pc /\ q.visited
      /\ Mild(w, q) /\ q.length = w.length /\ q.confirmed = w.confirmed
      /\ q.stopping = w.stopping /\ q.sendClosed = w.sendClosed /\ q.sock = w.sock
      /\ q.torn = w.torn /\ VisitRan
  <2> DEFINE x == S!Rest
  <2>1. /\ x \in ServerWorkers /\ OneEach(x) /\ Free(x, "V") /\ x.reads = w.reads
        /\ Turn(x, "R") = Turn(w, "R") /\ VisitRan
        /\ Mild(w, x) /\ SameFlags(w, x) /\ x.pc = w.pc
    BY <1>1, VisitorPops
  <2> HIDE DEF x
  <2>2. /\ q \in ServerWorkers /\ q.ready = x.ready /\ q.reads = x.reads /\ q.pc = x.pc
        /\ q.backlog = x.backlog /\ q.visited /\ q.length = x.length
        /\ q.confirmed = x.confirmed /\ q.stopping = x.stopping
        /\ q.sendClosed = x.sendClosed /\ q.sock = x.sock /\ q.torn = x.torn
    BY <2>1 DEF ServerWorkers, x
  <2> HIDE DEF q
  <2>3. Quietly(x, q)
    BY <2>1, <2>2, QuietSame
  <2>4. OneEach(q) /\ Turn(q, "R") = Turn(x, "R") /\ Free(q, "V") /\ Mild(w, q)
    BY <2>1, <2>2, <2>3 DEF Quietly, Aborts, Mild
  <2> QED BY <2>1, <2>2, <2>4 DEF SameFlags
<1> HIDE DEF q
<1>3. ~w.confirmed /\ w.pc["R"] # "start"
  BY <1>1 DEF ServerReading, ServerFlags
<1>4. CASE w.sock # "open" /\ w' = S!GoTo(q, "V", "failed")
  <2>1. VisitAlong(q)
    BY <1>2 DEF VisitAlong
  <2> QED BY <1>1, <1>2, <1>3, <1>4, <2>1, VisitEnds
<1>5. CASE w.sock = "open" /\ w' = z
  <2>1. /\ r \in ServerWorkers /\ OneEach(r) /\ Free(r, "V") /\ r.reads = <<>>
        /\ Turn(r, "R") = Turn(q, "R")
             \/ (Turn(q, "R") = Nil /\ Turn(r, "R") = S!Error)
        /\ Mild(q, r) /\ SameFlags(q, r) /\ r.pc = q.pc
    BY <1>2, CancelAborts DEF Aborts, Lost
  <2> HIDE DEF r
  <2>2. Softly(r, s) /\ s \in ServerWorkers
    BY <2>1, WakeSoftly DEF Softly, Quietly, Aborts
  <2> HIDE DEF s
  <2>3. OneEach(s) /\ Free(s, "V") /\ s.reads = <<>> /\ Turn(s, "R") = Turn(r, "R")
    BY <2>1, <2>2 DEF Softly, Quietly, Aborts
  <2>4. /\ Quietly(s, u) /\ SameFlags(s, u) /\ u \in ServerWorkers
        /\ \A b \in {"R", "S", "D", "V"} : u.pc[b] = IF b = "V" THEN "providing" ELSE s.pc[b]
    BY <2>2, MoveFlags DEF ServerPcs
  <2> HIDE DEF u
  <2>5. OneEach(u) /\ Free(u, "V") /\ u.reads = <<>> /\ Turn(u, "R") = Turn(s, "R")
    BY <2>3, <2>4 DEF Quietly, Aborts
  <2>6. /\ z \in ServerWorkers /\ OneEach(z)
        /\ \A b \in {"R", "V"} : Turn(z, b) = Turn(u, b)
        /\ z.reads = u.reads
        /\ Mild(u, z) /\ SameFlags(u, z) /\ z.pc = u.pc
    BY <2>4, <2>5, PostsProvide DEF Provided
  <2> HIDE DEF z
  <2>7. Turn(w', "V") = Nil
    BY <1>5, <2>5, <2>6 DEF Free, InReady, TurnOf, Turn, Resumed
  <2>8. \A a : ~Reading(w', a)
    <3>1. Len(<<>>) = 0
      BY EmptySeq
    <3> QED BY <1>5, <2>5, <2>6, <3>1 DEF Reading
  <2>9. /\ w'.pc["V"] = "providing" /\ w'.pc["R"] = w.pc["R"]
        /\ w'.length = w.length /\ w'.visited /\ w'.confirmed = w.confirmed
        /\ w'.stopping = w.stopping /\ w'.sendClosed = w.sendClosed /\ w'.sock = w.sock
        /\ w'.torn = w.torn
    BY <1>2, <1>5, <2>1, <2>2, <2>4, <2>6 DEF Softly, SameFlags, SamePcs
  <2>10. Phases'
    <3>1. \/ Turn(w', "R") = Turn(w, "R")
          \/ Turn(w, "R") = Nil /\ Turn(w', "R") = S!Error
      BY <1>2, <1>5, <2>1, <2>3, <2>5, <2>6
    <3> QED BY <1>1, <2>7, <2>8, <2>9, <3>1, VisitCalls DEF ServerReading, ServerOnly
  <2>11. ServerFlags'
    <3>1. Draining(w') => Draining(w) \/ w'.sendClosed
      BY <1>2, <1>5, <2>1, <2>2, <2>4, <2>6 DEF Mild, Softly, Quietly, SameFlags
    <3> QED BY <1>1, <1>3, <1>5, <2>9, <3>1 DEF ServerReading, ServerFlags, Visiting, Draining
  <2> QED BY <1>5, <2>6, <2>10, <2>11 DEF ServerReading, OneTurn
<1> QED BY <1>1, <1>4, <1>5

LEMMA VisitingHas ==
  ASSUME ServerReading
  PROVE  /\ w.pc["V"] \in {"providing", "length", "body"} =>
              w.visited /\ ~w.confirmed /\ w.sock = "open" /\ w.pc["R"] # "start"
         /\ w.pc["V"] \in {"length", "body"} => w.sendClosed
BY DEF ServerReading, ServerFlags, Visiting

LEMMA ReadingVisitSent ==
  ASSUME ServerOnly, ServerReading, S!VisitSent
  PROVE  ServerReading'
<1> DEFINE x == S!Rest
           q == [x EXCEPT !.sendClosed = TRUE]
           r == S!Post(q, "drain", S!Ok)
<1>1. /\ VisitAlong(x) /\ VisitRan /\ w.pc["V"] = "providing"
      /\ x.confirmed = w.confirmed /\ x.sendClosed = w.sendClosed
  BY VisitGoes DEF S!VisitSent
<1>2. \/ S!Got = S!Ok /\ w' = S!StartRead(r, "V", "length")
      \/ S!Got # S!Ok /\ w' = S!GoTo(x, "V", "failed")
  BY DEF S!VisitSent, S!CloseSend
<1> HIDE DEF x
<1>3. ~x.confirmed
  BY <1>1, VisitingHas
<1>4. CASE S!Got # S!Ok /\ w' = S!GoTo(x, "V", "failed")
  BY <1>1, <1>3, <1>4, VisitEnds DEF VisitRan
<1>5. CASE S!Got = S!Ok /\ w' = S!StartRead(r, "V", "length")
  <2>1. /\ q \in ServerWorkers /\ q.ready = x.ready /\ q.reads = x.reads /\ q.pc = x.pc
        /\ q.backlog = x.backlog /\ q.visited = x.visited /\ q.length = x.length
        /\ q.confirmed = x.confirmed /\ q.stopping = x.stopping
        /\ q.sendClosed /\ q.sock = x.sock /\ q.torn = x.torn
    BY <1>1 DEF ServerWorkers, VisitAlong
  <2> HIDE DEF q
  <2>2. VisitAlong(q)
    <3>1. Quietly(x, q)
      BY <1>1, <2>1, QuietSame DEF VisitAlong
    <3> QED BY <1>1, <2>1, <3>1, VisitQuietly DEF VisitAlong
  <2>3. Quietly(q, r) /\ SameFlags(q, r) /\ r.pc = q.pc
    BY <2>1, PostQuietly, PostFlags, PlainHandlers
  <2> HIDE DEF r
  <2>4. VisitAlong(r) /\ r.sendClosed /\ ~r.confirmed
    <3>1. /\ r.length = q.length /\ r.visited = q.visited /\ r.stopping = q.stopping
          /\ r.sock = q.sock /\ r.sendClosed /\ ~r.confirmed /\ r.torn = q.torn
      BY <1>3, <2>1, <2>3 DEF SameFlags
    <3>2. q.visited
      BY <2>2 DEF VisitAlong
    <3>3. VisitAlong(r)
      BY <2>2, <2>3, <3>1, <3>2, VisitQuietly
    <3> QED BY <3>1, <3>3
  <2>5. OneTurn' /\ ServerFlags' /\ VisitTo("length") /\ VisitReads
    BY <1>1, <1>5, <2>4, VisitAsks
  <2>6. Phases'
    BY <1>1, <1>5, <2>5, VisitAsksLength DEF ServerReading, VisitRan
  <2> QED BY <2>5, <2>6 DEF ServerReading
<1> QED BY <1>2, <1>4, <1>5

LEMMA LengthGoes ==
  ASSUME NEW x, VisitAlong(x), NEW m \in Names \cup {"none"}
  PROVE  LET y == [x EXCEPT !.length.V = m] IN
           /\ VisitAlong(y) /\ y.length["V"] = m /\ y.pc = x.pc
           /\ y.sendClosed = x.sendClosed /\ y.confirmed = x.confirmed
<1> DEFINE q == [x.length EXCEPT !["V"] = m]
           y == [x EXCEPT !.length = q]
<1>1. x \in ServerWorkers
  BY DEF VisitAlong
<1>2. q \in [{"R", "V"} -> Names \cup {"none"}] /\ q["V"] = m /\ q["R"] = x.length["R"]
  BY <1>1 DEF ServerWorkers
<1> HIDE DEF q
<1>3. /\ y \in ServerWorkers /\ y.ready = x.ready /\ y.reads = x.reads /\ y.pc = x.pc
      /\ y.backlog = x.backlog /\ y.length = q /\ y.visited = x.visited
      /\ y.confirmed = x.confirmed /\ y.stopping = x.stopping
      /\ y.sendClosed = x.sendClosed /\ y.sock = x.sock /\ y.torn = x.torn
  BY <1>1, <1>2 DEF ServerWorkers
<1>4. y = [x EXCEPT !.length.V = m]
  BY DEF q
<1> HIDE DEF y
<1>5. Quietly(x, y)
  BY <1>1, <1>3, QuietSame
<1>6. VisitAlong(y)
  BY <1>2, <1>3, <1>5, VisitQuietly DEF VisitAlong
<1>7. /\ VisitAlong(y) /\ y.length["V"] = m /\ y.pc = x.pc
      /\ y.sendClosed = x.sendClosed /\ y.confirmed = x.confirmed
  BY <1>2, <1>3, <1>6
<1> QED BY <1>4, <1>7

LEMMA VisitContinues ==
  ASSUME ServerOnly, ServerReading, VisitRan, NEW x, VisitAlong(x), x.length = w.length,
         NEW l \in {"length", "body"}, w.pc["V"] = l, w' = S!StartRead(x, "V", l),
         x.sendClosed, ~x.confirmed, S!Got \in {S!Part, S!Torn}
  PROVE  ServerReading'
<1>1. /\ OneTurn' /\ ServerFlags' /\ VisitTo(l) /\ VisitReads /\ w'.length = w.length
  BY VisitAsks
<1>2. Phases'
  BY <1>1, VisitReadsOn DEF ServerReading, VisitRan
<1> QED BY <1>1, <1>2 DEF ServerReading

LEMMA ReadingVisitLength ==
  ASSUME ServerOnly, ServerReading, StreamsOK, WholeMessages(up), S!VisitLength
  PROVE  ServerReading'
<1> DEFINE x == S!Rest
           m == S!Got[1]
           y == [x EXCEPT !.length.V = m]
<1>1. /\ VisitAlong(x) /\ VisitRan /\ w.pc["V"] = "length" /\ ~x.confirmed /\ x.sendClosed
      /\ w.sendClosed /\ x.length = w.length
  BY VisitGoes, VisitingHas DEF S!VisitLength
<1>2. CASE S!Got[2] = "length" /\ w' = S!StartRead(y, "V", "body")
  <2>1. S!Got \in Chunk /\ m \in Names
    BY <1>1, <1>2 DEF VisitRan, Reply, Chunk, Names
  <2>2. VisitAlong(y) /\ y.length["V"] = m /\ y.sendClosed /\ ~y.confirmed
    BY <1>1, <2>1, LengthGoes
  <2> HIDE DEF y, x, m
  <2>3. /\ OneTurn' /\ ServerFlags' /\ VisitTo("body") /\ VisitReads
        /\ w'.length = y.length
    BY <1>1, <1>2, <2>2, VisitAsks
  <2>4. Phases'
    <3>1. w'.length["V"] = Turn(w, "V")[1] /\ Turn(w, "V")[2] = "length"
      BY <1>1, <1>2, <2>2, <2>3 DEF VisitRan, m
    <3>2. Turn(w, "V") \in Chunk
      BY <1>1, <2>1 DEF VisitRan
    <3>3. upRead \in 0..Len(up) /\ Len(up) \in Nat
      BY DEF StreamsOK
    <3> QED BY <1>1, <2>3, <3>1, <3>2, <3>3, VisitAsksBody DEF ServerReading
  <2> QED BY <2>3, <2>4 DEF ServerReading
<1>3. CASE S!Got[2] # "length" /\ S!Got # S!Part /\ w' = S!GoTo(x, "V", "failed")
  BY <1>1, <1>3, VisitEnds DEF VisitRan
<1>4. CASE S!ReadOn("V", "length")
  BY <1>1, <1>4, VisitContinues DEF S!ReadOn
<1> QED BY <1>2, <1>3, <1>4 DEF S!VisitLength

LEMMA ReadingVisitBody ==
  ASSUME ServerInv, ServerOnly, ServerReading, S!VisitBody
  PROVE  ServerReading'
<1> DEFINE x == S!Rest
           y == [x EXCEPT !.length.V = "none"]
           q == [x EXCEPT !.confirmed = TRUE]
           r == S!GoTo(q, "V", "confirmed")
           s == S!WakeDdl([r EXCEPT !.ddl = "max"])
<1>1. /\ VisitAlong(x) /\ VisitRan /\ w.pc["V"] = "body" /\ ~x.confirmed /\ x.sendClosed
      /\ w.sendClosed /\ w.sock = "open" /\ x.length = w.length
  BY VisitGoes, VisitingHas DEF S!VisitBody
<1>2. \/ S!Got = Ping /\ w' = S!StartRead(y, "V", "length")
      \/ w' = s
      \/ S!Got \in {S!Part, S!Torn} /\ w' = S!StartRead(x, "V", "body")
      \/ /\ ~(S!Got[2] = "body" /\ S!Got[1] \in {"ping", "confirmed"}
              /\ S!Got[1] = w.length["V"])
         /\ S!Got # S!Part
         /\ w' = S!GoTo(x, "V", "failed")
  BY DEF S!VisitBody, S!CancelDdl, Ping, S!ReadOn
<1> HIDE DEF x
<1>3. CASE S!Got = Ping /\ w' = S!StartRead(y, "V", "length")
  <2>1. VisitAlong(y) /\ y.sendClosed /\ ~y.confirmed
    <3>1. /\ VisitAlong(y) /\ y.sendClosed = x.sendClosed /\ y.confirmed = x.confirmed
      BY <1>1, LengthGoes, Zenon
    <3> QED BY <1>1, <3>1
  <2> HIDE DEF y
  <2>2. OneTurn' /\ ServerFlags' /\ VisitTo("length") /\ VisitReads
    BY <1>1, <1>3, <2>1, VisitAsks
  <2>3. Phases'
    BY <1>1, <1>3, <2>2, VisitAsksAgain DEF ServerReading, VisitRan
  <2> QED BY <2>2, <2>3 DEF ServerReading
<1>4. CASE w' = s
  <2>1. /\ q \in ServerWorkers /\ q.ready = x.ready /\ q.reads = x.reads /\ q.pc = x.pc
        /\ q.backlog = x.backlog /\ q.visited = x.visited /\ q.length = x.length
        /\ q.confirmed /\ q.stopping = x.stopping
        /\ q.sendClosed = x.sendClosed /\ q.sock = x.sock /\ q.torn = x.torn
    BY <1>1 DEF ServerWorkers, VisitAlong
  <2> HIDE DEF q
  <2>2. VisitAlong(q)
    <3>1. Quietly(x, q)
      BY <1>1, <2>1, QuietSame DEF VisitAlong
    <3> QED BY <1>1, <2>1, <3>1, VisitQuietly DEF VisitAlong
  <2>3. /\ Quietly(q, r) /\ SameFlags(q, r) /\ r \in ServerWorkers
        /\ \A b \in {"R", "S", "D", "V"} : r.pc[b] = IF b = "V" THEN "confirmed" ELSE q.pc[b]
    BY <2>1, MoveFlags DEF ServerPcs
  <2> HIDE DEF r
  <2>4. VisitAlong(r)
    BY <2>2, <2>3, VisitQuietly DEF VisitAlong, SameFlags
  <2>5. Softly(r, s)
    BY <2>3, WakeSoftly
  <2> HIDE DEF s
  <2>6. VisitAlong(s)
    BY <2>4, <2>5, VisitQuietly DEF VisitAlong, Softly, SameFlags, SamePcs
  <2>7. /\ s.confirmed /\ s.sendClosed /\ s.pc["V"] = "confirmed" /\ s.visited
        /\ s.stopping = w.stopping
    BY <1>1, <2>1, <2>3, <2>5, <2>6 DEF SameFlags, SamePcs, Softly, VisitAlong
  <2>8. VisitTo("confirmed") /\ ~Reading(w', "V") /\ Turn(w', "V") = Nil
    <3>1. SoundStays
      BY <1>4, <2>7, KeptSound
    <3>2. \A a : Reading(s, a) <=> Reading(w, a)
      BY <2>6 DEF Reading, VisitAlong
    <3>3. Turn(s, "V") = Nil
      BY <2>6 DEF VisitAlong, Free, InReady, TurnOf, Turn, Resumed
    <3> QED BY <1>1, <1>4, <2>6, <2>7, <3>1, <3>2, <3>3
            DEF VisitTo, VisitAlong, ServerOnly, VisitRan
  <2>9. NoMessage(w')
    BY <1>1, <1>4, <2>6 DEF ServerInv, InPlace, ClosedQueue, VisitAlong, Mild
  <2>10. ServerFlags'
    BY <1>1, <1>4, <2>6, <2>7, <2>8, <2>9, VisitFlags DEF ServerReading, VisitTo, VisitAlong
  <2>11. Phases'
    BY <1>1, <2>8, VisitTaken DEF ServerReading
  <2> QED BY <1>4, <2>6, <2>10, <2>11 DEF ServerReading, OneTurn, VisitAlong
<1>5. CASE /\ ~(S!Got[2] = "body" /\ S!Got[1] \in {"ping", "confirmed"}
               /\ S!Got[1] = w.length["V"])
           /\ S!Got # S!Part
           /\ w' = S!GoTo(x, "V", "failed")
  <2>1. w.length["V"] \in {"ping", "confirmed"}
    BY <1>1 DEF ServerReading, Phases, AwaitsBody
  <2>2. S!Got # <<w.length["V"], "body">>
    BY <1>5, <2>1
  <2> QED BY <1>1, <1>5, <2>2, VisitEnds DEF VisitRan
<1>6. CASE S!Got \in {S!Part, S!Torn} /\ w' = S!StartRead(x, "V", "body")
  BY <1>1, <1>6, VisitContinues
<1> QED BY <1>2, <1>3, <1>4, <1>5, <1>6

(* A visitor takes the worker from the queue, and the forwarder its socket.*)
LEMMA VisitFree ==
  ASSUME ServerInv, w.pc["V"] = "none"
  PROVE  Free(w, "V")
<1>1. w \in ServerWorkers /\ VisitInPlace(w)
  BY DEF ServerInv, InPlace
<1>2. ~MayFail(w) /\ NoVisitTurn(w)
  BY <1>1 DEF VisitInPlace
<1>3. ~InReady(w, "V")
  <2> SUFFICES ASSUME NEW i \in 1..Len(w.ready), TurnOf(w.ready[i], "V") PROVE FALSE
    BY DEF InReady
  <2>1. w.ready[i] \in ServerHandlers
    BY <1>1 DEF ServerWorkers
  <2>2. w.ready[i].to # "V"
    BY <1>2 DEF NoVisitTurn, VisitTurn
  <2>3. w.ready[i].to = "provide" /\ w.ready[i].got[1] = "V"
    BY <2>2 DEF TurnOf
  <2>4. w.ready[i] \in [to : {"provide"}, got : Provided]
    BY <2>1, <2>3 DEF ServerHandlers
  <2>5. w.ready[i].got = <<"V", "visit">>
    BY <2>3, <2>4 DEF Provided
  <2>6. w.ready[i] = ProvideVisit
    BY <2>4, <2>5 DEF ProvideVisit, S!Handler
  <2> QED BY <1>2, <2>6 DEF NoVisitTurn, VisitTurn
<1> QED BY <1>2, <1>3 DEF Free, Reading, InBacklog, MayFail, NoVisitTurn, Backlogged

LEMMA ReadingVisited ==
  ASSUME ServerInv, ServerOnly, ServerReading, S!VisitorComes \/ S!HandOver
  PROVE  ServerReading'
<1>1. CASE S!VisitorComes
  <2> DEFINE u == S!GoTo(w, "V", "start")
             z == S!Post(u, "V", S!Ok)
  <2>1. w' = z /\ w.pc["V"] = "none" /\ S!Alive /\ w.pc["R"] # "start"
    BY <1>1 DEF S!VisitorComes, S!Registered, S!Coroutines
  <2>2. Free(w, "V") /\ w \in ServerWorkers /\ OneEach(w)
    BY <2>1, VisitFree DEF ServerOnly, ServerReading, OneTurn
  <2>3. /\ Quietly(w, u) /\ SameFlags(w, u) /\ u \in ServerWorkers
        /\ \A b \in {"R", "S", "D", "V"} : u.pc[b] = IF b = "V" THEN "start" ELSE w.pc[b]
    BY <2>2, MoveFlags DEF ServerPcs
  <2> HIDE DEF u
  <2>4. OneEach(u) /\ Free(u, "V") /\ u.reads = w.reads /\ Turn(u, "R") = Turn(w, "R")
    BY <2>2, <2>3 DEF Quietly, Aborts
  <2>5. /\ z \in ServerWorkers /\ OneEach(z)
        /\ Turn(z, "R") = Turn(u, "R") /\ Turn(z, "V") = S!Ok
        /\ z.reads = u.reads
        /\ Mild(u, z) /\ SameFlags(u, z) /\ z.pc = u.pc
    BY <2>3, <2>4, PostsTurn, PlainReplies
  <2> HIDE DEF z
  <2>6. /\ w'.pc["V"] = "start" /\ w'.pc["R"] = w.pc["R"] /\ SameFlags(w, w')
        /\ w'.reads = w.reads /\ Turn(w', "R") = Turn(w, "R") /\ Turn(w', "V") = S!Ok
    BY <2>1, <2>3, <2>4, <2>5 DEF SameFlags
  <2>7. ServerFlags'
    <3>1. Draining(w') => Draining(w) \/ w'.sendClosed
      BY <2>1, <2>3, <2>5 DEF Mild, Quietly, SameFlags
    <3> QED BY <2>1, <2>6, <3>1
            DEF ServerReading, ServerFlags, Visiting, Draining, SameFlags
  <2>8. Phases'
    <3>1. /\ Holds => Holds'
          /\ Takes => Takes'
          /\ AtLength <=> AtLength'
          /\ Unconfirmed <=> Unconfirmed'
          /\ InStep => InStep'
          /\ \A a : Reading(w', a) <=> Reading(w, a)
      BY <2>6 DEF Holds, Takes, AtLength, Unconfirmed, Confirmed, InStep, ServerOnly,
                  SameFlags, Reading
    <3>2. Reads("R")' => Reads("R")
      BY <2>6, <3>1 DEF Reads
    <3>3. BeforeVisit'
      BY <2>1, <2>6, <3>1, <3>2 DEF ServerReading, Phases, BeforeVisit, SameFlags
    <3>4. Parts'
      BY <2>1, <2>6, Replies DEF ServerReading, Phases, Parts, Scattered, SameFlags
    <3> QED BY <2>6, <3>3, <3>4 DEF Phases, AwaitsLength, AwaitsBody, Taken, Failed
  <2> QED BY <2>1, <2>5, <2>7, <2>8 DEF ServerReading, OneTurn
<1>2. CASE S!HandOver
  <2> DEFINE u == S!GoTo(w, "V", "handed")
             z == [u EXCEPT !.sock = "moved"]
  <2>1. w' = z /\ w.pc["V"] = "confirmed" /\ w \in ServerWorkers /\ OneEach(w)
    BY <1>2 DEF S!HandOver, ServerOnly, ServerReading, OneTurn
  <2>2. /\ Quietly(w, u) /\ SameFlags(w, u) /\ u \in ServerWorkers
        /\ \A b \in {"R", "S", "D", "V"} : u.pc[b] = IF b = "V" THEN "handed" ELSE w.pc[b]
    BY <2>1, MoveFlags DEF ServerPcs
  <2> HIDE DEF u
  <2>3. /\ z \in ServerWorkers /\ z.ready = u.ready /\ z.reads = u.reads /\ z.pc = u.pc
        /\ z.backlog = u.backlog /\ z.visited = u.visited
        /\ z.confirmed = u.confirmed /\ z.sendClosed = u.sendClosed /\ z.sock = "moved"
        /\ z.torn = u.torn
    BY <2>2 DEF ServerWorkers
  <2> HIDE DEF z
  <2>4. Quietly(u, z)
    BY <2>2, <2>3, QuietSame
  <2>5. /\ OneEach(z) /\ Turn(z, "R") = Turn(w, "R") /\ Turn(z, "V") = Turn(w, "V")
        /\ z.reads = w.reads /\ z.torn = w.torn
    BY <2>1, <2>2, <2>3, <2>4 DEF Quietly, Aborts, SameFlags
  <2>6. ServerFlags'
    <3>1. NoMessage(w) => NoMessage(w')
      BY <2>1, <2>2, <2>4 DEF Quietly, Mild
    <3> QED BY <2>1, <2>2, <2>3, <3>1
            DEF ServerReading, ServerFlags, Visiting, SameFlags
  <2>7. Phases'
    <3>1. Taken'
      BY <2>1, <2>2, <2>3, <2>5 DEF ServerReading, Phases, Taken, Reading
    <3>2. Parts'
      BY <2>1, <2>2, <2>3, <2>5 DEF ServerReading, Phases, Parts, Scattered
    <3> QED BY <2>1, <2>2, <2>3, <3>1, <3>2
            DEF Phases, BeforeVisit, AwaitsLength, AwaitsBody, Failed
  <2> QED BY <2>1, <2>3, <2>5, <2>6, <2>7 DEF ServerReading, OneTurn
<1> QED BY <1>1, <1>2

-----------------------------------------------------------------------------
(* The first pending read ends, with all of a chunk, a part of it or an    *)
(* error; t is then who has a part.                                        *)
ReadGives(a, got, t) ==
  /\ a \in {"R", "V"} /\ Reading(w, a) /\ First(w) = a
  /\ Turn(w, a) = Nil /\ Turn(w', a) = got
  /\ \A b \in {"R", "V"} : /\ b # a => Turn(w', b) = Turn(w, b)
                           /\ Reading(w', b) <=> Reading(w, b) /\ b # a
  /\ a = "V" => ~Late(w')
  /\ Stands /\ w'.length = w.length /\ w'.torn = t

LEMMA ReadsFirst ==
  ASSUME w \in ServerWorkers, ServerReading, w.reads # <<>>, NEW got \in Reply,
         NEW t \in {"none", "R", "V", "lost"},
         w' = S!Post([w EXCEPT !.reads = Tail(@), !.torn = t], Head(w.reads), got)
  PROVE  OneTurn' /\ ServerFlags' /\ ReadGives(Head(w.reads), got, t)
<1> DEFINE a == Head(w.reads)
           u == [w EXCEPT !.reads = Tail(@)]
           y == [w EXCEPT !.reads = Tail(@), !.torn = t]
           z == S!Post(y, a, got)
<1>1. /\ u \in ServerWorkers /\ OneEach(u) /\ a \in {"R", "V"}
      /\ \A b : Turn(u, b) = Turn(w, b)
      /\ Free(u, a) /\ Reading(w, a) /\ First(w) = a /\ Turn(w, a) = Nil
      /\ \A b : Reading(u, b) <=> Reading(w, b) /\ b # a
      /\ Mild(w, u) /\ SameFlags(w, u) /\ u.pc = w.pc
  BY ReadEnded DEF ServerReading, OneTurn
<1>2. w' = z
  OBVIOUS
<1>3. y = [u EXCEPT !.torn = t]
  BY DEF ServerWorkers
<1> HIDE DEF u, y, a
<1>4. /\ y \in ServerWorkers /\ y.ready = u.ready /\ y.reads = u.reads
      /\ y.backlog = u.backlog /\ y.pc = u.pc /\ y.length = u.length
      /\ y.visited = u.visited /\ y.confirmed = u.confirmed /\ y.stopping = u.stopping
      /\ y.sendClosed = u.sendClosed /\ y.sock = u.sock /\ y.torn = t
  BY <1>1, <1>3 DEF ServerWorkers
<1>5. Quietly(u, y)
  BY <1>1, <1>4, QuietSame
<1>6. /\ OneEach(y) /\ Free(y, a) /\ Mild(u, y)
      /\ \A b \in {"R", "V"} : Turn(y, b) = Turn(u, b)
      /\ \A b : Reading(y, b) <=> Reading(u, b)
  BY <1>1, <1>4, <1>5 DEF Quietly, Aborts, Reading
<1>7. /\ z \in ServerWorkers /\ OneEach(z) /\ Turn(z, a) = got
      /\ \A b \in {"R", "V"} : b # a => Turn(z, b) = Turn(y, b)
      /\ a = "V" => ~Late(z)
      /\ z.reads = y.reads
      /\ Mild(y, z) /\ SameFlags(y, z) /\ z.pc = y.pc
  BY <1>1, <1>4, <1>6, PostsTurn
<1> HIDE DEF z
<1>8. /\ w'.length = w.length /\ w'.visited = w.visited /\ w'.confirmed = w.confirmed
      /\ w'.stopping = w.stopping /\ w'.sendClosed = w.sendClosed /\ w'.sock = w.sock
      /\ w'.torn = t /\ w'.pc = w.pc
  BY <1>1, <1>2, <1>4, <1>7 DEF SameFlags
<1>9. Stands
  BY <1>8 DEF Stands, VisitStands
<1>10. ServerFlags'
  <2>1. /\ NoMessage(w) => NoMessage(w')
        /\ Draining(w') => Draining(w) \/ w'.sendClosed
    BY <1>1, <1>2, <1>4, <1>6, <1>7, <1>8 DEF Mild, SameFlags
  <2> QED BY <1>8, <1>9, <2>1, FlagsCarry DEF ServerReading, Stands
<1>11. ReadGives(a, got, t)
  <2>1. \A b : Reading(w', b) <=> Reading(w, b) /\ b # a
    <3>1. \A b : Reading(w', b) <=> Reading(y, b)
      BY <1>2, <1>7 DEF Reading
    <3> QED BY <1>1, <1>6, <3>1
  <2> QED BY <1>1, <1>2, <1>6, <1>7, <1>8, <1>9, <2>1 DEF ReadGives
<1> QED BY <1>2, <1>7, <1>10, <1>11 DEF OneTurn, a

(* An error: the connection is not sound.                                  *)
LEMMA ReadLost ==
  ASSUME w \in ServerWorkers, Phases, NEW a, ReadGives(a, S!Error, w.torn), ~Sound',
         UNCHANGED <<up, upRead>>
  PROVE  Phases'
<1>1. /\ Holds <=> Holds'
      /\ Takes <=> Takes'
      /\ AtLength <=> AtLength'
      /\ Unconfirmed <=> Unconfirmed'
      /\ InStep <=> InStep'
      /\ Scattered <=> Scattered'
  BY Replies DEF Holds, Takes, AtLength, Unconfirmed, Confirmed, InStep, Scattered,
                 ReadGives, Stands
<1>2. /\ a \in {"R", "V"} /\ ~Reads(a)'
      /\ \A b \in {"R", "V"} : b # a => (Reads(b)' <=> Reads(b))
  BY Replies DEF Reads, ReadGives
<1>3. Parts'
  BY <1>1, Replies DEF Phases, Parts, ReadGives, Stands, VisitStands
<1>4. BeforeVisit'
  BY <1>1, <1>2, Replies DEF Phases, BeforeVisit, ReadGives, Stands, VisitStands
<1>5. AwaitsLength'
  <2> SUFFICES ASSUME w.pc["V"] = "length", ~Scattered PROVE AwaitsLength'
    BY <1>1 DEF AwaitsLength, ReadGives, Stands, VisitStands
  <2>1. CASE a = "V"
    BY <1>1, <1>2, <2>1, Replies
       DEF Phases, AwaitsLength, Reads, ReadGives, Stands, VisitStands
  <2>2. CASE a = "R"
    <3>1. /\ Reading(w, "R") /\ First(w) = "R" /\ ~Takes /\ Turn(w', "R") = S!Error
          /\ ~Reading(w', "R") /\ Turn(w', "V") = Turn(w, "V") /\ w'.torn = w.torn
          /\ w'.pc["R"] = w.pc["R"] /\ Turn(w, "R") = Nil
      BY <2>2, Replies DEF ReadGives, Takes, Stands
    <3>2. InStep /\ ~AtLength => Holds
      BY <3>1, Replies DEF InStep, Holds
    <3>3. w.torn \in {"none", "R", "V"}
      BY DEF ServerWorkers, Scattered
    <3>4. Reads("V") /\ w.torn # "R" => InStep \/ (~AtLength /\ Holds)
      BY <3>1, <3>3 DEF Phases, AwaitsLength
    <3>5. Reads("V") /\ w.torn # "R" =>
            (~Unconfirmed /\ AtLength => Holds) /\ (~AtLength => Holds)
      BY <3>2, <3>4 DEF InStep
    <3>6. Turn(w, "V") \in Chunk => Turn(w, "V")[2] # "length" /\ Holds
      BY <3>1 DEF Phases, AwaitsLength
    <3>7. Turn(w, "V") # S!Ok
      BY DEF Phases, AwaitsLength
    <3>8. Reads("V")' <=> Reads("V")
      BY <1>2, <2>2
    <3>9. ~Reads("R")'
      BY <1>2, <2>2
    <3>10. Turn(w, "V") \in Chunk => Turn(w', "V") \in Chunk /\ Holds'
      BY <1>1, <3>1, <3>6
    <3>11. Reads("V")' =>
             /\ w'.torn # "R" /\ ~Reading(w', "R") /\ AtLength' =>
                  /\ w'.pc["R"] = "length" => Turn(w', "R") \notin Chunk
                  /\ ~Unconfirmed' => Holds'
             /\ w'.torn # "R" /\ ~Reading(w', "R") /\ ~AtLength' => Holds' \/ Takes'
      <4> SUFFICES ASSUME Reads("V")', w'.torn # "R"
                   PROVE  /\ Turn(w', "R") \notin Chunk
                          /\ AtLength' /\ ~Unconfirmed' => Holds'
                          /\ ~AtLength' => Holds'
        OBVIOUS
      <4>1. (~Unconfirmed /\ AtLength => Holds) /\ (~AtLength => Holds)
        BY <3>1, <3>5, <3>8
      <4>2. Turn(w', "R") \notin Chunk
        BY <3>1, Replies
      <4> QED BY <1>1, <4>1, <4>2
    <3> QED BY <3>1, <3>6, <3>7, <3>9, <3>10, <3>11, Replies DEF AwaitsLength
  <2> QED BY <1>2, <2>1, <2>2
<1>6. AwaitsBody'
  BY <1>1, <1>2, Replies DEF Phases, AwaitsBody, ReadGives, Stands, VisitStands
<1>7. Taken' /\ Failed'
  BY <1>1, Replies DEF Phases, Taken, Failed, ReadGives, Stands, VisitStands
<1> QED BY <1>3, <1>4, <1>5, <1>6, <1>7 DEF Phases

LEMMA ReadingFails ==
  ASSUME ServerOnly, ServerReading, S!ReadFails
  PROVE  ServerReading'
<1>1. /\ w.reads # <<>> /\ (lost \/ c.sock = "closed")
      /\ w' = S!Post([w EXCEPT !.reads = Tail(@)], Head(w.reads), S!Error)
  BY DEF S!ReadFails
<1>2. [w EXCEPT !.reads = Tail(@)] = [w EXCEPT !.reads = Tail(@), !.torn = w.torn]
  BY DEF ServerOnly, ServerWorkers
<1>3. w.torn \in {"none", "R", "V", "lost"}
  BY DEF ServerOnly, ServerWorkers
<1>4. OneTurn' /\ ServerFlags' /\ ReadGives(Head(w.reads), S!Error, w.torn)
  BY <1>1, <1>2, <1>3, ReadsFirst, PlainReplies DEF ServerOnly
<1>5. ~Sound'
  BY <1>1 DEF Sound, ServerOnly
<1>6. Phases'
  BY <1>4, <1>5, ReadLost DEF ServerReading, ServerOnly
<1> QED BY <1>4, <1>6 DEF ServerReading

(* The first part of a chunk: nobody had one.                              *)
LEMMA PartRead ==
  ASSUME Phases, NEW a, ReadGives(a, S!Part, a), w.torn = "none", SoundStays,
         UNCHANGED <<up, upRead>>
  PROVE  Phases'
<1>1. /\ a \in {"R", "V"} /\ Reading(w, a) /\ First(w) = a /\ Turn(w, a) = Nil
      /\ Turn(w', a) = S!Part /\ w'.torn = a /\ w'.pc["V"] = w.pc["V"]
      /\ w'.pc["R"] = w.pc["R"] /\ w'.length = w.length
      /\ \A b \in {"R", "V"} : /\ b # a => Turn(w', b) = Turn(w, b)
                               /\ Reading(w', b) <=> Reading(w, b) /\ b # a
  BY DEF ReadGives, Stands, VisitStands
<1>2. /\ Holds <=> Holds'
      /\ Takes <=> Takes'
      /\ AtLength <=> AtLength'
      /\ Unconfirmed <=> Unconfirmed'
      /\ InStep <=> InStep'
      /\ ~Scattered /\ ~Scattered'
  BY <1>1, Replies DEF Holds, Takes, AtLength, Unconfirmed, Confirmed, InStep, Scattered
<1>3. /\ \A b \in {"R", "V"} : Turn(w, b) \notin {S!Part, S!Torn}
      /\ Reads("R")' <=> Reads("R")
      /\ Reads("V")' <=> Reads("V")
  <2>1. \A b \in {"R", "V"} : Turn(w, b) \notin {S!Part, S!Torn}
    BY <1>2 DEF Phases, Parts
  <2> QED BY <1>1, <2>1 DEF Reads
<1>4. Parts'
  BY <1>1, <1>2, <1>3, Replies DEF Parts
<1>5. BeforeVisit'
  <2> SUFFICES ASSUME w.pc["V"] \in {"none", "start", "providing"} PROVE BeforeVisit'
    BY <1>1 DEF BeforeVisit
  <2>1. a = "R"
    BY <1>1 DEF Phases, BeforeVisit
  <2>2. /\ Turn(w', "V") = Turn(w, "V") /\ Turn(w', "R") = S!Part /\ ~Reading(w', "V")
        /\ w'.torn # "V" /\ Reads("R")
    BY <1>1, <2>1 DEF Phases, BeforeVisit, Reads
  <2>3. InStep /\ (~AtLength => Holds \/ Takes) /\ (~Unconfirmed => Holds)
    BY <2>2 DEF Phases, BeforeVisit
  <2>4. w.pc["V"] = "providing" => /\ Turn(w, "V") \in {Nil, S!Ok, S!Error}
                                   /\ Turn(w, "V") = S!Error => ~Sound
    BY DEF Phases, BeforeVisit
  <2>5. w.pc["R"] \in {"start", "providing"} => AtLength /\ Unconfirmed
    BY DEF Phases, BeforeVisit
  <2> QED BY <1>1, <1>2, <2>2, <2>3, <2>4, <2>5, Replies DEF BeforeVisit, SoundStays
<1>6. AwaitsLength'
  <2> SUFFICES ASSUME w.pc["V"] = "length" PROVE AwaitsLength'
    BY <1>1 DEF AwaitsLength
  <2>1. CASE a = "R"
    <3>1. Reads("V") => InStep
      BY <1>1, <1>2, <2>1 DEF Phases, AwaitsLength
    <3>2. Turn(w, "V") \in Chunk => /\ Turn(w, "V")[2] # "length" /\ Holds
                                    /\ Reads("R") => w.pc["R"] = "body" /\ AtLength
      BY <1>1, <1>2, <2>1, Replies DEF Phases, AwaitsLength, Takes
    <3>3. Turn(w, "V") # S!Ok /\ (Turn(w, "V") = S!Error => ~Sound)
      BY <1>2 DEF Phases, AwaitsLength
    <3>4. Turn(w', "V") = Turn(w, "V") /\ Turn(w', "R") = S!Part
      BY <1>1, <2>1
    <3>5. w'.torn = "R" /\ ~Reading(w', "R")
      BY <1>1, <2>1
    <3> QED BY <1>2, <1>3, <3>1, <3>2, <3>3, <3>4, <3>5, <1>1, Replies
            DEF AwaitsLength, SoundStays
  <2>2. CASE a = "V"
    <3>1. /\ Turn(w', "R") = Turn(w, "R") /\ Turn(w', "V") = S!Part
          /\ Reading(w', "R") <=> Reading(w, "R")
          /\ First(w) = "V" /\ w'.torn = "V" /\ Reads("V") /\ Turn(w, "R") # S!Ok
      BY <1>1, <1>2, <2>2 DEF Phases, AwaitsLength, Reads
    <3>2. /\ Reading(w, "R") => ~AtLength /\ Holds /\ w.pc["R"] = "body"
          /\ ~Reading(w, "R") /\ AtLength =>
               /\ w.pc["R"] = "length" => Turn(w, "R") \notin Chunk
               /\ ~Unconfirmed => Holds
          /\ ~Reading(w, "R") /\ ~AtLength => Holds \/ Takes
      BY <1>2, <3>1 DEF Phases, AwaitsLength
    <3> QED BY <1>1, <1>2, <3>1, <3>2, Replies DEF AwaitsLength
  <2> QED BY <1>1, <2>1, <2>2
<1>7. AwaitsBody'
  <2> SUFFICES ASSUME w.pc["V"] = "body" PROVE AwaitsBody'
    BY <1>1 DEF AwaitsBody
  <2>1. a = "V"
    BY <1>1 DEF Phases, AwaitsBody
  <2>2. /\ Turn(w', "R") = Turn(w, "R") /\ Turn(w', "V") = S!Part
        /\ ~Reading(w', "R") /\ w'.torn = "V" /\ Reads("V")
    BY <1>1, <2>1 DEF Phases, AwaitsBody, Reads
  <2> QED BY <1>1, <1>2, <2>2, Replies DEF Phases, AwaitsBody
<1>8. Taken'
  BY <1>1 DEF Phases, Taken
<1>9. Failed'
  BY <1>1, <1>2, <1>3 DEF Phases, Failed, SoundStays
<1> QED BY <1>4, <1>5, <1>6, <1>7, <1>8, <1>9 DEF Phases

LEMMA ReadingPart ==
  ASSUME ServerOnly, ServerReading, S!ReadPart
  PROVE  ServerReading'
<1>1. /\ w.reads # <<>> /\ w.torn = "none"
      /\ w' = S!Post([w EXCEPT !.reads = Tail(@), !.torn = Head(w.reads)],
                     Head(w.reads), S!Part)
  BY DEF S!ReadPart
<1>2. Head(w.reads) \in {"R", "V"}
  BY <1>1 DEF ServerOnly, ServerWorkers
<1>3. OneTurn' /\ ServerFlags' /\ ReadGives(Head(w.reads), S!Part, Head(w.reads))
  BY <1>1, <1>2, ReadsFirst, Replies DEF ServerOnly
<1>4. SoundStays
  BY <1>1, <1>3 DEF SoundStays, Sound, ReadGives, Stands, VisitStands, ServerOnly
<1>5. Phases'
  BY <1>1, <1>3, <1>4, PartRead DEF ServerReading, ServerOnly
<1> QED BY <1>3, <1>5 DEF ServerReading

(* The other one has a part: what is left of the chunk is of use to nobody.*)
LEMMA TornRead ==
  ASSUME w \in ServerWorkers, ServerFlags, Phases, NEW a, ReadGives(a, S!Torn, "lost"),
         ~S!Whole(a)
  PROVE  Phases'
<1>1. /\ a \in {"R", "V"} /\ Reading(w, a) /\ Turn(w', a) = S!Torn
      /\ w'.torn = "lost" /\ w'.pc["V"] = w.pc["V"]
      /\ \A b \in {"R", "V"} : b # a => Turn(w', b) = Turn(w, b)
  BY DEF ReadGives, Stands, VisitStands
<1>2. w.torn \in {"R", "V", "lost"} /\ w.torn # a
  BY DEF ServerWorkers, S!Whole
<1>3. w.pc["V"] \in {"none", "start", "providing", "length", "body", "failed", "confirmed",
                    "handed"}
  BY DEF ServerFlags
<1>4. w.pc["V"] \in {"length", "failed"} /\ Turn(w', "V") \notin Chunk
  <2>1. CASE Scattered
    BY <1>1, <2>1, Replies DEF Phases, Parts
  <2>2. CASE w.torn = "V" /\ a = "R"
    <3>1. w.pc["V"] \in {"length", "failed"}
      BY <1>1, <1>3, <2>2 DEF Phases, BeforeVisit, AwaitsBody, Taken
    <3> QED BY <1>1, <2>2, <3>1 DEF Phases, Parts
  <2>3. CASE w.torn = "R" /\ a = "V"
    <3>1. w.pc["V"] \in {"length", "failed"}
      BY <1>1, <1>3, <2>3 DEF Phases, BeforeVisit, AwaitsBody, Taken
    <3> QED BY <1>1, <2>3, <3>1, Replies
  <2> QED BY <1>1, <1>2, <2>1, <2>2, <2>3 DEF Scattered
<1>5. Scattered' /\ Parts'
  BY <1>1, <1>4 DEF Parts, Scattered
<1> QED BY <1>1, <1>4, <1>5
        DEF Phases, BeforeVisit, AwaitsLength, AwaitsBody, Taken, Failed

(* A chunk, and what it may be.                                            *)
ChunkRead(got) ==
  /\ got \in Chunk /\ got = up[upRead'] /\ 0 < upRead'
  /\ AtLength' <=> ~AtLength
  /\ got[2] = "length" => AtLength
  /\ got[2] = "body" => ~AtLength
  /\ got[2] = "data" <=> Confirmed(upRead)
  /\ ~AtLength /\ 0 < upRead /\ up[upRead][2] = "length" => got = <<up[upRead][1], "body">>
  /\ Unconfirmed' <=> Unconfirmed /\ got # <<"confirmed", "body">>

LEMMA ChunkIs ==
  ASSUME StreamsOK, WholeMessages(up), LastBefore("confirmed", up), upRead < Len(up),
         upRead' = upRead + 1, up' = up
  PROVE  ChunkRead(up[upRead + 1])
<1>1. /\ up \in Seq(Chunk) /\ Len(up) \in Nat /\ upRead \in Nat /\ upRead \in 0..Len(up)
      /\ upRead + 1 \in 1..Len(up) /\ DOMAIN up = 1..Len(up)
  BY DEF StreamsOK
<1>2. up[upRead + 1] \in Chunk
  BY <1>1
<1>3. AtLength' <=> ~AtLength
  BY <1>1, EvenNext DEF AtLength
<1>4. /\ up[upRead + 1][2] = "length" => ~Even(upRead + 1)
      /\ up[upRead + 1][2] = "body" => Even(upRead + 1)
      /\ up[upRead + 1][2] = "data" => SentBy("confirmed", up, upRead + 1 - 1)
  BY <1>1 DEF WholeMessages
<1>5. Confirmed(upRead) => up[upRead + 1] = Data
  <2> SUFFICES ASSUME NEW k \in 1..upRead, up[k] = <<"confirmed", "body">>
               PROVE  up[upRead + 1] = Data
    BY DEF Confirmed, SentBy
  <2>1. k \in DOMAIN up /\ upRead + 1 \in (k + 1)..Len(up)
    BY <1>1
  <2> QED BY <2>1 DEF LastBefore
<1>6. up[upRead + 1][2] = "data" <=> Confirmed(upRead)
  BY <1>1, <1>4, <1>5 DEF Confirmed, Data
<1>7. ~AtLength /\ 0 < upRead /\ up[upRead][2] = "length" =>
        up[upRead + 1] = <<up[upRead][1], "body">>
  BY <1>1 DEF WholeMessages
<1>8. Unconfirmed' <=> Unconfirmed /\ up[upRead + 1] # <<"confirmed", "body">>
  <2>1. 1..(upRead + 1) = (1..upRead) \cup {upRead + 1}
    BY <1>1
  <2> QED BY <2>1 DEF Unconfirmed, Confirmed, SentBy
<1>9. 0 < upRead'
  BY <1>1
<1> QED BY <1>1, <1>2, <1>3, <1>4, <1>6, <1>7, <1>8, <1>9, EvenNext DEF ChunkRead, AtLength

(* What recv_msgs gets when it is in step.                                 *)
LEMMA ChunkInStep ==
  ASSUME NEW got, ReadGives("R", got, "none"), ChunkRead(got), InStep
  PROVE  \/ /\ w.pc["R"] = "length" /\ Takes' /\ ~AtLength' /\ Unconfirmed' /\ got[2] = "length"
         \/ /\ w.pc["R"] = "body" /\ AtLength' /\ w.length["R"] # "none" /\ got[2] = "body"
            /\ got = Ping => Unconfirmed'
            /\ ~Unconfirmed' => Holds'
<1>1. got[2] \in {"length", "body", "data"}
  BY DEF ChunkRead, Chunk
<1>2. CASE w.pc["R"] = "length" /\ AtLength
  <2>1. got[2] = "length"
    BY <1>1, <1>2 DEF ChunkRead, InStep, Unconfirmed
  <2>2. got # <<"confirmed", "body">>
    BY <2>1
  <2> QED BY <1>2, <2>1, <2>2 DEF ChunkRead, InStep, Takes, ReadGives, Stands
<1>3. CASE w.pc["R"] = "body" /\ ~AtLength /\ w.length["R"] # "none"
  <2>1. got[2] = "body"
    BY <1>1, <1>3 DEF ChunkRead, InStep, Unconfirmed
  <2>2. got = Ping => Unconfirmed'
    BY DEF ChunkRead, InStep, Ping
  <2> QED BY <1>3, <2>1, <2>2 DEF ChunkRead, Holds, ReadGives, Stands
<1> QED BY <1>2, <1>3 DEF InStep

LEMMA ReceiverReads ==
  ASSUME Phases, NEW got, ReadGives("R", got, "none"), ChunkRead(got), SoundStays,
         S!Whole("R")
  PROVE  Phases'
<1>1. /\ got[2] \in {"length", "body", "data"} /\ got # Nil /\ got # S!Ok /\ got # S!Error
      /\ got \in Chunk /\ ~Takes /\ ~Scattered /\ ~Scattered' /\ w.torn \in {"none", "R"}
  BY Replies DEF ChunkRead, Chunk, Takes, ReadGives, Scattered, S!Whole
<1>2. /\ Turn(w', "R") = got /\ Turn(w', "V") = Turn(w, "V") /\ Turn(w, "R") = Nil
      /\ Reading(w, "R") /\ ~Reading(w', "R") /\ (Reading(w', "V") <=> Reading(w, "V"))
      /\ First(w) = "R" /\ w'.pc["V"] = w.pc["V"] /\ w'.pc["R"] = w.pc["R"]
      /\ w'.length = w.length /\ w'.torn = "none"
  BY DEF ReadGives, Stands, VisitStands
<1>3. /\ Turn(w, "V") \notin {S!Part, S!Torn} /\ Reads("R") /\ ~Reads("R")'
      /\ Reads("V") <=> Reading(w, "V")
      /\ Reads("V")' <=> Reads("V")
  <2>1. Turn(w, "V") \notin {S!Part, S!Torn}
    BY <1>1 DEF Phases, Parts
  <2> QED BY <1>1, <1>2, <2>1, Replies DEF Reads
<1>4. AtLength => got # Ping
  BY DEF ChunkRead, Ping
<1>5. Holds /\ AtLength => Holds'
  BY <1>2, <1>4 DEF Holds
<1>6. InStep => \/ /\ w.pc["R"] = "length" /\ Takes' /\ ~AtLength' /\ Unconfirmed'
                \/ /\ w.pc["R"] = "body" /\ AtLength' /\ w.length["R"] # "none"
                   /\ got = Ping => Unconfirmed'
                   /\ ~Unconfirmed' => Holds'
  BY ChunkInStep
<1>7. Parts'
  BY <1>1, <1>2, <1>3, Replies DEF Parts
<1>8. BeforeVisit'
  <2> SUFFICES ASSUME w.pc["V"] \in {"none", "start", "providing"} PROVE BeforeVisit'
    BY <1>2 DEF BeforeVisit
  <2>1. InStep /\ ~Reading(w, "V")
    BY <1>3 DEF Phases, BeforeVisit
  <2>2. w.pc["R"] \in {"length", "body"}
    BY <2>1 DEF InStep
  <2>3. w.pc["V"] = "providing" => /\ Turn(w, "V") \in {Nil, S!Ok, S!Error}
                                   /\ Turn(w, "V") = S!Error => ~Sound
    BY DEF Phases, BeforeVisit
  <2> QED BY <1>1, <1>2, <1>3, <1>6, <2>1, <2>2, <2>3 DEF BeforeVisit, SoundStays
<1>9. AwaitsLength'
  <2> SUFFICES ASSUME w.pc["V"] = "length" PROVE AwaitsLength'
    BY <1>2 DEF AwaitsLength
  <2>1. Turn(w, "V") # S!Ok /\ (Turn(w, "V") = S!Error => ~Sound)
    BY <1>1 DEF Phases, AwaitsLength
  <2>2. Turn(w, "V") \in Chunk => Turn(w, "V")[2] # "length" /\ Holds /\ AtLength
    BY <1>1, <1>2, <1>3 DEF Phases, AwaitsLength
  <2>3. Reads("V") => InStep
    BY <1>1, <1>2, <1>3 DEF Phases, AwaitsLength
  <2>4. Reads("V")' => /\ AtLength' => /\ w'.pc["R"] = "length" => FALSE
                                       /\ ~Unconfirmed' => Holds'
                       /\ ~AtLength' => Takes'
    BY <1>2, <1>3, <1>6, <2>3
  <2> QED BY <1>1, <1>2, <1>3, <1>5, <2>1, <2>2, <2>4 DEF AwaitsLength, SoundStays
<1>10. AwaitsBody' /\ Taken'
  BY <1>2 DEF Phases, AwaitsBody, Taken
<1>11. Failed'
  BY <1>1, <1>2, <1>3, <1>5 DEF Phases, Failed, SoundStays
<1> QED BY <1>7, <1>8, <1>9, <1>10, <1>11 DEF Phases

LEMMA VisitorReads ==
  ASSUME Phases, NEW got, ReadGives("V", got, "none"), ChunkRead(got), SoundStays,
         UNCHANGED up, upRead \in Nat, S!Whole("V")
  PROVE  Phases'
<1>1. /\ got[2] \in {"length", "body", "data"} /\ got # Nil /\ got # S!Ok /\ got # S!Error
      /\ got \in Chunk /\ (AtLength' <=> ~AtLength) /\ got = up'[upRead']
      /\ ~Scattered /\ ~Scattered' /\ w.torn \in {"none", "V"}
  BY Replies DEF ChunkRead, Chunk, Scattered, ReadGives, S!Whole
<1>2. /\ Turn(w', "V") = got /\ ~Reading(w', "V") /\ ~Late(w')
      /\ Turn(w', "R") = Turn(w, "R") /\ (Reading(w', "R") <=> Reading(w, "R"))
      /\ w'.pc["V"] = w.pc["V"] /\ w'.pc["R"] = w.pc["R"] /\ w'.length = w.length
      /\ Reading(w, "V") /\ First(w) = "V" /\ w'.torn = "none"
  BY DEF ReadGives, Stands, VisitStands
<1>3. (Holds <=> Holds') /\ (Takes <=> Takes')
  BY <1>2 DEF Holds, Takes
<1>4. /\ Turn(w, "R") \notin {S!Part, S!Torn} /\ Reads("V") /\ ~Reads("V")'
      /\ Reads("R")' <=> Reading(w, "R")
  <2>1. Turn(w, "R") \notin {S!Part, S!Torn}
    BY <1>1 DEF Phases, Parts
  <2> QED BY <1>1, <1>2, <2>1, Replies DEF Reads
<1>5. /\ w.pc["V"] \notin {"none", "start", "providing", "confirmed", "handed"}
      /\ w.pc["V"] = "failed" => ~Sound
  BY <1>1, <1>2 DEF Phases, BeforeVisit, Taken, Failed
<1>6. Parts'
  BY <1>1, <1>2, <1>4, Replies DEF Parts
<1>7. AwaitsLength'
  <2> SUFFICES ASSUME w.pc["V"] = "length" PROVE AwaitsLength'
    BY <1>2 DEF AwaitsLength
  <2>1. Turn(w', "R") # S!Ok
    BY <1>1, <1>2 DEF Phases, AwaitsLength
  <2>2. CASE Reading(w, "R")
    <3>1. ~AtLength /\ Holds /\ w.pc["R"] = "body"
      BY <1>1, <1>2, <1>4, <2>2 DEF Phases, AwaitsLength
    <3>2. got[2] # "length"
      BY <3>1 DEF ChunkRead
    <3> QED BY <1>1, <1>2, <1>3, <1>4, <2>1, <3>1, <3>2 DEF AwaitsLength
  <2>3. CASE ~Reading(w, "R") /\ AtLength
    <3>1. /\ w.pc["R"] = "length" => Turn(w, "R") \notin Chunk
          /\ ~Unconfirmed => Holds
      BY <1>1, <1>4, <2>3 DEF Phases, AwaitsLength
    <3>2. CASE got[2] = "length"
      <4>1. Unconfirmed' /\ ~AtLength' /\ 0 < upRead'
        BY <2>3, <3>2 DEF ChunkRead, Unconfirmed
      <4> QED BY <1>1, <1>2, <1>4, <2>1, <2>3, <3>1, <3>2, <4>1 DEF AwaitsLength
    <3>3. CASE got[2] # "length"
      <4>1. Holds
        BY <1>1, <2>3, <3>1, <3>3 DEF ChunkRead, Unconfirmed
      <4> QED BY <1>1, <1>2, <1>3, <1>4, <2>1, <2>3, <3>3, <4>1 DEF AwaitsLength
    <3> QED BY <3>2, <3>3
  <2>4. CASE ~Reading(w, "R") /\ ~AtLength
    <3>1. Holds \/ Takes
      BY <1>1, <1>4, <2>4 DEF Phases, AwaitsLength
    <3>2. got[2] # "length"
      BY <2>4 DEF ChunkRead
    <3> QED BY <1>1, <1>2, <1>3, <1>4, <2>1, <2>4, <3>1, <3>2 DEF AwaitsLength
  <2> QED BY <2>2, <2>3, <2>4
<1>8. AwaitsBody'
  <2> SUFFICES ASSUME w.pc["V"] = "body" PROVE AwaitsBody'
    BY <1>2 DEF AwaitsBody
  <2>1. /\ ~Reading(w, "R") /\ Turn(w, "R") \in {Nil, S!Error}
        /\ w.length["V"] \in {"ping", "confirmed"}
        /\ ~AtLength /\ Unconfirmed /\ 0 < upRead
        /\ up[upRead] = <<w.length["V"], "length">>
    BY <1>4 DEF Phases, AwaitsBody
  <2>2. got = <<w.length["V"], "body">>
    BY <2>1 DEF ChunkRead
  <2>3. got = Ping => Unconfirmed'
    BY <2>1 DEF ChunkRead, Ping
  <2> QED BY <1>1, <1>2, <1>4, <2>1, <2>2, <2>3 DEF AwaitsBody
<1>9. (BeforeVisit /\ Taken /\ Failed)'
  BY <1>2, <1>5 DEF BeforeVisit, Taken, Failed, SoundStays
<1> QED BY <1>6, <1>7, <1>8, <1>9 DEF Phases

LEMMA ReadingCompletes ==
  ASSUME w \in ServerWorkers, ServerReading, StreamsOK, WholeMessages(up),
         LastBefore("confirmed", up), S!ReadCompletes, UNCHANGED <<c, lost>>
  PROVE  ServerReading'
<1> DEFINE chunk == up[upRead + 1]
           a == Head(w.reads)
<1>1. w.reads # <<>> /\ upRead < Len(up) /\ upRead' = upRead + 1 /\ up' = up
  BY DEF S!ReadCompletes
<1>2. PICK got, t : /\ w' = S!Post([w EXCEPT !.reads = Tail(@), !.torn = t], a, got)
                    /\ \/ S!Whole(a) /\ got = chunk /\ t = "none"
                       \/ ~S!Whole(a) /\ got = S!Torn /\ t = "lost"
  BY DEF S!ReadCompletes
<1>3. ChunkRead(chunk)
  BY <1>1, ChunkIs
<1> HIDE DEF chunk
<1>4. got \in Reply
  BY <1>2, <1>3, Replies DEF ChunkRead, Reply
<1>5. OneTurn' /\ ServerFlags' /\ ReadGives(a, got, t)
  BY <1>1, <1>2, <1>4, ReadsFirst
<1> HIDE DEF a
<1>6. SoundStays
  BY <1>5 DEF SoundStays, Sound, ReadGives, Stands, VisitStands
<1>7. upRead \in Nat
  BY DEF StreamsOK
<1>8. Phases'
  <2>1. CASE S!Whole(a) /\ got = chunk /\ t = "none"
    BY <1>1, <1>3, <1>5, <1>6, <1>7, <2>1, ReceiverReads, VisitorReads
       DEF ServerReading, ReadGives
  <2>2. CASE ~S!Whole(a) /\ got = S!Torn /\ t = "lost"
    BY <1>5, <2>2, TornRead DEF ServerReading
  <2> QED BY <1>2, <2>1, <2>2
<1> QED BY <1>5, <1>8 DEF ServerReading

-----------------------------------------------------------------------------
(* The other side's steps.  A socket that the client has closed stays so.  *)
Shut(x) == x \in ClientWorkers /\ x.sock = "closed"

LEMMA ShutStays ==
  ASSUME NEW x, NEW y, Shut(x), ClientGoesOn(x, y)
  PROVE  Shut(y)
BY DEF Shut, ClientGoesOn

LEMMA ShutPieces ==
  ASSUME NEW x, Shut(x)
  PROVE  /\ Shut(C!WakePing(x)) /\ Shut(C!AwaitTimer(x)) /\ Shut(C!TryStop(x))
         /\ Shut(C!Receive(x)) /\ Shut(C!StartRead(x, "body"))
         /\ \A a \in {"C", "P"} : /\ Shut(C!Throw(x, a))
                                  /\ \A l \in ClientPcs : Shut(C!GoTo(x, a, l))
                                  /\ \A got \in Reply : Shut(C!Post(x, a, got))
         /\ \A t \in {"max", "armed", "expired"} : Shut([x EXCEPT !.timer = t])
<1>1. x \in ClientWorkers
  BY DEF Shut
<1>2. \A a \in {"C", "P"}, got \in Reply : Shut(C!Post(x, a, got))
  BY <1>1, ClientPosts DEF Shut
<1> QED BY <1>1, <1>2, ShutStays, ClientWakes, ClientAwaits, ClientStops, ClientReceives,
           ClientStartsRead, ClientThrows, ClientMoves, ClientSets DEF ClientStays

LEMMA ClientShut ==
  ASSUME StreamsOK, ClientInv, C!Next, c.sock = "closed"
  PROVE  c'.sock = "closed"
<1> DEFINE x == C!Rest
<1> SUFFICES Shut(c')
  BY DEF Shut
<1>1. Shut(c)
  BY DEF ClientInv, Shut
<1>2. c.ready # <<>> => Shut(x) /\ C!Got \in Reply
  BY <1>1, ClientPops, ShutStays DEF ClientStays
<1>3. CASE C!HelloSent \/ C!RecvLength \/ C!HandlePong \/ C!RecvUnexpected
  <2> DEFINE y == [x EXCEPT !.length = C!Got[1]]
  <2>1. c.ready # <<>>
    BY <1>3 DEF C!HelloSent, C!RecvLength, C!HandlePong, C!RecvUnexpected, C!Resumes
  <2>2. \/ c' = C!Receive(x)
        \/ C!Got[2] = "length" /\ c' = C!StartRead(y, "body")
        \/ c' = C!Throw(x, "C")
    BY <1>3 DEF C!HelloSent, C!RecvLength, C!HandlePong, C!RecvUnexpected
  <2> HIDE DEF x
  <2>3. C!Got[2] = "length" => Shut(y)
    <3>1. C!Got[2] = "length" => C!Got[1] \in Names
      BY <1>2, <2>1 DEF Reply, Chunk, Names
    <3> QED BY <1>2, <2>1, <3>1 DEF Shut, ClientWorkers
  <2> HIDE DEF y
  <2> QED BY <1>2, <2>1, <2>2, <2>3, ShutPieces
<1>4. CASE C!HandleVisit \/ C!SendPing
  <2> DEFINE y == [x EXCEPT !.visited = TRUE, !.timer = "max"]
             z == [x EXCEPT !.timer = "max"]
  <2>1. c.ready # <<>>
    BY <1>4 DEF C!HandleVisit, C!SendPing, C!Resumes
  <2>2. C!SendMsg(C!WakePing(y), "C", "confirmed") \/ C!SendMsg(z, "P", "ping")
    BY <1>4 DEF C!HandleVisit, C!SendPing
  <2> HIDE DEF x
  <2>3. Shut(y) /\ Shut(z)
    BY <1>2, <2>1 DEF Shut, ClientWorkers
  <2> HIDE DEF y, z
  <2>4. Shut(C!WakePing(y))
    BY <2>3, ShutPieces
  <2> QED BY <2>2, <2>3, <2>4, ClientSends, ShutStays DEF Shut
<1>5. CASE C!ConfirmSent \/ C!Given
  <2> DEFINE y == C!GoTo(x, "C", "giving")
  <2>1. c.ready # <<>>
    BY <1>5 DEF C!ConfirmSent, C!Given, C!Resumes
  <2>2. \/ c' = [y EXCEPT !.sock = IF @ = "open" THEN "moved" ELSE @]
        \/ c' = C!GoTo(x, "C", "done") \/ c' = C!Throw(x, "C")
    BY <1>5 DEF C!ConfirmSent, C!Given
  <2> HIDE DEF x
  <2>3. Shut(y)
    BY <1>2, <2>1, ShutPieces DEF ClientPcs
  <2> HIDE DEF y
  <2>4. Shut([y EXCEPT !.sock = IF @ = "open" THEN "moved" ELSE @])
    BY <2>3 DEF Shut, ClientWorkers
  <2> QED BY <1>2, <2>1, <2>2, <2>4, ShutPieces DEF ClientPcs
<1>6. CASE C!PingStart \/ C!PingEnds \/ C!TimerWasReset \/ C!PingSent
  <2>1. c.ready # <<>> /\ c' \in {C!AwaitTimer(x), C!GoTo(x, "P", "done"), C!Throw(x, "P")}
    BY <1>6 DEF C!PingStart, C!PingEnds, C!TimerWasReset, C!PingSent, C!Resumes
  <2> QED BY <1>2, <2>1, ShutPieces DEF ClientPcs
<1>7. CASE C!ReadCompletes \/ C!ReadFails
  <2> DEFINE y == [c EXCEPT !.reading = FALSE]
  <2>1. PICK got \in Reply : c' = C!Post(y, "C", got)
    <3>1. CASE C!ReadCompletes
      <4>1. downRead + 1 \in 1..Len(down) /\ down \in Seq(Chunk)
        BY <3>1 DEF C!ReadCompletes, StreamsOK
      <4>2. down[downRead + 1] \in Reply
        BY <4>1 DEF Reply
      <4> QED BY <3>1, <4>2 DEF C!ReadCompletes
    <3>2. CASE C!ReadFails
      BY <3>2, ClientReplies DEF C!ReadFails
    <3> QED BY <1>7, <3>1, <3>2
  <2>2. Shut(y)
    BY <1>1 DEF Shut, ClientWorkers
  <2> QED BY <2>1, <2>2, ShutPieces
<1>8. CASE C!TimerExpires
  <2> DEFINE y == [c EXCEPT !.timer = "expired", !.pings = @ + 1]
  <2>1. c' = C!WakePing(y) /\ c.pings < MaxPings
    BY <1>8 DEF C!TimerExpires
  <2>2. Shut(y)
    <3>1. c.pings + 1 \in 0..MaxPings
      BY <1>1, <2>1, MaxPingsAssumption DEF ClientWorkers, MaxPingsAssumption, Shut
    <3> QED BY <1>1, <3>1 DEF ClientWorkers, Shut
  <2> QED BY <2>1, <2>2, ShutPieces
<1>9. CASE C!ForwarderTakes \/ C!QueueAborts \/ C!StopWorker
  <2> DEFINE y == C!GoTo(c, "C", "given")
             z == [y EXCEPT !.sock = "closed"]
  <2>1. \/ c' = C!Post(y, "C", C!Ok) \/ c' = C!Post(z, "C", C!Error)
        \/ c' = C!TryStop(c)
    BY <1>9 DEF C!ForwarderTakes, C!QueueAborts, C!StopWorker
  <2>2. Shut(y)
    BY <1>1, ShutPieces DEF ClientPcs
  <2> HIDE DEF y
  <2>3. Shut(z)
    BY <2>2 DEF Shut, ClientWorkers
  <2> HIDE DEF z
  <2> QED BY <1>1, <2>1, <2>2, <2>3, ShutPieces, ClientReplies
<1>10. CASE C!SendHello
  <2> DEFINE g == [x EXCEPT !.greeted = TRUE]
  <2>1. c.ready # <<>>
    BY <1>10 DEF C!SendHello, C!Resumes
  <2>2. PICK y \in {x, g}, got \in {C!Ok, C!Error} :
          c' = C!Post(C!GoTo(y, "C", "greeting"), "C", got)
    BY <1>10 DEF C!SendHello
  <2> HIDE DEF x
  <2>3. Shut(y)
    BY <1>2, <2>1 DEF Shut, ClientWorkers
  <2>4. Shut(C!GoTo(y, "C", "greeting"))
    BY <2>3, ShutPieces DEF ClientPcs
  <2> QED BY <2>2, <2>4, ShutPieces, ClientReplies
<1> QED BY <1>3, <1>4, <1>5, <1>6, <1>7, <1>8, <1>9, <1>10 DEF C!Next, C!RunHandler

(* The server's worker and what it has read stay, and what there is to     *)
(* read may grow.                                                          *)
LEMMA ReadingStays ==
  ASSUME StreamsOK, ServerReading, UNCHANGED <<w, upRead>>, SoundStays,
         up' \in Seq(Chunk), Goes(up, up')
  PROVE  ServerReading'
<1>1. w' = w /\ upRead' = upRead
  OBVIOUS
<1>2. Confirmed(upRead)' <=> Confirmed(upRead)
  <2>1. upRead \in 0..Len(up) /\ Len(up) \in Nat /\ Len(up') \in Nat
    BY DEF StreamsOK
  <2>2. \A k \in 1..upRead : k \in 1..Len(up) /\ up'[k] = up[k]
    BY <2>1 DEF Goes
  <2> QED BY <1>1, <2>2 DEF Confirmed, SentBy
<1>3. 0 < upRead => up'[upRead] = up[upRead]
  BY DEF StreamsOK, Goes
<1>4. /\ Holds <=> Holds'
      /\ Takes <=> Takes'
      /\ AtLength <=> AtLength'
      /\ Unconfirmed <=> Unconfirmed'
      /\ InStep <=> InStep'
      /\ Scattered <=> Scattered'
      /\ \A a : Reads(a) <=> Reads(a)'
      /\ Parts <=> Parts'
  BY <1>1, <1>2 DEF Holds, Takes, AtLength, Unconfirmed, InStep, Scattered, Reads, Parts
<1>5. BeforeVisit'
  BY <1>1, <1>4 DEF ServerReading, Phases, BeforeVisit, SoundStays
<1>6. AwaitsLength'
  BY <1>1, <1>3, <1>4 DEF ServerReading, Phases, AwaitsLength, SoundStays
<1>7. AwaitsBody'
  BY <1>1, <1>3, <1>4 DEF ServerReading, Phases, AwaitsBody, SoundStays
<1>8. Taken' /\ Failed'
  BY <1>1, <1>4 DEF ServerReading, Phases, Taken, Failed, SoundStays
<1>9. ServerFlags' /\ OneTurn'
  BY <1>1 DEF ServerReading, ServerFlags, OneTurn, S!Alive, S!Coroutines
<1> QED BY <1>4, <1>5, <1>6, <1>7, <1>8, <1>9 DEF ServerReading, Phases

-----------------------------------------------------------------------------
(* All together.                                                           *)
LEMMA ServerReadingOn ==
  ASSUME StreamsOK, ServerInv, WholeMessages(up), LastBefore("confirmed", up),
         ServerReading, S!Next, UNCHANGED <<c, lost>>
  PROVE  ServerReading' /\ up' = up
<1>1. w \in ServerWorkers
  BY DEF ServerInv
<1>2. CASE S!ReadCompletes
  BY <1>1, <1>2, ReadingCompletes DEF S!ReadCompletes
<1>3. CASE S!RunHandler
  <2>1. ServerOnly
    BY <1>1, <1>3 DEF ServerOnly, S!RunHandler
  <2> QED BY <1>3, <2>1, ReadingReceives, ReadingSends, ReadingDeadline, ReadingVisitStarts,
             ReadingVisitSent, ReadingVisitLength, ReadingVisitBody, ReadingWaits,
             ReadingProvides, ReadingDrains DEF S!RunHandler, ServerOnly
<1>4. CASE S!ReadPart \/ S!ReadFails \/ S!DdlExpires \/ S!VisitorComes \/ S!HandOver
             \/ S!StopWorker \/ S!Destroyed
  <2>1. ServerOnly
    BY <1>1, <1>4 DEF ServerOnly, S!ReadPart, S!ReadFails, S!DdlExpires, S!VisitorComes,
                      S!HandOver, S!StopWorker, S!Destroyed
  <2> QED BY <1>4, <2>1, ReadingPart, ReadingFails, ReadingOutside, ReadingVisited
          DEF ServerOnly
<1> QED BY <1>2, <1>3, <1>4 DEF S!Next

LEMMA ReadsStep == LinkInv /\ ReadsInv /\ [Next]_vars => ReadsInv'
<1> SUFFICES ASSUME LinkInv, ReadsInv, [Next]_vars PROVE ReadsInv'
  OBVIOUS
<1>1. /\ StreamsOK /\ ServerInv /\ ClientInv
      /\ LastBefore("confirmed", up) /\ WholeMessages(up) /\ ClientWrites /\ ServerReading
  BY DEF LinkInv, TakeoverIsLast, ReadsInv, ClientWrites
<1>2. StreamsOK'
  BY LinkSteps DEF LinkInv
<1>3. CASE Server
  <2>1. S!Next /\ UNCHANGED <<c, lost>>
    BY <1>3 DEF Server, ServerMay
  <2>2. ServerReading' /\ up' = up
    BY <1>1, <2>1, ServerReadingOn
  <2>3. ClientWrites'
    BY <1>1, <2>1, <2>2 DEF ClientWrites, ClientConfirmed, Confirmed
  <2> QED BY <2>2, <2>3 DEF ReadsInv
<1>4. CASE Client
  <2>1. C!Next /\ UNCHANGED <<w, upRead, lost>>
    BY <1>4 DEF Client
  <2>2. ClientWrites'
    BY <1>1, <2>1, ClientWritesOn
  <2>3. UpKept
    BY <1>1, <2>1, ClientKeeps
  <2>4. SoundStays
    BY <1>1, <2>1, ClientShut DEF SoundStays, Sound
  <2>5. ServerReading'
    BY <1>1, <2>1, <2>3, <2>4, ReadingStays DEF UpKept
  <2> QED BY <2>2, <2>5 DEF ReadsInv
<1>5. CASE ClientForwards
  <2>1. up' = Append(up, Data) /\ UNCHANGED <<w, c, upRead, lost>>
    BY <1>5 DEF ClientForwards
  <2>2. ClientWrites'
    BY <1>1, <1>5, DataWritesOn
  <2>3. up' \in Seq(Chunk) /\ Goes(up, up')
    BY <1>1, <2>1, SendData DEF StreamsOK
  <2>4. SoundStays
    BY <2>1 DEF SoundStays, Sound
  <2>5. ServerReading'
    BY <1>1, <2>1, <2>3, <2>4, ReadingStays
  <2> QED BY <2>2, <2>5 DEF ReadsInv
<1>6. CASE ServerForwards \/ Lose \/ UNCHANGED vars
  <2>1. UNCHANGED <<w, c, up, upRead>> /\ (lost => lost')
    BY <1>6 DEF ServerForwards, Lose, vars
  <2>2. ClientWrites'
    BY <1>1, <2>1 DEF ClientWrites, ClientConfirmed, Confirmed
  <2>3. SoundStays
    BY <2>1 DEF SoundStays, Sound
  <2>4. ServerReading'
    BY <1>1, <1>2, <2>1, <2>3, ReadingStays DEF StreamsOK, Goes
  <2> QED BY <2>2, <2>4 DEF ReadsInv
<1> QED BY <1>3, <1>4, <1>5, <1>6 DEF Next

LEMMA ReadsStart == Init => ReadsInv
<1> SUFFICES ASSUME Init PROVE ReadsInv
  OBVIOUS
<1>1. S!Init /\ upRead = 0 /\ w \in ServerWorkers
  BY LinkStarts DEF Init, LinkInv, ServerInv
<1>2. /\ w.ready = <<S!Handler("R", S!Ok), S!Handler("S", S!Ok), S!Handler("D", S!Ok)>>
      /\ w.reads = <<>> /\ w.backlog = <<>> /\ w.pc["V"] = "none" /\ w.pc["R"] = "start"
      /\ w.visited = FALSE /\ w.confirmed = FALSE /\ w.sendClosed = FALSE /\ w.sock = "open"
      /\ w.torn = "none"
  BY <1>1 DEF S!Init
<1>3. /\ Len(w.ready) = 3 /\ w.ready[1] = S!Handler("R", S!Ok)
      /\ w.ready[2] = S!Handler("S", S!Ok) /\ w.ready[3] = S!Handler("D", S!Ok)
      /\ Len(w.reads) = 0 /\ Len(w.backlog) = 0
  BY <1>2
<1>4. /\ w.ready[1].to = "R" /\ w.ready[1].got = S!Ok
      /\ \A i \in 1..Len(w.ready) : i # 1 => w.ready[i].to \in {"S", "D"}
  <2>1. \A i \in 1..Len(w.ready) : i = 1 \/ i = 2 \/ i = 3
    BY <1>3
  <2> QED BY <1>3, <2>1, HandlerParts
<1>5. /\ \A i \in 1..Len(w.ready) : TurnOf(w.ready[i], "R") => i = 1
      /\ \A i \in 1..Len(w.ready) : ~TurnOf(w.ready[i], "V") /\ w.ready[i].to # "drain"
  BY <1>4 DEF TurnOf
<1>6. OneTurn
  BY <1>3, <1>5 DEF OneTurn, OneEach, Once, InReady, Reading, InBacklog
<1>7. Turn(w, "R") = S!Ok
  <2>1. 1 \in 1..Len(w.ready)
    BY <1>3
  <2> QED BY <1>1, <1>4, <1>6, <2>1, TurnIs DEF OneTurn, OneEach
<1>8. ServerFlags
  BY <1>2, <1>5 DEF ServerFlags, Visiting
<1>9. AtLength /\ Unconfirmed
  <2>1. 1..0 = {}
    OBVIOUS
  <2> QED BY <1>1, <2>1, EvenZero DEF AtLength, Unconfirmed, Confirmed, SentBy
<1>10. Phases
  <2>1. ~Reading(w, "R") /\ ~Reading(w, "V")
    BY <1>3 DEF Reading
  <2>2. Parts
    <3>1. Turn(w, "V") = Nil
      BY <1>5 DEF Turn, Resumed, TurnOf
    <3> QED BY <1>2, <1>7, <3>1, Replies DEF Parts, Scattered
  <2>3. ~Reads("R")
    BY <1>7, <2>1, Replies DEF Reads
  <2> QED BY <1>2, <1>7, <1>9, <2>1, <2>2, <2>3, Replies
          DEF Phases, BeforeVisit, AwaitsLength, AwaitsBody, Taken, Failed
<1> QED BY <1>6, <1>8, <1>10, ClientWritesStarts DEF ReadsInv, ServerReading

LEMMA ReadsInvariant == Init /\ [][Next]_vars => [](LinkInv /\ ReadsInv)
BY LinkInvariant, ReadsStart, ReadsStep, PTL

-----------------------------------------------------------------------------
(* Once visit() has the confirmation, each step leaves it so, and the      *)
(* other coroutines only end, or send_msgs waits for to_send_ once more.   *)
Leaves(x) ==
  w.confirmed => /\ x.confirmed
                 /\ x.pc["R"] \in {w.pc["R"], "done"}
                 /\ x.pc["S"] \in {w.pc["S"], "getting", "done"}

LEMMA LeavesHandler ==
  ASSUME ServerInv, ServerReading, S!RunHandler
  PROVE  Leaves(w')
<1> SUFFICES ASSUME w.confirmed PROVE Leaves(w')
  BY DEF Leaves
<1> DEFINE x == S!Rest
<1>1. /\ w \in ServerWorkers /\ OneEach(w) /\ w.visited /\ w.pc["R"] # "start"
      /\ w.pc["V"] \in {"confirmed", "handed"} /\ NoMessage(w) /\ SendInPlace(w)
      /\ Turn(w, "R") \in {Nil, S!Error}
  BY DEF ServerInv, InPlace, ServerReading, ServerFlags, OneTurn, Phases, Taken
<1>2. w.ready # <<>> => /\ x \in ServerWorkers /\ SameFlags(w, x) /\ x.pc = w.pc
                        /\ Head(w.ready).to = "R" => S!Got \in {Nil, S!Error}
                        /\ Head(w.ready).to = "S" /\ w.pc["S"] = "getting" => S!Got = S!Error
  <2> SUFFICES ASSUME w.ready # <<>>
               PROVE  /\ x \in ServerWorkers /\ SameFlags(w, x) /\ x.pc = w.pc
                      /\ Head(w.ready).to = "R" => S!Got \in {Nil, S!Error}
                      /\ Head(w.ready).to = "S" /\ w.pc["S"] = "getting" => S!Got = S!Error
    OBVIOUS
  <2>1. /\ x \in ServerWorkers /\ SameFlags(w, x) /\ x.pc = w.pc
        /\ Head(w.ready).to = "R" => Turn(w, "R") = Head(w.ready).got
    BY <1>1, Pops DEF S!Rest
  <2>2. Head(w.ready) = w.ready[1] /\ 1 \in 1..Len(w.ready) /\ w.ready[1] \in ServerHandlers
    BY <1>1, PopSeq DEF ServerWorkers
  <2>3. Head(w.ready).to = "S" => S!Got \in {S!Ok, S!Error} \cup Message
    BY <2>2 DEF ServerHandlers, S!Got
  <2>4. Head(w.ready).to = "S" /\ w.pc["S"] = "getting" => S!Got = S!Error
    BY <1>1, <2>2, <2>3 DEF NoMessage, SendInPlace, S!Got
  <2> QED BY <1>1, <2>1, <2>4 DEF S!Got
<1> HIDE DEF x
<1>3. CASE S!RecvStart \/ S!RecvLength \/ S!RecvBody \/ S!RecvAnswered
  <2>1. w.ready # <<>> /\ Head(w.ready).to = "R"
    BY <1>3 DEF S!RecvStart, S!RecvLength, S!RecvBody, S!RecvAnswered, S!Resumes
  <2>2. /\ S!Got[2] # "length" /\ S!Got # Ping /\ S!Got # S!Ok
        /\ S!Got \notin {S!Part, S!Torn}
    BY <1>2, <2>1, Replies DEF Nil, S!Error, S!Part, S!Torn
  <2>3. w' = S!Throw(x, "R")
    BY <1>1, <1>3, <2>2 DEF S!RecvStart, S!RecvLength, S!RecvBody, S!RecvAnswered, S!Resumes,
                            S!ReadOn, Ping, x
  <2>4. Throws(x, "R", w')
    BY <1>2, <2>1, <2>3, ThrowsOn
  <2> QED BY <1>2, <2>1, <2>4 DEF Throws, Leaves, SameFlags
<1>4. CASE S!SendStart \/ S!SendMsg \/ S!SendAborted \/ S!SendDone
  <2> DEFINE y == S!GoTo(x, "S", "getting")
  <2>1. w.ready # <<>> /\ Head(w.ready).to = "S"
    BY <1>4 DEF S!SendStart, S!SendMsg, S!SendAborted, S!SendDone, S!Resumes
  <2>2. w' = S!Post(y, "wait", S!Ok) \/ w' = S!Throw(x, "S")
    BY <1>2, <1>4, <2>1 DEF S!SendStart, S!SendMsg, S!SendAborted, S!SendDone, S!Resumes,
                            S!Wait, x
  <2>3. CASE w' = S!Throw(x, "S")
    <3>1. Throws(x, "S", w')
      BY <1>2, <2>1, <2>3, ThrowsOn
    <3> QED BY <1>2, <2>1, <3>1 DEF Throws, Leaves, SameFlags
  <2>4. CASE w' = S!Post(y, "wait", S!Ok)
    <3>1. /\ SameFlags(x, y) /\ y \in ServerWorkers
          /\ \A b \in {"R", "S", "D", "V"} : y.pc[b] = IF b = "S" THEN "getting" ELSE x.pc[b]
      BY <1>2, <2>1, MoveFlags DEF ServerPcs
    <3> HIDE DEF y
    <3>2. SameFlags(y, w') /\ w'.pc = y.pc
      BY <2>4, <3>1, PostFlags
    <3> QED BY <1>2, <2>1, <3>1, <3>2 DEF Leaves, SameFlags
  <2> QED BY <2>2, <2>3, <2>4
<1>5. CASE S!DdlStart \/ S!DdlWake
  <2> DEFINE y == S!GoTo(x, "D", "done")
  <2>1. w.ready # <<>> /\ (w' = S!AwaitDdl(x) \/ w' = y)
    BY <1>5 DEF S!DdlStart, S!DdlWake, S!Resumes, x
  <2>2. Softly(x, S!AwaitDdl(x))
    BY <1>2, <2>1, WakeSoftly
  <2>3. /\ SameFlags(x, y)
        /\ \A b \in {"R", "S", "D", "V"} : y.pc[b] = IF b = "D" THEN "done" ELSE x.pc[b]
    BY <1>2, <2>1, MoveFlags DEF ServerPcs
  <2> HIDE DEF y
  <2> QED BY <1>2, <2>1, <2>2, <2>3 DEF Softly, SamePcs, SameFlags, Leaves
<1>6. CASE S!VisitStart \/ S!VisitSent \/ S!VisitLength \/ S!VisitBody
  BY <1>1, <1>6 DEF S!VisitStart, S!VisitSent, S!VisitLength, S!VisitBody, S!Resumes
<1>7. CASE S!RunWait \/ S!RunProvide \/ S!RunDrain
  <2>1. w.ready # <<>>
    BY <1>7 DEF S!RunWait, S!RunProvide, S!RunDrain
  <2>2. w'.pc = x.pc /\ w'.confirmed = x.confirmed
    BY <1>2, <1>7, <2>1 DEF S!RunWait, S!RunProvide, S!RunDrain, S!Post, ServerWorkers, x
  <2> QED BY <1>2, <2>1, <2>2 DEF Leaves, SameFlags
<1> QED BY <1>3, <1>4, <1>5, <1>6, <1>7 DEF S!RunHandler

LEMMA LeavesOutside ==
  ASSUME w \in ServerWorkers, ServerReading,
         S!ReadCompletes \/ S!ReadPart \/ S!ReadFails \/ S!DdlExpires \/ S!VisitorComes
           \/ S!HandOver \/ S!StopWorker \/ S!Destroyed
  PROVE  Leaves(w')
<1> SUFFICES ASSUME w.confirmed PROVE Leaves(w')
  BY DEF Leaves
<1>1. /\ w.pc["V"] \in {"confirmed", "handed"} /\ ~Reading(w, "R") /\ ~Reading(w, "V")
  BY DEF ServerReading, ServerFlags, Phases, Taken
<1>2. CASE S!ReadCompletes \/ S!ReadPart \/ S!ReadFails
  <2>1. w.reads # <<>> /\ w.reads \in Seq({"R", "V"})
    BY <1>2 DEF S!ReadCompletes, S!ReadPart, S!ReadFails, ServerWorkers
  <2>2. 1 \in 1..Len(w.reads) /\ w.reads[1] \in {"R", "V"}
    BY <2>1
  <2> QED BY <1>1, <2>2 DEF Reading
<1>3. CASE S!DdlExpires
  <2>1. Softly(w, w')
    BY <1>3, WakeSoftly DEF S!DdlExpires
  <2> QED BY <2>1 DEF Softly, SamePcs, SameFlags, Leaves
<1>4. CASE S!VisitorComes
  BY <1>1, <1>4 DEF S!VisitorComes
<1>5. CASE S!HandOver
  <2> DEFINE u == S!GoTo(w, "V", "handed")
  <2>1. w' = [u EXCEPT !.sock = "moved"]
    BY <1>5 DEF S!HandOver
  <2>2. /\ SameFlags(w, u) /\ u \in ServerWorkers
        /\ \A b \in {"R", "S", "D", "V"} : u.pc[b] = IF b = "V" THEN "handed" ELSE w.pc[b]
    BY MoveFlags DEF ServerPcs
  <2> HIDE DEF u
  <2>3. w'.pc = u.pc /\ w'.confirmed = u.confirmed
    BY <2>1, <2>2 DEF ServerWorkers
  <2> QED BY <2>2, <2>3 DEF SameFlags, Leaves
<1>6. CASE S!StopWorker
  <2>1. Stops(w, w')
    BY <1>6, StopsWorker DEF S!StopWorker
  <2> QED BY <2>1 DEF Stops, SamePcs, Leaves
<1>7. CASE S!Destroyed
  BY <1>7 DEF S!Destroyed, ServerWorkers, Leaves
<1> QED BY <1>2, <1>3, <1>4, <1>5, <1>6, <1>7

(* With the confirmation, recv_msgs has no read pending.                   *)
LEMMA ReadsNothing ==
  ASSUME NEW x \in ServerWorkers, ~Reading(x, "R"), ~Reading(x, "V")
  PROVE  x.reads = <<>>
<1> SUFFICES ASSUME x.reads # <<>> PROVE FALSE
  OBVIOUS
<1>1. x.reads \in Seq({"R", "V"})
  BY DEF ServerWorkers
<1>2. 1 \in 1..Len(x.reads) /\ x.reads[1] \in {"R", "V"}
  BY <1>1
<1> QED BY <1>2 DEF Reading

LEMMA HandoverStep ==
  ASSUME LinkInv, ReadsInv, LinkInv', ReadsInv', [Next]_vars, w.confirmed
  PROVE  /\ w'.reads = <<>>
         /\ w'.pc.R \in {w.pc.R, "done"}
         /\ w'.pc.S \in {w.pc.S, "getting", "done"}
<1>1. ServerInv /\ ServerReading /\ w \in ServerWorkers
  BY DEF LinkInv, ReadsInv, ServerInv
<1>2. Leaves(w')
  <2>1. CASE Server
    BY <1>1, <2>1, LeavesHandler, LeavesOutside DEF Server, ServerMay, S!Next
  <2>2. CASE ~Server
    <3>1. w' = w
      BY <2>2 DEF Next, vars, Client, ClientForwards, ServerForwards, Lose
    <3> QED BY <3>1 DEF Leaves
  <2> QED BY <2>1, <2>2
<1>3. w'.confirmed
  BY <1>2 DEF Leaves
<1>4. w'.reads = <<>>
  <2>1. w' \in ServerWorkers /\ ServerFlags' /\ Phases'
    BY DEF LinkInv, ServerInv, ReadsInv, ServerReading
  <2>2. ~Reading(w', "R") /\ ~Reading(w', "V")
    BY <1>3, <2>1 DEF ServerFlags, Phases, Taken
  <2> QED BY <2>1, <2>2, ReadsNothing
<1> QED BY <1>2, <1>4 DEF Leaves

(* While a visit is confirmed, and after that, none of recv_msgs and       *)
(* visit() has a read of s_ pending and recv_msgs starts none, and         *)
(* send_msgs writes nothing: the forwarder's thread may move s_ out at any *)
(* moment (visit() in server.hpp, which co_spawns on ioc_ and returns the  *)
(* socket to another thread).                                              *)
THEOREM HandoverSafe == ServerSpec => HandoverExclusive
<1>1. LinkInv /\ ReadsInv /\ LinkInv' /\ ReadsInv' /\ [Next]_vars
        => [w.confirmed => /\ w'.reads = <<>>
                           /\ w'.pc.R \in {w.pc.R, "done"}
                           /\ w'.pc.S \in {w.pc.S, "getting", "done"}]_vars
  BY HandoverStep
<1> QED BY <1>1, ReadsInvariant, PTL DEF ServerSpec, HandoverExclusive

(* A visit on a sound connection of two live workers fails only when       *)
(* recv_msgs and visit() have each got bytes of one length or body, or     *)
(* recv_msgs has a length whose body it did not get: no other order of     *)
(* pings, whole or partial reads, sends and posted handlers makes visit()  *)
(* throw (visit() in server.hpp, the composed reads of msg.hpp).           *)
THEOREM VisitFailsOnlyThen == ServerSpec => []VisitFailsOnlyByRace
<1>1. ReadsInv => VisitFailsOnlyByRace
  BY DEF ReadsInv, ServerReading, Phases, Failed, Holds, Scattered, HalfRead, VisitFailsOnlyByRace
<1> QED BY <1>1, ReadsInvariant, PTL DEF ServerSpec
=============================================================================
