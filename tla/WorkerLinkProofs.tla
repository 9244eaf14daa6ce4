--------------------------- MODULE WorkerLinkProofs ---------------------------
(* Proofs that a worker connection is handed over clean, for any number of *)
(* pings, errors and stops at any moment, and a network that may be lost.  *)
EXTENDS WorkerLink, SequenceTheorems, TLAPS

Names == {"ping", "pong", "visit", "confirmed", "data"}
Reply == Chunk \cup ({"ok", "error", "part", "torn"} \X {"none"})

(* The message m is among the first n chunks of a stream; a handler brings *)
(* it to a coroutine of the worker x.                                      *)
SentBy(m, stream, n) == \E k \in 1..n : stream[k] = <<m, "body">>
Brings(x, m) == \E i \in 1..Len(x.ready) : x.ready[i].got = <<m, "body">>

StreamsOK ==
  /\ up \in Seq(Chunk) /\ upRead \in 0..Len(up)
  /\ down \in Seq(Chunk) /\ downRead \in 0..Len(down)
  /\ lost \in BOOLEAN

-----------------------------------------------------------------------------
(* The client's end: once the confirmation is sent, no ping follows it.    *)

ClientPcs == {"start", "greeting", "length", "body", "sending", "giving", "given",
              "waiting", "woken", "done"}
ClientWorkers ==
  [ready : Seq([to : {"C", "P"}, got : Reply]), pc : [{"C", "P"} -> ClientPcs],
   greeted : BOOLEAN, length : Names \cup {"none"}, reading : BOOLEAN, timer : {"max", "armed", "expired"},
   pings : 0..MaxPings, visited : BOOLEAN, stopping : BOOLEAN,
   sock : {"open", "closed", "moved"}]

ClientKnows ==
  /\ SentBy("confirmed", up, Len(up)) =>
       c.visited /\ c.pc["C"] \in {"sending", "giving", "given", "done"}
  /\ c.pc["C"] \in {"sending", "giving", "given"} \/ c.sock = "moved" => c.visited
  /\ c.visited \/ Brings(c, "visit") => SentBy("visit", down, downRead)
ClientInv == c \in ClientWorkers /\ ClientKnows

(* What a piece of a handler leaves alone.                                 *)
ClientGoesOn(x, y) ==
  /\ y \in ClientWorkers
  /\ y.visited = x.visited /\ y.sock \in {x.sock, "closed"}
  /\ Brings(y, "visit") => Brings(x, "visit")

LEMMA PopSeq ==
  ASSUME NEW T, NEW s \in Seq(T), s # <<>>
  PROVE  /\ Head(s) \in T /\ Head(s) = s[1] /\ 1 \in 1..Len(s)
         /\ Tail(s) \in Seq(T) /\ Len(Tail(s)) = Len(s) - 1 /\ Len(s) \in Nat
         /\ \A i \in 1..Len(Tail(s)) : i + 1 \in 1..Len(s) /\ Tail(s)[i] = s[i + 1]
<1>1. Head(s) = s[1] /\ Tail(s) \in Seq(T) /\ Len(Tail(s)) = Len(s) - 1 /\ Len(s) \in Nat
  BY HeadTailProperties
<1>2. Len(s) # 0
  BY EmptySeq
<1>3. \A i \in 1..Len(Tail(s)) : Tail(s)[i] = s[i + 1]
  BY HeadTailProperties
<1> QED BY <1>1, <1>2, <1>3

LEMMA ClientPosts ==
  ASSUME NEW x \in ClientWorkers, NEW a \in {"C", "P"}, NEW got \in Reply
  PROVE  /\ C!Post(x, a, got) \in ClientWorkers
         /\ C!Post(x, a, got).pc = x.pc /\ C!Post(x, a, got).sock = x.sock
         /\ C!Post(x, a, got).visited = x.visited
         /\ got # <<"visit", "body">> => ClientGoesOn(x, C!Post(x, a, got))
<1> DEFINE h == C!Handler(a, got)
           y == C!Post(x, a, got)
<1>1. h \in [to : {"C", "P"}, got : Reply] /\ h.got = got
  BY DEF C!Handler
<1>2. y = [x EXCEPT !.ready = Append(x.ready, h)]
  BY DEF C!Post
<1> HIDE DEF h, y
<1>3. x.ready \in Seq([to : {"C", "P"}, got : Reply])
  BY DEF ClientWorkers
<1>4. /\ Append(x.ready, h) \in Seq([to : {"C", "P"}, got : Reply])
      /\ \A i \in 1..Len(Append(x.ready, h)) :
           (i \in 1..Len(x.ready) /\ Append(x.ready, h)[i] = x.ready[i])
           \/ Append(x.ready, h)[i] = h
  BY <1>1, <1>3
<1>5. y \in ClientWorkers /\ y.ready = Append(x.ready, h)
  BY <1>2, <1>4 DEF ClientWorkers
<1>6. y.visited = x.visited /\ y.sock = x.sock /\ y.pc = x.pc
  BY <1>2 DEF ClientWorkers
<1>7. got # <<"visit", "body">> /\ Brings(y, "visit") => Brings(x, "visit")
  BY <1>1, <1>4, <1>5 DEF Brings
<1> QED BY <1>5, <1>6, <1>7 DEF ClientGoesOn, y

(* The pieces of the client's handlers, in the order in which they call    *)
(* each other.  l is where C is after the piece.                           *)
ClientStays(x, y) == ClientGoesOn(x, y) /\ y.pc["C"] = x.pc["C"]

LEMMA ClientChain ==
  ASSUME NEW x, NEW y, NEW z, ClientGoesOn(x, y), ClientGoesOn(y, z)
  PROVE  ClientGoesOn(x, z)
BY DEF ClientGoesOn

LEMMA ClientMoves ==
  ASSUME NEW x \in ClientWorkers, NEW a \in {"C", "P"}, NEW l \in ClientPcs
  PROVE  /\ ClientGoesOn(x, C!GoTo(x, a, l))
         /\ C!GoTo(x, a, l).pc["C"] = IF a = "C" THEN l ELSE x.pc["C"]
         /\ C!GoTo(x, a, l).ready = x.ready
<1> DEFINE y == C!GoTo(x, a, l)
<1>1. y = [x EXCEPT !.pc = [x.pc EXCEPT ![a] = l]]
  BY DEF C!GoTo
<1> HIDE DEF y
<1>2. y \in ClientWorkers /\ y.ready = x.ready
  BY <1>1 DEF ClientWorkers
<1>3. y.pc["C"] = IF a = "C" THEN l ELSE x.pc["C"]
  BY <1>1 DEF ClientWorkers
<1>4. y.visited = x.visited /\ y.sock = x.sock
  BY <1>1 DEF ClientWorkers
<1> QED BY <1>2, <1>3, <1>4 DEF ClientGoesOn, Brings, y

LEMMA ClientPostsPlain ==
  ASSUME NEW x \in ClientWorkers, NEW a \in {"C", "P"}, NEW got \in {C!Ok, C!Error}
  PROVE  ClientStays(x, C!Post(x, a, got))
<1>1. got \in Reply /\ got # <<"visit", "body">>
  BY DEF C!Ok, C!Error, Reply
<1> QED BY <1>1, ClientPosts DEF ClientStays

LEMMA ClientWakes ==
  ASSUME NEW x \in ClientWorkers
  PROVE  ClientStays(x, C!WakePing(x))
<1>1. ClientStays(x, C!GoTo(x, "P", "woken"))
  BY ClientMoves DEF ClientPcs, ClientStays
<1>2. ClientStays(x, C!Post(C!GoTo(x, "P", "woken"), "P", C!Ok))
  BY <1>1, ClientPostsPlain, ClientChain DEF ClientStays, ClientGoesOn
<1>3. ClientStays(x, x)
  BY DEF ClientStays, ClientGoesOn
<1> QED BY <1>2, <1>3 DEF C!WakePing

LEMMA ClientSets ==
  ASSUME NEW x \in ClientWorkers, NEW t \in {"max", "armed", "expired"}
  PROVE  ClientStays(x, [x EXCEPT !.timer = t])
BY DEF ClientWorkers, ClientStays, ClientGoesOn, Brings

LEMMA ClientSetsTimer ==
  ASSUME NEW x \in ClientWorkers
  PROVE  ClientStays(x, C!SetPingTimer(x))
<1> DEFINE y == [x EXCEPT !.timer = "armed"]
<1>1. ClientStays(x, y)
  BY ClientSets
<1> HIDE DEF y
<1>2. ClientStays(y, C!WakePing(y))
  BY <1>1, ClientWakes DEF ClientStays, ClientGoesOn
<1> QED BY <1>1, <1>2, ClientChain DEF ClientStays, y, C!SetPingTimer

LEMMA ClientAwaits ==
  ASSUME NEW x \in ClientWorkers
  PROVE  ClientStays(x, C!AwaitTimer(x))
<1>1. ASSUME NEW l \in {"woken", "waiting"} PROVE ClientStays(x, C!GoTo(x, "P", l))
  BY <1>1, ClientMoves DEF ClientPcs, ClientStays
<1>2. ClientStays(x, C!Post(C!GoTo(x, "P", "woken"), "P", C!Ok))
  BY <1>1, ClientPostsPlain, ClientChain DEF ClientStays, ClientGoesOn
<1> QED BY <1>1, <1>2 DEF C!AwaitTimer

LEMMA ClientStartsRead ==
  ASSUME NEW x \in ClientWorkers, NEW l \in {"length", "body"}
  PROVE  ClientGoesOn(x, C!StartRead(x, l)) /\ C!StartRead(x, l).pc["C"] = l
<1> DEFINE y == C!GoTo(x, "C", l)
<1>1. ClientGoesOn(x, y) /\ y.pc["C"] = l
  BY ClientMoves DEF ClientPcs
<1> HIDE DEF y
<1>2. y \in ClientWorkers
  BY <1>1 DEF ClientGoesOn
<1>3. ClientStays(y, [y EXCEPT !.reading = TRUE])
  BY <1>2 DEF ClientWorkers, ClientStays, ClientGoesOn, Brings
<1>4. ClientStays(y, C!Post(y, "C", C!Error))
  BY <1>2, ClientPostsPlain
<1> QED BY <1>1, <1>3, <1>4, ClientChain DEF ClientStays, y, C!StartRead

LEMMA ClientCloses ==
  ASSUME NEW x \in ClientWorkers
  PROVE  ClientStays(x, C!CloseSocket(x))
<1> DEFINE y == IF x.sock = "open" THEN [x EXCEPT !.sock = "closed"] ELSE x
           z == [y EXCEPT !.reading = FALSE]
<1>1. ClientStays(x, y)
  BY DEF ClientWorkers, ClientStays, ClientGoesOn, Brings
<1>2. C!CloseSocket(x) = IF x.reading THEN C!Post(z, "C", C!Error) ELSE y
  BY DEF C!CloseSocket
<1> HIDE DEF y
<1>3. y \in ClientWorkers
  BY <1>1 DEF ClientStays, ClientGoesOn
<1>4. ClientStays(y, z)
  BY <1>3 DEF ClientWorkers, ClientStays, ClientGoesOn, Brings
<1> HIDE DEF z
<1>5. ClientStays(z, C!Post(z, "C", C!Error))
  BY <1>4, ClientPostsPlain DEF ClientStays, ClientGoesOn
<1> QED BY <1>1, <1>2, <1>4, <1>5, ClientChain DEF ClientStays

LEMMA ClientStops ==
  ASSUME NEW x \in ClientWorkers
  PROVE  ClientStays(x, C!TryStop(x))
<1> DEFINE y == [x EXCEPT !.stopping = TRUE]
           z == C!CloseSocket(y)
<1>1. ClientStays(x, y)
  BY DEF ClientWorkers, ClientStays, ClientGoesOn, Brings
<1>2. C!TryStop(x) = C!WakePing(z)
  BY DEF C!TryStop
<1> HIDE DEF y
<1>3. ClientStays(y, z)
  BY <1>1, ClientCloses DEF ClientStays, ClientGoesOn
<1> HIDE DEF z
<1>4. ClientStays(z, C!WakePing(z))
  BY <1>3, ClientWakes DEF ClientStays, ClientGoesOn
<1> QED BY <1>1, <1>2, <1>3, <1>4, ClientChain DEF ClientStays

LEMMA ClientThrows ==
  ASSUME NEW x \in ClientWorkers, NEW a \in {"C", "P"}
  PROVE  /\ ClientGoesOn(x, C!Throw(x, a))
         /\ C!Throw(x, a).pc["C"] = IF a = "C" THEN "done" ELSE x.pc["C"]
<1> DEFINE y == C!GoTo(x, a, "done")
<1>1. ClientGoesOn(x, y) /\ y.pc["C"] = IF a = "C" THEN "done" ELSE x.pc["C"]
  BY ClientMoves DEF ClientPcs
<1>2. C!Throw(x, a) = IF x.stopping THEN y ELSE C!TryStop(y)
  BY DEF C!Throw
<1> HIDE DEF y
<1>3. ClientStays(y, C!TryStop(y))
  BY <1>1, ClientStops DEF ClientGoesOn
<1> QED BY <1>1, <1>2, <1>3, ClientChain DEF ClientStays

LEMMA ClientReceives ==
  ASSUME NEW x \in ClientWorkers
  PROVE  ClientGoesOn(x, C!Receive(x)) /\ C!Receive(x).pc["C"] = "length"
<1> DEFINE y == C!SetPingTimer(x)
<1>1. ClientGoesOn(x, y)
  BY ClientSetsTimer DEF ClientStays
<1> HIDE DEF y
<1>2. ClientGoesOn(y, C!StartRead(y, "length")) /\ C!StartRead(y, "length").pc["C"] = "length"
  BY <1>1, ClientStartsRead DEF ClientGoesOn
<1> QED BY <1>1, <1>2, ClientChain DEF y, C!Receive

(* The handler that runs leaves the queue.                                 *)
LEMMA ClientPops ==
  ASSUME ClientInv, c.ready # <<>>
  PROVE  /\ ClientStays(c, C!Rest) /\ C!Got \in Reply
         /\ C!Got = <<"visit", "body">> => SentBy("visit", down, downRead)
<1>1. c \in ClientWorkers /\ c.ready \in Seq([to : {"C", "P"}, got : Reply])
  BY DEF ClientInv, ClientWorkers
<1>2. /\ Head(c.ready) \in [to : {"C", "P"}, got : Reply]
      /\ Head(c.ready) = c.ready[1] /\ 1 \in 1..Len(c.ready)
      /\ Tail(c.ready) \in Seq([to : {"C", "P"}, got : Reply])
      /\ \A i \in 1..Len(Tail(c.ready)) :
           i + 1 \in 1..Len(c.ready) /\ Tail(c.ready)[i] = c.ready[i + 1]
  BY <1>1, PopSeq
<1>3. C!Rest = [c EXCEPT !.ready = Tail(c.ready)]
  BY DEF C!Rest
<1>4. C!Rest \in ClientWorkers /\ C!Rest.ready = Tail(c.ready) /\ C!Rest.pc = c.pc
  BY <1>1, <1>2, <1>3 DEF ClientWorkers
<1>5. C!Rest.visited = c.visited /\ C!Rest.sock = c.sock
  BY <1>1, <1>3 DEF ClientWorkers
<1>6. Brings(C!Rest, "visit") => Brings(c, "visit")
  BY <1>2, <1>4 DEF Brings
<1>7. C!Got \in Reply
  BY <1>2 DEF C!Got
<1>8. C!Got = <<"visit", "body">> => Brings(c, "visit")
  BY <1>2 DEF C!Got, Brings
<1> QED BY <1>4, <1>5, <1>6, <1>7, <1>8 DEF ClientStays, ClientGoesOn, ClientInv, ClientKnows

-----------------------------------------------------------------------------
(* The streams: a control message is two chunks, user data one.            *)

ChunksOf(m) == <<<<m, "length">>, <<m, "body">>>>
Goes(s, t) == Len(s) <= Len(t) /\ \A i \in 1..Len(s) : t[i] = s[i]

LEMMA SendChunks ==
  ASSUME NEW s \in Seq(Chunk), NEW m \in Names
  PROVE  /\ s \o ChunksOf(m) \in Seq(Chunk) /\ Goes(s, s \o ChunksOf(m))
         /\ \A n : SentBy(n, s \o ChunksOf(m), Len(s \o ChunksOf(m)))
                     <=> SentBy(n, s, Len(s)) \/ n = m
         /\ \A n : LastBefore(n, s) /\ ~SentBy(n, s, Len(s)) => LastBefore(n, s \o ChunksOf(m))
<1> DEFINE t == s \o ChunksOf(m)
<1>1. <<m, "length">> \in Chunk /\ <<m, "body">> \in Chunk
  BY DEF Chunk, Names
<1>2. /\ ChunksOf(m) \in Seq(Chunk) /\ Len(ChunksOf(m)) = 2
      /\ ChunksOf(m)[1] = <<m, "length">> /\ ChunksOf(m)[2] = <<m, "body">>
  BY <1>1 DEF ChunksOf
<1>3. /\ t \in Seq(Chunk) /\ Len(t) = Len(s) + 2 /\ Len(s) \in Nat
      /\ \A i \in 1..Len(s) : t[i] = s[i]
  BY <1>2, ConcatProperties
<1>4. t[Len(s) + 1] = <<m, "length">> /\ t[Len(s) + 2] = <<m, "body">>
  BY <1>2, ConcatProperties
<1> HIDE DEF t
<1>5. \A i \in 1..Len(t) : i \in 1..Len(s) \/ i = Len(s) + 1 \/ i = Len(s) + 2
  BY <1>3
<1>6. Goes(s, t)
  BY <1>3 DEF Goes
<1>7. ASSUME NEW n PROVE SentBy(n, t, Len(t)) <=> SentBy(n, s, Len(s)) \/ n = m
  BY <1>3, <1>4, <1>5 DEF SentBy
<1>8. ASSUME NEW n, ~SentBy(n, s, Len(s)) PROVE LastBefore(n, t)
  <2>1. \A i \in 1..Len(t) : t[i] = <<n, "body">> => i = Len(t)
    BY <1>3, <1>4, <1>5, <1>8 DEF SentBy
  <2>2. DOMAIN t = 1..Len(t) /\ (Len(t) + 1)..Len(t) = {}
    BY <1>3
  <2> QED BY <2>1, <2>2 DEF LastBefore
<1> QED BY <1>3, <1>6, <1>7, <1>8 DEF t

LEMMA SendData ==
  ASSUME NEW s \in Seq(Chunk)
  PROVE  /\ Append(s, Data) \in Seq(Chunk) /\ Goes(s, Append(s, Data))
         /\ \A n : SentBy(n, Append(s, Data), Len(Append(s, Data))) => SentBy(n, s, Len(s))
         /\ \A n : LastBefore(n, s) => LastBefore(n, Append(s, Data))
<1> DEFINE t == Append(s, Data)
<1>1. Data \in Chunk /\ \A n : Data # <<n, "body">>
  BY DEF Data, Chunk
<1>2. /\ t \in Seq(Chunk) /\ Len(t) = Len(s) + 1 /\ Len(s) \in Nat /\ t[Len(s) + 1] = Data
      /\ \A i \in 1..Len(s) : t[i] = s[i]
  BY <1>1, AppendProperties
<1> HIDE DEF t
<1>3. \A i \in 1..Len(t) : i \in 1..Len(s) \/ i = Len(s) + 1
  BY <1>2
<1>4. Goes(s, t)
  BY <1>2 DEF Goes
<1>5. \A n : SentBy(n, t, Len(t)) => SentBy(n, s, Len(s))
  BY <1>1, <1>2, <1>3 DEF SentBy
<1>6. ASSUME NEW n, LastBefore(n, s) PROVE LastBefore(n, t)
  <2>1. DOMAIN t = 1..Len(t) /\ DOMAIN s = 1..Len(s)
    BY <1>2
  <2>2. ASSUME NEW i \in 1..Len(t), t[i] = <<n, "body">>, NEW j \in (i + 1)..Len(t)
        PROVE  t[j] = Data
    <3>1. i \in 1..Len(s) /\ s[i] = <<n, "body">>
      BY <1>1, <1>2, <1>3, <2>2
    <3>2. j \in (i + 1)..Len(s) \/ j = Len(s) + 1
      BY <1>2, <2>2
    <3>3. j \in (i + 1)..Len(s) => j \in 1..Len(s) /\ s[j] = Data
      BY <1>2, <1>6, <2>1, <3>1 DEF LastBefore
    <3> QED BY <1>2, <3>2, <3>3
  <2> QED BY <2>1, <2>2 DEF LastBefore
<1> QED BY <1>2, <1>4, <1>5, <1>6 DEF t

(* What has been read stays read.                                          *)
LEMMA ReadStays ==
  ASSUME NEW s \in Seq(Chunk), NEW t \in Seq(Chunk), Goes(s, t), NEW n \in 0..Len(s),
         NEW m, SentBy(m, s, n)
  PROVE  SentBy(m, t, n)
BY DEF Goes, SentBy

LEMMA ReadMore ==
  ASSUME NEW s \in Seq(Chunk), NEW n \in Nat, NEW m, SentBy(m, s, n)
  PROVE  SentBy(m, s, n + 1)
BY DEF SentBy

-----------------------------------------------------------------------------
(* Each step of the client keeps what it knows.                            *)

ClientSteps(x, y) ==
  \/ y.pc["C"] \in {x.pc["C"], "done"}
  \/ /\ x.pc["C"] \in {"start", "greeting", "length", "body"}
     /\ y.pc["C"] \in {"greeting", "length", "body"}
  \/ x.pc["C"] \in {"sending", "giving"} /\ y.pc["C"] \in {"giving", "given"}

LEMMA ClientQuiet ==
  ASSUME ClientInv, ClientGoesOn(c, c'), ClientSteps(c, c'), UNCHANGED <<up, down, downRead>>
  PROVE  ClientInv'
<1>1. c' \in ClientWorkers /\ c'.visited = c.visited /\ c'.sock \in {c.sock, "closed"}
  BY DEF ClientGoesOn
<1>2. Brings(c', "visit") => Brings(c, "visit")
  BY DEF ClientGoesOn
<1> QED BY <1>1, <1>2 DEF ClientInv, ClientKnows, ClientSteps

LEMMA ClientSends ==
  ASSUME NEW x \in ClientWorkers, NEW a \in {"C", "P"}, NEW m, C!SendMsg(x, a, m)
  PROVE  /\ ClientGoesOn(x, c') /\ c'.pc["C"] = IF a = "C" THEN "sending" ELSE x.pc["C"]
         /\ up' = up \/ up' = up \o ChunksOf(m)
<1> DEFINE y == C!GoTo(x, a, "sending")
<1>1. ClientGoesOn(x, y) /\ y.pc["C"] = IF a = "C" THEN "sending" ELSE x.pc["C"]
  BY ClientMoves DEF ClientPcs
<1>2. c' = C!Post(y, a, C!Ok) \/ c' = C!Post(y, a, C!Error)
  BY DEF C!SendMsg
<1>3. up' = up \/ up' = up \o ChunksOf(m)
  BY DEF C!SendMsg, C!Chunks, ChunksOf
<1> HIDE DEF y
<1>4. ClientStays(y, c')
  BY <1>1, <1>2, ClientPostsPlain DEF ClientGoesOn
<1> QED BY <1>1, <1>3, <1>4, ClientChain DEF ClientStays

UpKept ==
  up' \in Seq(Chunk) /\ Goes(up, up') /\ LastBefore("confirmed", up')
DownReadKept ==
  down' = down /\ downRead' \in 0..Len(down)

LEMMA UpStays ==
  ASSUME StreamsOK, LastBefore("confirmed", up), up' = up
  PROVE  UpKept
<1>1. Goes(up, up)
  BY DEF StreamsOK, Goes
<1> QED BY <1>1 DEF UpKept, StreamsOK

LEMMA UpGrows ==
  ASSUME StreamsOK, LastBefore("confirmed", up), ~SentBy("confirmed", up, Len(up)),
         NEW m \in Names, up' = up \o ChunksOf(m)
  PROVE  UpKept /\ (m # "confirmed" => ~SentBy("confirmed", up', Len(up')))
<1>1. up \in Seq(Chunk)
  BY DEF StreamsOK
<1>2. UpKept
  BY <1>1, SendChunks DEF UpKept
<1>3. SentBy("confirmed", up', Len(up')) => m = "confirmed"
  BY <1>1, SendChunks
<1> QED BY <1>2, <1>3

(* Coroutine C.                                                            *)
LEMMA ClientGreets ==
  ASSUME ClientInv, C!SendHello, UNCHANGED <<down, downRead>>
  PROVE  ClientInv' /\ up' = up
<1> DEFINE x == C!Rest
           y == [x EXCEPT !.greeted = TRUE]
<1>1. c.ready # <<>> /\ c.pc["C"] = "start" /\ up' = up
  BY DEF C!SendHello, C!Resumes
<1>2. ClientStays(c, x)
  BY <1>1, ClientPops
<1>3. \E z \in {x, y}, got \in {C!Ok, C!Error} :
        c' = C!Post(C!GoTo(z, "C", "greeting"), "C", got)
  BY DEF C!SendHello
<1> HIDE DEF x
<1>4. ClientStays(x, y)
  BY <1>2 DEF ClientWorkers, ClientStays, ClientGoesOn, Brings
<1> HIDE DEF y
<1>5. ASSUME NEW z \in {x, y}, NEW got \in {C!Ok, C!Error},
             c' = C!Post(C!GoTo(z, "C", "greeting"), "C", got)
      PROVE  ClientGoesOn(c, c') /\ c'.pc["C"] = "greeting"
  <2> DEFINE u == C!GoTo(z, "C", "greeting")
  <2>1. z \in ClientWorkers /\ ClientGoesOn(c, z)
    BY <1>2, <1>4, ClientChain DEF ClientStays, ClientGoesOn
  <2>2. ClientGoesOn(z, u) /\ u.pc["C"] = "greeting"
    BY <2>1, ClientMoves DEF ClientPcs
  <2> HIDE DEF u
  <2>3. ClientStays(u, c')
    BY <1>5, <2>2, ClientPostsPlain DEF ClientGoesOn, u
  <2> QED BY <2>1, <2>2, <2>3, ClientChain DEF ClientStays
<1> QED BY <1>1, <1>3, <1>5, ClientQuiet DEF ClientSteps

LEMMA ClientReceiving ==
  ASSUME ClientInv, C!HelloSent \/ C!RecvLength \/ C!HandlePong \/ C!RecvUnexpected,
         UNCHANGED <<down, downRead>>
  PROVE  ClientInv' /\ up' = up
<1>1. c.ready # <<>> /\ c.pc["C"] \in {"greeting", "length", "body"} /\ up' = up
  BY DEF C!HelloSent, C!RecvLength, C!HandlePong, C!RecvUnexpected, C!Resumes
<1> DEFINE x == C!Rest
           y == [x EXCEPT !.length = C!Got[1]]
<1>2. ClientStays(c, x) /\ C!Got \in Reply
  BY <1>1, ClientPops
<1>3. C!Got[2] = "length" => ClientStays(x, y)
  <2>1. x \in ClientWorkers
    BY <1>2 DEF ClientStays, ClientGoesOn
  <2>2. C!Got[2] = "length" => C!Got[1] \in Names
    BY <1>2 DEF Reply, Chunk, Names
  <2> HIDE DEF x
  <2> QED BY <2>1, <2>2 DEF ClientWorkers, ClientStays, ClientGoesOn, Brings
<1>4. \/ c' = C!Receive(x)
      \/ C!Got[2] = "length" /\ c' = C!StartRead(y, "body")
      \/ c' = C!Throw(x, "C")
  BY DEF C!HelloSent, C!RecvLength, C!HandlePong, C!RecvUnexpected
<1> HIDE DEF x, y
<1>5. x \in ClientWorkers /\ (C!Got[2] = "length" => y \in ClientWorkers)
  BY <1>2, <1>3 DEF ClientStays, ClientGoesOn
<1>6. ClientGoesOn(c, c') /\ c'.pc["C"] \in {"length", "body", "done"}
  <2>1. ClientGoesOn(c, x) /\ (C!Got[2] = "length" => ClientGoesOn(c, y))
    BY <1>2, <1>3, ClientChain DEF ClientStays
  <2>2. CASE c' = C!Receive(x)
    BY <1>5, <2>1, <2>2, ClientReceives, ClientChain
  <2>3. CASE C!Got[2] = "length" /\ c' = C!StartRead(y, "body")
    BY <1>5, <2>1, <2>3, ClientStartsRead, ClientChain
  <2>4. CASE c' = C!Throw(x, "C")
    BY <1>5, <2>1, <2>4, ClientThrows, ClientChain
  <2> QED BY <1>4, <2>2, <2>3, <2>4
<1>7. ClientSteps(c, c')
  BY <1>1, <1>6 DEF ClientSteps
<1> QED BY <1>1, <1>6, <1>7, ClientQuiet

(* The visit is confirmed once, and P is told not to ping any more.        *)
LEMMA ClientConfirms ==
  ASSUME StreamsOK, ClientInv, LastBefore("confirmed", up), C!HandleVisit,
         UNCHANGED <<down, downRead>>
  PROVE  ClientInv' /\ UpKept
<1> DEFINE x == C!Rest
           y == [x EXCEPT !.visited = TRUE, !.timer = "max"]
<1>1. c.ready # <<>> /\ c.pc["C"] = "body" /\ C!Got = <<"visit", "body">>
  BY DEF C!HandleVisit, C!Resumes
<1>2. ClientStays(c, x) /\ SentBy("visit", down, downRead)
  BY <1>1, ClientPops
<1>3. C!SendMsg(C!WakePing(y), "C", "confirmed")
  BY DEF C!HandleVisit
<1> HIDE DEF x
<1>4. y \in ClientWorkers /\ y.visited
  BY <1>2 DEF ClientStays, ClientGoesOn, ClientWorkers
<1> HIDE DEF y
<1>5. ClientGoesOn(y, C!WakePing(y))
  BY <1>4, ClientWakes DEF ClientStays
<1>6. C!WakePing(y) \in ClientWorkers
  BY <1>5 DEF ClientGoesOn
<1>7. /\ ClientGoesOn(y, c') /\ c'.pc["C"] = "sending"
      /\ up' = up \/ up' = up \o ChunksOf("confirmed")
  BY <1>3, <1>5, <1>6, ClientSends, ClientChain
<1>8. c' \in ClientWorkers /\ c'.visited
  BY <1>4, <1>7 DEF ClientGoesOn
<1>9. ClientInv'
  BY <1>2, <1>7, <1>8 DEF ClientInv, ClientKnows
<1>10. ~SentBy("confirmed", up, Len(up))
  BY <1>1 DEF ClientInv, ClientKnows
<1>11. UpKept
  BY <1>7, <1>10, UpGrows, UpStays DEF Names
<1> QED BY <1>9, <1>11

LEMMA ClientGives ==
  ASSUME ClientInv, C!ConfirmSent \/ C!Given, UNCHANGED <<down, downRead>>
  PROVE  ClientInv' /\ up' = up
<1> DEFINE x == C!Rest
           y == C!GoTo(x, "C", "giving")
           z == [y EXCEPT !.sock = IF @ = "open" THEN "moved" ELSE @]
<1>1. c.ready # <<>> /\ c.pc["C"] \in {"sending", "given"} /\ c.visited /\ up' = up
  BY DEF C!ConfirmSent, C!Given, C!Resumes, ClientInv, ClientKnows
<1>2. ClientGoesOn(c, x)
  BY <1>1, ClientPops DEF ClientStays
<1>3. \/ c' = z
      \/ c' = C!GoTo(x, "C", "done")
      \/ c' = C!Throw(x, "C")
  BY DEF C!ConfirmSent, C!Given
<1> HIDE DEF x
<1>4. x \in ClientWorkers
  BY <1>2 DEF ClientGoesOn
<1>5. CASE c' = z
  <2>1. ClientGoesOn(c, y)
    BY <1>2, <1>4, ClientMoves, ClientChain DEF ClientPcs
  <2> HIDE DEF y
  <2>2. z \in ClientWorkers /\ z.visited = c.visited /\ z.ready = y.ready
    BY <2>1 DEF ClientGoesOn, ClientWorkers
  <2>3. Brings(z, "visit") => Brings(c, "visit")
    BY <2>1, <2>2 DEF ClientGoesOn, Brings
  <2>4. z.pc["C"] = y.pc["C"] /\ y.pc["C"] = "giving"
    <3>1. y.pc["C"] = "giving"
      BY <1>4, ClientMoves DEF ClientPcs, y
    <3> QED BY <2>1, <3>1 DEF ClientGoesOn, ClientWorkers
  <2> HIDE DEF z
  <2> QED BY <1>1, <1>5, <2>2, <2>3, <2>4 DEF ClientInv, ClientKnows
<1>6. CASE c' # z
  <2>1. ClientGoesOn(c, c') /\ c'.pc["C"] = "done"
    BY <1>2, <1>3, <1>4, <1>6, ClientMoves, ClientThrows, ClientChain DEF ClientPcs
  <2>2. ClientSteps(c, c')
    BY <2>1 DEF ClientSteps
  <2> QED BY <1>1, <2>1, <2>2, ClientQuiet
<1> QED BY <1>1, <1>5, <1>6

(* Coroutine P: it pings only as long as there was no visit.               *)
LEMMA ClientPings ==
  ASSUME StreamsOK, ClientInv, LastBefore("confirmed", up),
         C!PingStart \/ C!PingEnds \/ C!SendPing \/ C!TimerWasReset \/ C!PingSent,
         UNCHANGED <<down, downRead>>
  PROVE  ClientInv' /\ UpKept
<1> DEFINE x == C!Rest
           y == [x EXCEPT !.timer = "max"]
<1>1. c.ready # <<>>
  BY DEF C!PingStart, C!PingEnds, C!SendPing, C!TimerWasReset, C!PingSent, C!Resumes
<1>2. ClientStays(c, x)
  BY <1>1, ClientPops
<1>3. x \in ClientWorkers
  BY <1>2 DEF ClientStays, ClientGoesOn
<1>4. CASE C!SendPing
  <2>1. C!SendMsg(y, "P", "ping") /\ ~c.visited
    BY <1>4 DEF C!SendPing
  <2> HIDE DEF x
  <2>2. ClientStays(x, y)
    BY <1>3, ClientSets
  <2> HIDE DEF y
  <2>3. y \in ClientWorkers
    BY <2>2 DEF ClientStays, ClientGoesOn
  <2>4. /\ ClientGoesOn(y, c') /\ c'.pc["C"] = y.pc["C"]
        /\ up' = up \/ up' = up \o ChunksOf("ping")
    BY <2>1, <2>3, ClientSends
  <2>5. ClientGoesOn(c, c') /\ c'.pc["C"] = c.pc["C"]
    BY <1>2, <2>2, <2>4, ClientChain DEF ClientStays
  <2>6. ~SentBy("confirmed", up, Len(up))
    BY <2>1 DEF ClientInv, ClientKnows
  <2>7. UpKept /\ ~SentBy("confirmed", up', Len(up'))
    BY <2>4, <2>6, UpGrows, UpStays DEF Names
  <2>8. c' \in ClientWorkers /\ c'.visited = c.visited /\ c'.sock \in {c.sock, "closed"}
        /\ (Brings(c', "visit") => Brings(c, "visit"))
    BY <2>5 DEF ClientGoesOn
  <2>9. ClientInv'
    BY <2>5, <2>7, <2>8 DEF ClientInv, ClientKnows
  <2> QED BY <2>7, <2>9
<1>5. CASE ~C!SendPing
  <2>1. /\ c' \in {C!AwaitTimer(x), C!GoTo(x, "P", "done"), C!Throw(x, "P")}
        /\ up' = up
    BY <1>5 DEF C!PingStart, C!PingEnds, C!TimerWasReset, C!PingSent
  <2> HIDE DEF x
  <2>2. ClientStays(x, c')
    BY <1>3, <2>1, ClientAwaits, ClientMoves, ClientThrows DEF ClientStays, ClientPcs
  <2>3. ClientGoesOn(c, c') /\ ClientSteps(c, c')
    BY <1>2, <2>2, ClientChain DEF ClientStays, ClientSteps
  <2> QED BY <2>1, <2>3, ClientQuiet, UpStays
<1> QED BY <1>4, <1>5

(* What happens to the client from outside.                                *)
LEMMA ClientHears ==
  ASSUME StreamsOK, ClientInv, C!ReadCompletes
  PROVE  ClientInv' /\ up' = up /\ DownReadKept
<1> DEFINE x == [c EXCEPT !.reading = FALSE]
           got == down[downRead + 1]
<1>1. /\ downRead < Len(down) /\ downRead' = downRead + 1 /\ UNCHANGED <<up, down>>
      /\ c' = C!Post(x, "C", got)
  BY DEF C!ReadCompletes
<1>2. downRead + 1 \in 1..Len(down) /\ got \in Chunk /\ downRead \in Nat
  BY <1>1 DEF StreamsOK
<1>3. ClientStays(c, x)
  BY DEF ClientInv, ClientWorkers, ClientStays, ClientGoesOn, Brings
<1> HIDE DEF x
<1>4. x \in ClientWorkers
  BY <1>3 DEF ClientStays, ClientGoesOn
<1>5. /\ c' \in ClientWorkers /\ c'.pc = x.pc
      /\ got # <<"visit", "body">> => ClientGoesOn(x, c')
      /\ c'.visited = x.visited /\ c'.sock = x.sock
  BY <1>1, <1>2, <1>4, ClientPosts DEF Reply
<1>6. SentBy("visit", down, downRead) => SentBy("visit", down, downRead')
  BY <1>1, <1>2, ReadMore DEF StreamsOK
<1>7. got = <<"visit", "body">> => SentBy("visit", down, downRead')
  BY <1>1, <1>2 DEF SentBy
<1>8. Brings(c', "visit") => Brings(c, "visit") \/ got = <<"visit", "body">>
  BY <1>3, <1>5 DEF ClientStays, ClientGoesOn
<1>9. /\ c'.pc["C"] = c.pc["C"] /\ c'.visited = c.visited
      /\ c'.sock \in {c.sock, "closed"}
  BY <1>3, <1>5 DEF ClientStays, ClientGoesOn
<1>10. ClientInv'
  BY <1>1, <1>5, <1>6, <1>7, <1>8, <1>9 DEF ClientInv, ClientKnows
<1>11. DownReadKept
  BY <1>1, <1>2 DEF DownReadKept, StreamsOK
<1> QED BY <1>1, <1>10, <1>11

LEMMA ClientOutside ==
  ASSUME ClientInv, C!ReadFails \/ C!TimerExpires \/ C!ForwarderTakes \/ C!QueueAborts
                    \/ C!StopWorker
  PROVE  ClientInv' /\ UNCHANGED <<up, down, downRead>>
<1>1. UNCHANGED <<up, down, downRead>>
  BY DEF C!ReadFails, C!TimerExpires, C!ForwarderTakes, C!QueueAborts, C!StopWorker
<1>2. c \in ClientWorkers
  BY DEF ClientInv
<1>3. CASE C!ReadFails
  <2> DEFINE x == [c EXCEPT !.reading = FALSE]
  <2>1. ClientStays(c, x) /\ c' = C!Post(x, "C", C!Error)
    BY <1>2, <1>3 DEF C!ReadFails, ClientWorkers, ClientStays, ClientGoesOn, Brings
  <2> HIDE DEF x
  <2>2. ClientStays(x, c')
    BY <2>1, ClientPostsPlain DEF ClientStays, ClientGoesOn
  <2> QED BY <1>1, <2>1, <2>2, ClientChain, ClientQuiet DEF ClientStays, ClientSteps
<1>4. CASE C!TimerExpires
  <2> DEFINE x == [c EXCEPT !.timer = "expired", !.pings = @ + 1]
  <2>1. ClientStays(c, x) /\ c' = C!WakePing(x)
    <3>1. c.pings + 1 \in 0..MaxPings
      BY <1>2, <1>4, MaxPingsAssumption DEF C!TimerExpires, ClientWorkers, MaxPingsAssumption
    <3> QED BY <1>2, <1>4, <3>1 DEF C!TimerExpires, ClientWorkers, ClientStays, ClientGoesOn,
                                    Brings
  <2> HIDE DEF x
  <2>2. ClientStays(x, c')
    BY <2>1, ClientWakes DEF ClientStays, ClientGoesOn
  <2> QED BY <1>1, <2>1, <2>2, ClientChain, ClientQuiet DEF ClientStays, ClientSteps
<1>5. CASE C!ForwarderTakes \/ C!QueueAborts
  <2> DEFINE y == C!GoTo(c, "C", "given")
             z == [y EXCEPT !.sock = "closed"]
  <2>1. ClientGoesOn(c, y) /\ y.pc["C"] = "given"
    BY <1>2, ClientMoves DEF ClientPcs
  <2>2. c.pc["C"] = "giving" /\ (c' = C!Post(y, "C", C!Ok) \/ c' = C!Post(z, "C", C!Error))
    BY <1>5 DEF C!ForwarderTakes, C!QueueAborts
  <2> HIDE DEF y
  <2>3. ClientStays(y, z)
    BY <2>1 DEF ClientWorkers, ClientStays, ClientGoesOn, Brings
  <2> HIDE DEF z
  <2>4. ClientStays(y, c')
    BY <2>1, <2>2, <2>3, ClientPostsPlain, ClientChain DEF ClientStays, ClientGoesOn
  <2>5. ClientGoesOn(c, c') /\ c'.pc["C"] = "given"
    BY <2>1, <2>4, ClientChain DEF ClientStays
  <2> QED BY <1>1, <2>2, <2>5, ClientQuiet DEF ClientSteps
<1>6. CASE C!StopWorker
  BY <1>1, <1>2, <1>6, ClientStops, ClientQuiet DEF C!StopWorker, ClientStays, ClientSteps
<1> QED BY <1>1, <1>3, <1>4, <1>5, <1>6

LEMMA ClientKeeps ==
  ASSUME StreamsOK, ClientInv, LastBefore("confirmed", up), C!Next
  PROVE  ClientInv' /\ UpKept /\ DownReadKept
<1>1. UNCHANGED downRead /\ StreamsOK => downRead \in 0..Len(down)
  BY DEF StreamsOK
<1>2. CASE C!RunHandler
  <2>1. UNCHANGED <<down, downRead>>
    BY <1>2 DEF C!RunHandler
  <2>2. DownReadKept
    BY <1>1, <2>1 DEF DownReadKept
  <2>7. CASE C!SendHello
    BY <2>1, <2>2, <2>7, ClientGreets, UpStays
  <2>3. CASE C!HelloSent \/ C!RecvLength \/ C!HandlePong \/ C!RecvUnexpected
    BY <2>1, <2>2, <2>3, ClientReceiving, UpStays
  <2>4. CASE C!HandleVisit
    BY <2>1, <2>2, <2>4, ClientConfirms
  <2>5. CASE C!ConfirmSent \/ C!Given
    BY <2>1, <2>2, <2>5, ClientGives, UpStays
  <2>6. CASE C!PingStart \/ C!PingEnds \/ C!SendPing \/ C!TimerWasReset \/ C!PingSent
    BY <2>1, <2>2, <2>6, ClientPings
  <2> QED BY <1>2, <2>7, <2>3, <2>4, <2>5, <2>6 DEF C!RunHandler
<1>3. CASE C!ReadCompletes
  BY <1>3, ClientHears, UpStays
<1>4. CASE C!ReadFails \/ C!TimerExpires \/ C!ForwarderTakes \/ C!QueueAborts \/ C!StopWorker
  BY <1>1, <1>4, ClientOutside, UpStays DEF DownReadKept
<1> QED BY <1>2, <1>3, <1>4 DEF C!Next

-----------------------------------------------------------------------------
(* The server's end: visit() closes to_send_ before send_msgs can send     *)
(* once more.                                                              *)

Message == {<<"pong", "message">>, <<"visit", "message">>}
Provided == {<<"R", "pong">>, <<"V", "visit">>}
ServerHandlers ==
  [to : {"R", "V"}, got : Reply]
  \cup [to : {"S"}, got : {S!Ok, S!Error} \cup Message]
  \cup [to : {"D", "wait", "drain"}, got : {S!Ok}]
  \cup [to : {"provide"}, got : Provided]
ServerPcs == {"none", "start", "length", "body", "providing", "getting", "sending",
              "waiting", "woken", "failed", "confirmed", "handed", "done"}
ServerWorkers ==
  [ready : Seq(ServerHandlers), pc : [{"R", "S", "D", "V"} -> ServerPcs],
   length : [{"R", "V"} -> Names \cup {"none"}],
   torn : {"none", "R", "V", "lost"}, reads : Seq({"R", "V"}),
   waiting : BOOLEAN, backlog : Seq(Provided), sendClosed : BOOLEAN,
   visited : BOOLEAN, confirmed : BOOLEAN, stopping : BOOLEAN,
   sock : {"open", "closed", "moved"}, ddl : {"max", "armed", "expired"}]

(* send_msgs is in one place: it has a handler to run, or its wait() has,  *)
(* or its wait() is queued, or it is over.                                 *)
SendTurn(h) == h.to \in {"S", "wait"}
NoSendTurn(x) == ~x.waiting /\ \A i \in 1..Len(x.ready) : ~SendTurn(x.ready[i])
SendInPlace(x) ==
  /\ \A i, j \in 1..Len(x.ready) : SendTurn(x.ready[i]) /\ SendTurn(x.ready[j]) => i = j
  /\ x.waiting => x.pc["S"] = "getting" /\ \A i \in 1..Len(x.ready) : ~SendTurn(x.ready[i])
  /\ \A i \in 1..Len(x.ready) :
       /\ x.ready[i].to = "wait" => x.pc["S"] = "getting"
       /\ x.ready[i].to = "S" /\ x.pc["S"] # "getting" => x.ready[i].got \notin Message
       /\ x.ready[i].to = "S" /\ x.pc["S"] = "getting" => x.ready[i].got # S!Ok

(* Until the visit is sent visit() is in one place, too.                   *)
ProvideVisit == S!Handler("provide", <<"V", "visit">>)
VisitTurn(h) == h.to = "V" \/ h = ProvideVisit
Backlogged(x) == \E j \in 1..Len(x.backlog) : x.backlog[j][1] = "V"
MayFail(x) == x.pc["V"] \in {"length", "body"} \/ \E i \in 1..Len(x.reads) : x.reads[i] = "V"
NoVisitTurn(x) == ~Backlogged(x) /\ \A i \in 1..Len(x.ready) : ~VisitTurn(x.ready[i])
VisitInPlace(x) ==
  /\ x.pc["V"] \in {"none", "start", "providing"} =>
       /\ ~MayFail(x)
       /\ \A i, j \in 1..Len(x.ready) :
            VisitTurn(x.ready[i]) /\ VisitTurn(x.ready[j]) => i = j
       /\ \A i, j \in 1..Len(x.backlog) :
            x.backlog[i][1] = "V" /\ x.backlog[j][1] = "V" => i = j
       /\ Backlogged(x) => \A i \in 1..Len(x.ready) : ~VisitTurn(x.ready[i])
  /\ x.pc["V"] = "none" => NoVisitTurn(x)
  /\ x.pc["V"] # "providing" =>
       ~Backlogged(x) /\ \A i \in 1..Len(x.ready) : x.ready[i] # ProvideVisit

(* The visit goes to send_msgs, and right behind it visit() goes on: when  *)
(* that is next, the visit has left send_msgs and no message is with it.   *)
NoMessage(x) ==
  \A i \in 1..Len(x.ready) : ~(x.ready[i].to = "S" /\ x.ready[i].got \in Message)
SendVisit == S!Handler("S", <<"visit", "message">>)
VisitGoesOn == S!Handler("V", S!Ok)
VisitFollows(x) ==
  /\ \A i \in 1..Len(x.ready) : x.ready[i] = SendVisit =>
       x.pc["V"] = "providing" /\ i < Len(x.ready) /\ x.ready[i + 1] = VisitGoesOn
  /\ \A i \in 1..Len(x.ready) : x.ready[i] = VisitGoesOn /\ x.pc["V"] = "providing" =>
       IF i = 1 THEN NoMessage(x) ELSE x.ready[i - 1] = SendVisit

(* A closed queue gives send_msgs no more messages for an open socket.     *)
ClosedQueue(x) == x.sendClosed /\ x.sock = "open" => NoMessage(x)

InPlace(x) == SendInPlace(x) /\ VisitInPlace(x) /\ VisitFollows(x) /\ ClosedQueue(x)

(* send_msgs has nothing to write any more, or will not find its socket.   *)
Mute(x) == x.sock # "open" \/ x.sendClosed
Silent(x) ==
  \/ Mute(x)
  \/ /\ x.ready # <<>> /\ x.ready[1] = VisitGoesOn
     /\ x.pc["V"] = "providing" /\ NoMessage(x)

ServerKnows ==
  /\ SentBy("visit", down, Len(down)) => Silent(w)
  /\ w.sock = "moved" => w.pc["V"] = "handed"
  /\ w.pc["V"] \in {"confirmed", "handed"} \/ Brings(w, "confirmed")
       => SentBy("confirmed", up, upRead)
ServerInv == w \in ServerWorkers /\ InPlace(w) /\ ServerKnows

(* A piece of a handler posts nothing to send_msgs or for the visit.       *)
Plain(x, h) ==
  \/ h.to \in {"R", "D", "drain"} \/ h = S!Handler("provide", <<"R", "pong">>)
  \/ h.to = "V" /\ h.got # S!Ok /\ MayFail(x)
Calm(x, y) ==
  /\ y \in ServerWorkers /\ Len(x.ready) <= Len(y.ready)
  /\ \A i \in 1..Len(y.ready) :
       IF i <= Len(x.ready) THEN y.ready[i] = x.ready[i] ELSE Plain(x, y.ready[i])
  /\ y.waiting = x.waiting /\ y.backlog = x.backlog
  /\ y.pc["S"] = x.pc["S"] /\ y.pc["V"] = x.pc["V"] /\ (MayFail(y) => MayFail(x))
  /\ y.sock \in {x.sock, "closed"}
  /\ y.sendClosed = x.sendClosed \/ y.sock = "closed"
ServerGoesOn(x, y) == Calm(x, y) /\ (Brings(y, "confirmed") => Brings(x, "confirmed"))

LEMMA ServerChain ==
  ASSUME NEW x \in ServerWorkers, NEW y, NEW z, ServerGoesOn(x, y), ServerGoesOn(y, z)
  PROVE  ServerGoesOn(x, z)
<1>1. /\ z \in ServerWorkers /\ Len(x.ready) <= Len(z.ready)
      /\ z.waiting = x.waiting /\ z.backlog = x.backlog
      /\ z.pc["S"] = x.pc["S"] /\ z.pc["V"] = x.pc["V"] /\ (MayFail(z) => MayFail(x))
      /\ z.sock \in {x.sock, "closed"}
      /\ z.sendClosed = x.sendClosed \/ z.sock = "closed"
      /\ Brings(z, "confirmed") => Brings(x, "confirmed")
  <2>1. y \in ServerWorkers /\ z \in ServerWorkers
    BY DEF ServerGoesOn, Calm
  <2>2. Len(x.ready) \in Nat /\ Len(y.ready) \in Nat /\ Len(z.ready) \in Nat
    BY <2>1 DEF ServerWorkers
  <2> QED BY <2>2 DEF ServerGoesOn, Calm
<1>2. ASSUME NEW i \in 1..Len(z.ready), i <= Len(x.ready) PROVE z.ready[i] = x.ready[i]
  <2>1. y \in ServerWorkers /\ Len(x.ready) \in Nat /\ Len(y.ready) \in Nat
    BY DEF ServerGoesOn, Calm, ServerWorkers
  <2>2. i \in 1..Len(y.ready) /\ i <= Len(y.ready)
    BY <1>2, <2>1 DEF ServerGoesOn, Calm
  <2> QED BY <1>2, <2>2 DEF ServerGoesOn, Calm
<1>3. ASSUME NEW i \in 1..Len(z.ready), ~(i <= Len(x.ready)) PROVE Plain(x, z.ready[i])
  <2>1. y \in ServerWorkers /\ Len(x.ready) \in Nat /\ Len(y.ready) \in Nat
    BY DEF ServerGoesOn, Calm, ServerWorkers
  <2>2. CASE i <= Len(y.ready)
    <3>1. i \in 1..Len(y.ready)
      BY <2>1, <2>2
    <3> QED BY <1>3, <2>2, <3>1 DEF ServerGoesOn, Calm
  <2>3. CASE ~(i <= Len(y.ready))
    <3>1. Plain(y, z.ready[i]) /\ (MayFail(y) => MayFail(x))
      BY <2>3 DEF ServerGoesOn, Calm
    <3> QED BY <3>1 DEF Plain
  <2> QED BY <2>2, <2>3
<1> QED BY <1>1, <1>2, <1>3 DEF ServerGoesOn, Calm

LEMMA ServerPosts ==
  ASSUME NEW x \in ServerWorkers, NEW a, NEW got, S!Handler(a, got) \in ServerHandlers
  PROVE  LET y == S!Post(x, a, got) IN
           /\ y \in ServerWorkers /\ Len(y.ready) = Len(x.ready) + 1 /\ Len(x.ready) \in Nat
           /\ \A i \in 1..Len(x.ready) : y.ready[i] = x.ready[i]
           /\ y.ready[Len(x.ready) + 1] = S!Handler(a, got)
           /\ \A i \in 1..Len(y.ready) : i \in 1..Len(x.ready) \/ i = Len(x.ready) + 1
           /\ y.pc = x.pc /\ y.reads = x.reads /\ y.waiting = x.waiting
           /\ y.backlog = x.backlog /\ y.sendClosed = x.sendClosed /\ y.sock = x.sock
           /\ got # <<"confirmed", "body">> /\ Brings(y, "confirmed") => Brings(x, "confirmed")
<1> DEFINE h == S!Handler(a, got)
           y == S!Post(x, a, got)
<1>1. y = [x EXCEPT !.ready = Append(x.ready, h)] /\ h.got = got
  BY DEF S!Post, S!Handler
<1>2. h \in ServerHandlers
  OBVIOUS
<1> HIDE DEF h, y
<1>3. x.ready \in Seq(ServerHandlers)
  BY DEF ServerWorkers
<1>4. /\ Append(x.ready, h) \in Seq(ServerHandlers) /\ Len(x.ready) \in Nat
      /\ Len(Append(x.ready, h)) = Len(x.ready) + 1
      /\ \A i \in 1..Len(x.ready) : Append(x.ready, h)[i] = x.ready[i]
      /\ Append(x.ready, h)[Len(x.ready) + 1] = h
  BY <1>2, <1>3, AppendProperties
<1>5. y \in ServerWorkers /\ y.ready = Append(x.ready, h)
  BY <1>1, <1>4 DEF ServerWorkers
<1>6. /\ y.pc = x.pc /\ y.reads = x.reads /\ y.waiting = x.waiting
      /\ y.backlog = x.backlog /\ y.sendClosed = x.sendClosed /\ y.sock = x.sock
  BY <1>1 DEF ServerWorkers
<1>7. \A i \in 1..Len(y.ready) : i \in 1..Len(x.ready) \/ i = Len(x.ready) + 1
  BY <1>4, <1>5
<1>8. got # <<"confirmed", "body">> /\ Brings(y, "confirmed") => Brings(x, "confirmed")
  BY <1>1, <1>4, <1>5, <1>7 DEF Brings
<1> QED BY <1>4, <1>5, <1>6, <1>7, <1>8 DEF h, y

LEMMA ServerPostsPlain ==
  ASSUME NEW x \in ServerWorkers, NEW a, NEW got, S!Handler(a, got) \in ServerHandlers,
         Plain(x, S!Handler(a, got)), got # <<"confirmed", "body">>
  PROVE  ServerGoesOn(x, S!Post(x, a, got))
<1> DEFINE y == S!Post(x, a, got)
<1>1. MayFail(y) => MayFail(x)
  BY ServerPosts DEF MayFail
<1>2. ASSUME NEW i \in 1..Len(y.ready)
      PROVE  IF i <= Len(x.ready) THEN y.ready[i] = x.ready[i] ELSE Plain(x, y.ready[i])
  <2>1. i \in 1..Len(x.ready) \/ i = Len(x.ready) + 1
    BY ServerPosts
  <2>2. CASE i \in 1..Len(x.ready)
    BY <2>2, ServerPosts
  <2>3. CASE i = Len(x.ready) + 1
    BY <2>3, ServerPosts
  <2> QED BY <2>1, <2>2, <2>3
<1>3. /\ y \in ServerWorkers /\ Len(y.ready) = Len(x.ready) + 1 /\ Len(x.ready) \in Nat
      /\ y.pc = x.pc /\ y.waiting = x.waiting
      /\ y.backlog = x.backlog /\ y.sendClosed = x.sendClosed /\ y.sock = x.sock
      /\ Brings(y, "confirmed") => Brings(x, "confirmed")
  BY ServerPosts
<1> QED BY <1>1, <1>2, <1>3 DEF ServerGoesOn, Calm

(* The pieces of the server's handlers, in the order in which they call    *)
(* each other.                                                             *)
LEMMA ServerSame ==
  ASSUME NEW x \in ServerWorkers, NEW y \in ServerWorkers, y.ready = x.ready,
         y.pc["S"] = x.pc["S"], y.pc["V"] = x.pc["V"],
         y.waiting = x.waiting, y.backlog = x.backlog, MayFail(y) => MayFail(x),
         y.sock \in {x.sock, "closed"}, y.sendClosed = x.sendClosed \/ y.sock = "closed"
  PROVE  ServerGoesOn(x, y)
<1>1. Len(x.ready) \in Nat
  BY DEF ServerWorkers
<1> QED BY <1>1 DEF ServerGoesOn, Calm, Brings

LEMMA ServerMoves ==
  ASSUME NEW x \in ServerWorkers, NEW a \in {"R", "S", "D", "V"}, NEW l \in ServerPcs
  PROVE  LET y == S!GoTo(x, a, l) IN
           /\ y \in ServerWorkers /\ y.ready = x.ready /\ y.reads = x.reads
           /\ \A b \in {"R", "S", "D", "V"} : y.pc[b] = IF b = a THEN l ELSE x.pc[b]
           /\ y.waiting = x.waiting /\ y.backlog = x.backlog
           /\ y.sendClosed = x.sendClosed /\ y.sock = x.sock
           /\ a \in {"R", "D"} => ServerGoesOn(x, y)
<1> DEFINE y == S!GoTo(x, a, l)
<1>1. y = [x EXCEPT !.pc = [x.pc EXCEPT ![a] = l]]
  BY DEF S!GoTo
<1> HIDE DEF y
<1>2. /\ y \in ServerWorkers /\ y.ready = x.ready /\ y.reads = x.reads
      /\ y.waiting = x.waiting /\ y.backlog = x.backlog
      /\ y.sendClosed = x.sendClosed /\ y.sock = x.sock
  BY <1>1 DEF ServerWorkers
<1>3. \A b \in {"R", "S", "D", "V"} : y.pc[b] = IF b = a THEN l ELSE x.pc[b]
  BY <1>1 DEF ServerWorkers
<1>4. ASSUME a \in {"R", "D"} PROVE ServerGoesOn(x, y)
  <2>1. y.pc["S"] = x.pc["S"] /\ y.pc["V"] = x.pc["V"]
    BY <1>3, <1>4
  <2> QED BY <1>2, <2>1, ServerSame DEF MayFail
<1> QED BY <1>2, <1>3, <1>4 DEF y

LEMMA HandlerParts ==
  ASSUME NEW a, NEW got
  PROVE  S!Handler(a, got).to = a /\ S!Handler(a, got).got = got
BY DEF S!Handler

LEMMA PlainHandlers ==
  /\ S!Handler("R", S!Error) \in ServerHandlers /\ S!Handler("V", S!Error) \in ServerHandlers
  /\ \A a \in {"R", "S", "D", "V", "wait", "drain"} : S!Handler(a, S!Ok) \in ServerHandlers
  /\ S!Handler("S", S!Error) \in ServerHandlers
  /\ \A p \in Provided : S!Handler("provide", p) \in ServerHandlers
  /\ \A m \in Message : S!Handler("S", m) \in ServerHandlers
BY DEF S!Handler, ServerHandlers, Reply, S!Ok, S!Error

LEMMA PlainReplies ==
  /\ S!Ok # S!Error /\ S!Ok \in Reply /\ S!Error \in Reply
  /\ \A n : S!Ok # <<n, "body">> /\ S!Error # <<n, "body">>
  /\ S!Ok \notin Message /\ S!Error \notin Message
  /\ <<"R", "pong">> # <<"confirmed", "body">>
BY DEF Reply, S!Ok, S!Error, Message

LEMMA ServerWakes ==
  ASSUME NEW x \in ServerWorkers
  PROVE  ServerGoesOn(x, S!WakeDdl(x))
         /\ ServerGoesOn(x, S!Post(S!GoTo(x, "D", "woken"), "D", S!Ok))
<1> DEFINE y == S!GoTo(x, "D", "woken")
<1>1. ServerGoesOn(x, y)
  BY ServerMoves DEF ServerPcs
<1>2. ServerGoesOn(x, x)
  BY ServerSame
<1>3. S!WakeDdl(x) = IF x.pc.D = "waiting" THEN S!Post(y, "D", S!Ok) ELSE x
  BY DEF S!WakeDdl
<1> HIDE DEF y
<1>4. ServerGoesOn(y, S!Post(y, "D", S!Ok))
  <2>1. y \in ServerWorkers
    BY <1>1 DEF ServerGoesOn, Calm
  <2>2. Plain(y, S!Handler("D", S!Ok))
    BY HandlerParts DEF Plain
  <2> QED BY <2>1, <2>2, ServerPostsPlain, PlainHandlers, PlainReplies
<1> QED BY <1>1, <1>2, <1>3, <1>4, ServerChain DEF y

LEMMA ServerSetsDdl ==
  ASSUME NEW x \in ServerWorkers, NEW t \in {"max", "armed", "expired"}
  PROVE  ServerGoesOn(x, S!WakeDdl([x EXCEPT !.ddl = t]))
<1> DEFINE y == [x EXCEPT !.ddl = t]
<1>1. y \in ServerWorkers /\ ServerGoesOn(x, y)
  <2>1. /\ y \in ServerWorkers /\ y.ready = x.ready /\ y.reads = x.reads /\ y.pc = x.pc
        /\ y.waiting = x.waiting /\ y.backlog = x.backlog
        /\ y.sendClosed = x.sendClosed /\ y.sock = x.sock
    BY DEF ServerWorkers
  <2> QED BY <2>1, ServerSame DEF MayFail
<1> HIDE DEF y
<1>2. ServerGoesOn(y, S!WakeDdl(y))
  BY <1>1, ServerWakes
<1> QED BY <1>1, <1>2, ServerChain DEF y

LEMMA ServerAwaits ==
  ASSUME NEW x \in ServerWorkers
  PROVE  ServerGoesOn(x, S!AwaitDdl(x))
<1>1. ServerGoesOn(x, S!GoTo(x, "D", "waiting"))
  BY ServerMoves DEF ServerPcs
<1> QED BY <1>1, ServerWakes DEF S!AwaitDdl

LEMMA ConcatParts ==
  ASSUME NEW T, NEW s \in Seq(T), NEW t \in Seq(T)
  PROVE  /\ s \o t \in Seq(T) /\ Len(s) \in Nat /\ Len(s) <= Len(s \o t)
         /\ \A i \in 1..Len(s) : (s \o t)[i] = s[i]
         /\ \A i \in 1..Len(s \o t) :
              IF i <= Len(s) THEN i \in 1..Len(s) /\ (s \o t)[i] = s[i]
              ELSE i - Len(s) \in 1..Len(t) /\ (s \o t)[i] = t[i - Len(s)]
<1>1. Len(s) \in Nat /\ Len(t) \in Nat
  OBVIOUS
<1>2. /\ s \o t \in Seq(T) /\ Len(s \o t) = Len(s) + Len(t)
      /\ \A i \in 1..(Len(s) + Len(t)) :
           (s \o t)[i] = IF i <= Len(s) THEN s[i] ELSE t[i - Len(s)]
  BY ConcatProperties
<1> DEFINE m == Len(s)
           n == Len(t)
<1>3. \A i \in 1..(m + n) : IF i <= m THEN i \in 1..m ELSE i - m \in 1..n
  <2> HIDE DEF m, n
  <2> QED BY <1>1 DEF m, n
<1> QED BY <1>1, <1>2, <1>3

LEMMA ServerCancels ==
  ASSUME NEW x \in ServerWorkers
  PROVE  ServerGoesOn(x, S!CancelReads(x)) /\ S!CancelReads(x).reads = <<>>
<1> DEFINE hs == [i \in DOMAIN x.reads |-> S!Handler(x.reads[i], S!Error)]
           y == S!CancelReads(x)
<1>1. y = [x EXCEPT !.ready = x.ready \o hs, !.reads = <<>>]
  BY DEF S!CancelReads
<1>2. DOMAIN x.reads = 1..Len(x.reads) /\ Len(x.reads) \in Nat /\ x.ready \in Seq(ServerHandlers)
      /\ \A i \in 1..Len(x.reads) : x.reads[i] \in {"R", "V"}
  BY DEF ServerWorkers
<1>3. ASSUME NEW i \in 1..Len(x.reads)
      PROVE  /\ hs[i] \in ServerHandlers /\ Plain(x, hs[i])
             /\ hs[i].got # <<"confirmed", "body">>
  <2>1. hs[i] = S!Handler(x.reads[i], S!Error) /\ x.reads[i] \in {"R", "V"}
    BY <1>2
  <2>2. hs[i].to = x.reads[i] /\ hs[i].got = S!Error
    BY <2>1, HandlerParts
  <2>3. x.reads[i] = "V" => MayFail(x)
    BY DEF MayFail
  <2>4. Plain(x, hs[i]) /\ hs[i].got # <<"confirmed", "body">>
    BY <2>1, <2>2, <2>3, PlainReplies DEF Plain
  <2> QED BY <2>1, <2>4, PlainHandlers
<1>4. hs \in Seq(ServerHandlers) /\ Len(hs) = Len(x.reads)
  <2>1. hs \in [1..Len(x.reads) -> ServerHandlers]
    BY <1>2, <1>3
  <2> QED BY <1>2, <2>1, LenProperties, SeqDef DEF hs
<1> HIDE DEF hs, y
<1> DEFINE r == x.ready \o hs
<1>5. /\ r \in Seq(ServerHandlers) /\ Len(x.ready) \in Nat /\ Len(x.ready) <= Len(r)
      /\ \A i \in 1..Len(r) :
           IF i <= Len(x.ready) THEN i \in 1..Len(x.ready) /\ r[i] = x.ready[i]
           ELSE i - Len(x.ready) \in 1..Len(x.reads) /\ r[i] = hs[i - Len(x.ready)]
  BY <1>2, <1>4, ConcatParts
<1>6. <<>> \in Seq({"R", "V"}) /\ Len(<<>>) = 0
  BY EmptySeq
<1> HIDE DEF r
<1>7. y = [x EXCEPT !.ready = r, !.reads = <<>>]
  BY <1>1 DEF r
<1>8. /\ y \in ServerWorkers /\ y.ready = r /\ y.reads = <<>> /\ y.pc = x.pc
      /\ y.waiting = x.waiting /\ y.backlog = x.backlog
      /\ y.sendClosed = x.sendClosed /\ y.sock = x.sock
  BY <1>5, <1>6, <1>7 DEF ServerWorkers
<1>9. MayFail(y) => MayFail(x)
  BY <1>6, <1>8 DEF MayFail
<1>10. ASSUME NEW i \in 1..Len(r)
       PROVE  IF i <= Len(x.ready) THEN i \in 1..Len(x.ready) /\ r[i] = x.ready[i]
                                   ELSE Plain(x, r[i]) /\ r[i].got # <<"confirmed", "body">>
  BY <1>3, <1>5
<1>11. Calm(x, y)
  BY <1>2, <1>5, <1>8, <1>9, <1>10 DEF Calm
<1>12. Brings(y, "confirmed") => Brings(x, "confirmed")
  <2>1. ASSUME NEW i \in 1..Len(r), r[i].got = <<"confirmed", "body">>
        PROVE  i \in 1..Len(x.ready) /\ x.ready[i].got = <<"confirmed", "body">>
    BY <1>5, <1>10, <2>1
  <2> QED BY <1>8, <2>1 DEF Brings
<1> QED BY <1>8, <1>11, <1>12 DEF ServerGoesOn, y

LEMMA ServerStops ==
  ASSUME NEW x \in ServerWorkers
  PROVE  ServerGoesOn(x, S!TryStop(x))
<1> DEFINE y == [x EXCEPT !.stopping = TRUE]
           yc == [y EXCEPT !.sendClosed = TRUE]
           u == S!Post(yc, "drain", S!Ok)
           v == S!CancelReads(u)
           z == [v EXCEPT !.sock = "closed"]
<1>1. S!TryStop(x) = IF x.visited THEN y ELSE S!WakeDdl([z EXCEPT !.ddl = "max"])
  BY DEF S!TryStop, S!CancelDdl, S!CloseSend
<1>2. /\ y \in ServerWorkers /\ y.ready = x.ready /\ y.reads = x.reads /\ y.pc = x.pc
      /\ y.waiting = x.waiting /\ y.backlog = x.backlog
      /\ y.sendClosed = x.sendClosed /\ y.sock = x.sock
  BY DEF ServerWorkers
<1>3. ServerGoesOn(x, y)
  BY <1>2, ServerSame DEF MayFail
<1> HIDE DEF y
<1>4. /\ yc \in ServerWorkers /\ yc.ready = x.ready /\ yc.reads = x.reads /\ yc.pc = x.pc
      /\ yc.waiting = x.waiting /\ yc.backlog = x.backlog /\ yc.sock = x.sock
  BY <1>2 DEF ServerWorkers
<1> HIDE DEF yc
<1>5. ServerGoesOn(yc, u)
  <2>1. Plain(yc, S!Handler("drain", S!Ok))
    BY HandlerParts DEF Plain
  <2> QED BY <1>4, <2>1, ServerPostsPlain, PlainHandlers, PlainReplies
<1> HIDE DEF u
<1>6. u \in ServerWorkers
  BY <1>5 DEF ServerGoesOn, Calm
<1>7. ServerGoesOn(u, v)
  BY <1>6, ServerCancels
<1> HIDE DEF v
<1>8. ServerGoesOn(yc, v) /\ v \in ServerWorkers
  BY <1>4, <1>5, <1>7, ServerChain DEF ServerGoesOn, Calm
<1>9. /\ z \in ServerWorkers /\ z.ready = v.ready /\ z.reads = v.reads /\ z.pc = v.pc
      /\ z.waiting = v.waiting /\ z.backlog = v.backlog /\ z.sock = "closed"
  BY <1>8 DEF ServerWorkers
<1> HIDE DEF z
<1>10. ServerGoesOn(v, z)
  BY <1>8, <1>9, ServerSame DEF MayFail
<1>11. ServerGoesOn(yc, z)
  BY <1>4, <1>8, <1>10, ServerChain
<1>12. ServerGoesOn(x, z)
  BY <1>4, <1>9, <1>11 DEF ServerGoesOn, Calm, Plain, MayFail, Brings
<1>13. ServerGoesOn(x, S!WakeDdl([z EXCEPT !.ddl = "max"]))
  BY <1>9, <1>12, ServerSetsDdl, ServerChain
<1> QED BY <1>1, <1>3, <1>13

(* A coroutine throws; S only when nothing waits for it any more.          *)
LEMMA ServerThrows ==
  ASSUME NEW x \in ServerWorkers, NEW a \in {"R", "S", "D", "V"}
  PROVE  ServerGoesOn(S!GoTo(x, a, "done"), S!Throw(x, a))
<1> DEFINE y == S!GoTo(x, a, "done")
<1>1. y \in ServerWorkers
  BY ServerMoves DEF ServerPcs
<1>2. S!Throw(x, a) = IF x.visited \/ x.stopping THEN y ELSE S!TryStop(y)
  BY DEF S!Throw
<1> HIDE DEF y
<1>3. ServerGoesOn(y, y)
  BY <1>1, ServerSame
<1> QED BY <1>1, <1>2, <1>3, ServerStops DEF y

(* A read starts, or fails at once.                                        *)
LEMMA ServerStartsRead ==
  ASSUME NEW x \in ServerWorkers, NEW a \in {"R", "V"}, NEW l \in {"length", "body"}
  PROVE  ServerGoesOn(S!GoTo(x, a, l), S!StartRead(x, a, l))
<1> DEFINE y == S!GoTo(x, a, l)
           z == [y EXCEPT !.reads = Append(@, a)]
<1>1. y \in ServerWorkers /\ (a = "V" => MayFail(y))
  BY ServerMoves DEF ServerPcs, MayFail
<1>2. S!StartRead(x, a, l) = IF x.sock = "open" THEN z ELSE S!Post(y, a, S!Error)
  BY DEF S!StartRead
<1> HIDE DEF y
<1>3. /\ z \in ServerWorkers /\ z.ready = y.ready /\ z.reads = Append(y.reads, a)
      /\ z.pc = y.pc /\ z.waiting = y.waiting /\ z.backlog = y.backlog
      /\ z.sendClosed = y.sendClosed /\ z.sock = y.sock
  <2>1. y.reads \in Seq({"R", "V"}) /\ Append(y.reads, a) \in Seq({"R", "V"})
    BY <1>1 DEF ServerWorkers
  <2> QED BY <1>1, <2>1 DEF ServerWorkers
<1> HIDE DEF z
<1>4. MayFail(z) => MayFail(y)
  <2>1. y.reads \in Seq({"R", "V"})
    BY <1>1 DEF ServerWorkers
  <2>2. \A i \in 1..Len(z.reads) : (i \in 1..Len(y.reads) /\ z.reads[i] = y.reads[i])
                                   \/ z.reads[i] = a
    BY <1>3, <2>1
  <2> QED BY <1>1, <1>3, <2>2 DEF MayFail
<1>5. ServerGoesOn(y, z)
  BY <1>1, <1>3, <1>4, ServerSame
<1>6. ServerGoesOn(y, S!Post(y, a, S!Error))
  <2>1. Plain(y, S!Handler(a, S!Error))
    BY <1>1, HandlerParts, PlainReplies DEF Plain
  <2> QED BY <1>1, <2>1, ServerPostsPlain, PlainHandlers, PlainReplies
<1> QED BY <1>2, <1>5, <1>6 DEF y

(* recv_msgs goes on.                                                      *)
LEMMA ServerReceives ==
  ASSUME NEW x \in ServerWorkers
  PROVE  /\ ServerGoesOn(x, S!RecvMsg(x)) /\ ServerGoesOn(x, S!Throw(x, "R"))
         /\ \A l \in {"length", "body"} : ServerGoesOn(x, S!StartRead(x, "R", l))
         /\ ServerGoesOn(x, S!Provide(x, "R", "pong"))
<1>1. ASSUME NEW y \in ServerWorkers, NEW l \in {"length", "body"}
      PROVE  ServerGoesOn(y, S!StartRead(y, "R", l))
  <2>1. ServerGoesOn(y, S!GoTo(y, "R", l))
    BY ServerMoves DEF ServerPcs
  <2> QED BY <2>1, ServerStartsRead, ServerChain
<1>2. ServerGoesOn(x, S!RecvMsg(x))
  <2> DEFINE y == S!SetDdl(x)
  <2>1. ServerGoesOn(x, y)
    BY ServerSetsDdl DEF S!SetDdl
  <2>2. S!RecvMsg(x) = S!StartRead(y, "R", "length")
    BY DEF S!RecvMsg
  <2> HIDE DEF y
  <2>3. y \in ServerWorkers
    BY <2>1 DEF ServerGoesOn, Calm
  <2> QED BY <1>1, <2>1, <2>2, <2>3, ServerChain
<1>3. ServerGoesOn(x, S!Throw(x, "R"))
  <2>1. ServerGoesOn(x, S!GoTo(x, "R", "done"))
    BY ServerMoves DEF ServerPcs
  <2> QED BY <2>1, ServerThrows, ServerChain
<1>4. ServerGoesOn(x, S!Provide(x, "R", "pong"))
  <2> DEFINE y == S!GoTo(x, "R", "providing")
  <2>1. ServerGoesOn(x, y)
    BY ServerMoves DEF ServerPcs
  <2>2. S!Provide(x, "R", "pong") = S!Post(y, "provide", <<"R", "pong">>)
    BY DEF S!Provide
  <2> HIDE DEF y
  <2>3. y \in ServerWorkers /\ <<"R", "pong">> \in Provided
    BY <2>1 DEF ServerGoesOn, Calm, Provided
  <2>4. ServerGoesOn(y, S!Post(y, "provide", <<"R", "pong">>))
    <3>1. Plain(y, S!Handler("provide", <<"R", "pong">>))
      BY DEF Plain
    <3> QED BY <2>3, <3>1, ServerPostsPlain, PlainHandlers, PlainReplies
  <2> QED BY <2>1, <2>2, <2>4, ServerChain
<1> QED BY <1>1, <1>2, <1>3, <1>4

-----------------------------------------------------------------------------
(* Everything stays in place as a handler leaves the queue and as pieces   *)
(* of it run.                                                              *)

LEMMA PlainTurns ==
  ASSUME NEW x, NEW h, Plain(x, h)
  PROVE  /\ ~SendTurn(h) /\ h # SendVisit /\ h # VisitGoesOn /\ h.to # "S"
         /\ h # ProvideVisit
         /\ ~MayFail(x) => ~VisitTurn(h)
<1>1. /\ SendVisit.to = "S" /\ VisitGoesOn.to = "V" /\ VisitGoesOn.got = S!Ok
      /\ ProvideVisit.to = "provide" /\ ProvideVisit.got = <<"V", "visit">>
  BY HandlerParts DEF SendVisit, VisitGoesOn, ProvideVisit
<1>2. CASE h.to \in {"R", "D", "drain"}
  BY <1>1, <1>2 DEF SendTurn, VisitTurn
<1>3. CASE h = S!Handler("provide", <<"R", "pong">>)
  <2>1. h.to = "provide" /\ h.got = <<"R", "pong">>
    BY <1>3, HandlerParts
  <2> QED BY <1>1, <2>1 DEF SendTurn, VisitTurn
<1>4. CASE h.to = "V" /\ h.got # S!Ok /\ MayFail(x)
  BY <1>1, <1>4 DEF SendTurn
<1> QED BY <1>2, <1>3, <1>4 DEF Plain

LEMMA FollowsGrows ==
  ASSUME NEW x \in ServerWorkers, NEW y \in ServerWorkers, VisitFollows(x),
         NoMessage(x) => NoMessage(y), y.pc["V"] = x.pc["V"], Len(x.ready) <= Len(y.ready),
         \A i \in 1..Len(y.ready) :
           IF i <= Len(x.ready) THEN y.ready[i] = x.ready[i]
           ELSE y.ready[i] # SendVisit /\ (y.ready[i] = VisitGoesOn => y.pc["V"] # "providing")
  PROVE  VisitFollows(y)
<1> DEFINE n == Len(x.ready)
<1>1. n \in Nat /\ Len(y.ready) \in Nat
  BY DEF ServerWorkers
<1>2. \A i \in 1..n : i \in 1..Len(y.ready) /\ y.ready[i] = x.ready[i]
  BY <1>1
<1>3. ASSUME NEW i \in 1..Len(y.ready), y.ready[i] = SendVisit
      PROVE  y.pc["V"] = "providing" /\ i < Len(y.ready) /\ y.ready[i + 1] = VisitGoesOn
  <2>1. i \in 1..n /\ x.ready[i] = SendVisit
    BY <1>1, <1>3
  <2>2. x.pc["V"] = "providing" /\ i < n /\ x.ready[i + 1] = VisitGoesOn
    BY <2>1 DEF VisitFollows, n
  <2>3. i + 1 \in 1..n
    BY <1>1, <2>1, <2>2
  <2> HIDE DEF n
  <2> QED BY <1>1, <1>2, <2>1, <2>2, <2>3 DEF n
<1>4. ASSUME NEW i \in 1..Len(y.ready), y.ready[i] = VisitGoesOn, y.pc["V"] = "providing"
      PROVE  IF i = 1 THEN NoMessage(y) ELSE y.ready[i - 1] = SendVisit
  <2>1. i \in 1..n /\ x.ready[i] = VisitGoesOn
    BY <1>1, <1>4
  <2>2. IF i = 1 THEN NoMessage(x) ELSE x.ready[i - 1] = SendVisit
    BY <1>4, <2>1 DEF VisitFollows, n
  <2>3. i # 1 => i - 1 \in 1..n
    BY <1>1, <2>1
  <2> HIDE DEF n
  <2> QED BY <1>2, <2>2, <2>3
<1> QED BY <1>3, <1>4 DEF VisitFollows

LEMMA CalmKeeps ==
  ASSUME NEW x \in ServerWorkers, NEW y, Calm(x, y), InPlace(x)
  PROVE  InPlace(y) /\ (Silent(x) => Silent(y)) /\ (NoMessage(x) => NoMessage(y))
         /\ (NoSendTurn(x) => NoSendTurn(y))
<1> DEFINE n == Len(x.ready)
<1>1. /\ n \in Nat /\ n <= Len(y.ready) /\ Len(y.ready) \in Nat
      /\ y.waiting = x.waiting /\ y.backlog = x.backlog
      /\ y.pc["S"] = x.pc["S"] /\ y.pc["V"] = x.pc["V"] /\ (MayFail(y) => MayFail(x))
      /\ y.sock \in {x.sock, "closed"} /\ (y.sendClosed = x.sendClosed \/ y.sock = "closed")
  BY DEF Calm, ServerWorkers
<1>2. ASSUME NEW i \in 1..Len(y.ready)
      PROVE  \/ i \in 1..n /\ y.ready[i] = x.ready[i]
             \/ i \notin 1..n /\ i > n /\ Plain(x, y.ready[i])
  BY <1>1 DEF Calm
<1>3. ASSUME NEW i \in 1..Len(y.ready)
      PROVE  \/ i \in 1..n /\ y.ready[i] = x.ready[i]
             \/ /\ i \notin 1..n /\ i > n
                /\ ~SendTurn(y.ready[i]) /\ y.ready[i] # SendVisit
                /\ y.ready[i] # VisitGoesOn /\ y.ready[i].to # "S"
                /\ y.ready[i] # ProvideVisit
                /\ ~MayFail(x) => ~VisitTurn(y.ready[i])
  BY <1>2, PlainTurns
<1>4. \A i \in 1..n : i \in 1..Len(y.ready) /\ y.ready[i] = x.ready[i]
  BY <1>1 DEF Calm
<1> HIDE DEF n
<1>5. SendInPlace(y) /\ (NoSendTurn(x) => NoSendTurn(y))
  BY <1>1, <1>3 DEF InPlace, SendInPlace, SendTurn, NoSendTurn, n
<1>6. VisitInPlace(y)
  <2>1. Backlogged(y) <=> Backlogged(x)
    BY <1>1 DEF Backlogged
  <2>2. ASSUME NEW i \in 1..Len(y.ready), y.ready[i] = ProvideVisit
        PROVE  i \in 1..n /\ x.ready[i] = ProvideVisit
    BY <1>3, <2>2
  <2>3. ASSUME NEW i \in 1..Len(y.ready), VisitTurn(y.ready[i]), ~MayFail(x)
        PROVE  i \in 1..n /\ VisitTurn(x.ready[i])
    BY <1>3, <2>3
  <2>4. y.pc["V"] \in {"none", "start", "providing"} => ~MayFail(x)
    BY <1>1 DEF InPlace, VisitInPlace
  <2>5. VisitInPlace(x)
    BY DEF InPlace
  <2> QED BY <1>1, <2>1, <2>2, <2>3, <2>4, <2>5 DEF VisitInPlace, NoVisitTurn, n
<1>7. NoMessage(x) => NoMessage(y)
  BY <1>3 DEF NoMessage, n
<1>8. VisitFollows(y)
  <2>1. \A i \in 1..Len(y.ready) :
          IF i <= n THEN y.ready[i] = x.ready[i]
          ELSE y.ready[i] # SendVisit /\ y.ready[i] # VisitGoesOn
    BY <1>1, <1>3
  <2>2. y \in ServerWorkers /\ VisitFollows(x)
    BY DEF Calm, InPlace
  <2> QED BY <1>1, <1>7, <2>1, <2>2, FollowsGrows DEF n
<1>9. ClosedQueue(y)
  BY <1>1, <1>7 DEF InPlace, ClosedQueue
<1>10. Silent(x) => Silent(y)
  <2>1. ASSUME x.ready # <<>> PROVE y.ready # <<>> /\ y.ready[1] = x.ready[1]
    <3>1. n # 0 /\ x.ready \in Seq(ServerHandlers)
      BY <2>1, EmptySeq DEF ServerWorkers, n
    <3>2. 1 \in 1..n /\ Len(y.ready) # 0
      BY <1>1, <3>1
    <3> QED BY <1>4, <3>2, EmptySeq
  <2> QED BY <1>1, <1>7, <2>1 DEF Silent, Mute
<1> QED BY <1>5, <1>6, <1>7, <1>8, <1>9, <1>10 DEF InPlace

(* The handler at the head of the queue has been taken from it.            *)
LEMMA ServerPops ==
  ASSUME ServerInv, w.ready # <<>>
  PROVE  LET x == S!Rest h == Head(w.ready) IN
           /\ x \in ServerWorkers /\ InPlace(x) /\ h \in ServerHandlers /\ S!Got = h.got
           /\ x = [w EXCEPT !.ready = Tail(w.ready)]
           /\ x.pc = w.pc /\ x.waiting = w.waiting /\ x.backlog = w.backlog
           /\ x.sendClosed = w.sendClosed /\ x.sock = w.sock /\ x.reads = w.reads
           /\ Brings(x, "confirmed") => Brings(w, "confirmed")
           /\ h.got = <<"confirmed", "body">> => Brings(w, "confirmed")
           /\ Silent(w) /\ ~(h = VisitGoesOn /\ w.pc["V"] = "providing") => Mute(x)
           /\ SendTurn(h) => NoSendTurn(x)
           /\ w.pc["V"] \in {"start", "providing"} /\ VisitTurn(h) => NoVisitTurn(x)
           /\ h = SendVisit => w.pc["V"] = "providing" /\ x.ready # <<>>
                               /\ x.ready[1] = VisitGoesOn
           /\ h = VisitGoesOn /\ w.pc["V"] = "providing" => NoMessage(x)
           /\ (h.to = "S" /\ w.pc["S"] = "getting" => h.got # S!Ok)
           /\ (h.to = "S" /\ w.pc["S"] # "getting" => h.got \notin Message)
           /\ (h.to = "wait" => w.pc["S"] = "getting")
           /\ (h.to = "S" /\ h.got \in Message => ~NoMessage(w))
           /\ (h # SendVisit /\ w.pc["V"] = "providing" /\ 1 \in 1..Len(x.ready)
                 => x.ready[1] # VisitGoesOn)
<1> DEFINE x == S!Rest
           h == Head(w.ready)
           t == Tail(w.ready)
           n == Len(w.ready)
<1>1. w \in ServerWorkers /\ w.ready \in Seq(ServerHandlers)
  BY DEF ServerInv, ServerWorkers
<1>2. /\ h \in ServerHandlers /\ h = w.ready[1] /\ 1 \in 1..n
      /\ t \in Seq(ServerHandlers) /\ Len(t) = n - 1 /\ n \in Nat
      /\ \A i \in 1..Len(t) : i + 1 \in 1..n /\ t[i] = w.ready[i + 1]
  BY <1>1, PopSeq
<1>3. x = [w EXCEPT !.ready = Tail(w.ready)] /\ S!Got = h.got
  BY DEF S!Rest, S!Got
<1> HIDE DEF x, h, t, n
<1>4. /\ x \in ServerWorkers /\ x.ready = t /\ x.reads = w.reads
      /\ x.pc = w.pc /\ x.waiting = w.waiting /\ x.backlog = w.backlog
      /\ x.sendClosed = w.sendClosed /\ x.sock = w.sock
  BY <1>1, <1>2, <1>3 DEF ServerWorkers, t
<1>5. SendInPlace(w) /\ VisitInPlace(w) /\ VisitFollows(w) /\ ClosedQueue(w)
  BY DEF ServerInv, InPlace
<1>6. \A i \in 1..Len(t) : i + 1 # 1 /\ i + 1 \in 1..n /\ i \in Nat
  BY <1>2
<1>7. SendInPlace(x) /\ (SendTurn(h) => NoSendTurn(x))
  <2>1. \A i \in 1..Len(x.ready) :
          i + 1 \in 1..n /\ i + 1 # 1 /\ x.ready[i] = w.ready[i + 1] /\ i \in Nat
    BY <1>2, <1>4, <1>6
  <2>2. \A i, j \in 1..Len(x.ready) :
          SendTurn(x.ready[i]) /\ SendTurn(x.ready[j]) => i = j
    <3>1. \A i, j \in 1..Len(x.ready) :
            SendTurn(x.ready[i]) /\ SendTurn(x.ready[j]) => i + 1 = j + 1
      BY <1>5, <2>1 DEF SendInPlace, n
    <3> QED BY <2>1, <3>1
  <2>3. SendTurn(h) => ~w.waiting /\ \A i \in 1..Len(x.ready) : ~SendTurn(x.ready[i])
    BY <1>2, <1>5, <2>1 DEF SendInPlace, n
  <2>4. x.waiting => x.pc["S"] = "getting" /\ \A i \in 1..Len(x.ready) : ~SendTurn(x.ready[i])
    BY <1>4, <1>5, <2>1 DEF SendInPlace, n
  <2>5. ASSUME NEW i \in 1..Len(x.ready)
        PROVE  /\ x.ready[i].to = "wait" => x.pc["S"] = "getting"
               /\ x.ready[i].to = "S" /\ x.pc["S"] # "getting" => x.ready[i].got \notin Message
               /\ x.ready[i].to = "S" /\ x.pc["S"] = "getting" => x.ready[i].got # S!Ok
    BY <1>4, <1>5, <2>1 DEF SendInPlace, n
  <2> QED BY <1>4, <2>2, <2>3, <2>4, <2>5 DEF SendInPlace, NoSendTurn
<1>8. NoMessage(w) => NoMessage(x)
  BY <1>2, <1>4 DEF NoMessage, n
<1>9. NoSendTurn(x) => NoMessage(x)
  BY DEF NoSendTurn, NoMessage, SendTurn
<1>10. MayFail(x) <=> MayFail(w)
  BY <1>4 DEF MayFail
<1>11. Backlogged(x) <=> Backlogged(w)
  BY <1>4 DEF Backlogged
<1>12. VisitInPlace(x)
  <2>1. \A i \in 1..Len(x.ready) : i + 1 \in 1..n /\ x.ready[i] = w.ready[i + 1] /\ i \in Nat
    BY <1>2, <1>4, <1>6
  <2>2. x.pc["V"] \in {"none", "start", "providing"} =>
          \A i, j \in 1..Len(x.ready) :
            VisitTurn(x.ready[i]) /\ VisitTurn(x.ready[j]) => i = j
    BY <1>4, <1>5, <2>1 DEF VisitInPlace, n
  <2>3. NoVisitTurn(w) => NoVisitTurn(x)
    BY <1>11, <2>1 DEF NoVisitTurn, n
  <2> QED BY <1>4, <1>5, <1>10, <1>11, <2>1, <2>2, <2>3 DEF VisitInPlace, n
<1>13. w.pc["V"] \in {"start", "providing"} /\ VisitTurn(h) => NoVisitTurn(x)
  BY <1>2, <1>4, <1>5, <1>6, <1>11 DEF VisitInPlace, NoVisitTurn, n
<1>14. h = SendVisit => /\ w.pc["V"] = "providing" /\ x.ready # <<>>
                        /\ x.ready[1] = VisitGoesOn
  <2> SUFFICES ASSUME h = SendVisit
               PROVE  w.pc["V"] = "providing" /\ x.ready # <<>> /\ x.ready[1] = VisitGoesOn
    OBVIOUS
  <2>1. w.pc["V"] = "providing" /\ 1 < n /\ w.ready[1 + 1] = VisitGoesOn
    BY <1>2, <1>5 DEF VisitFollows, n
  <2>2. 1 \in 1..Len(t) /\ Len(t) # 0
    BY <1>2, <2>1
  <2> QED BY <1>2, <1>4, <2>1, <2>2, EmptySeq
<1>15. h = VisitGoesOn /\ w.pc["V"] = "providing" => NoMessage(x)
  BY <1>2, <1>5, <1>8 DEF VisitFollows, n
<1>16. VisitFollows(x)
  <2>1. ASSUME NEW i \in 1..Len(x.ready), x.ready[i] = SendVisit
        PROVE  x.pc["V"] = "providing" /\ i < Len(x.ready) /\ x.ready[i + 1] = VisitGoesOn
    <3>1. i + 1 \in 1..n /\ w.ready[i + 1] = SendVisit
      BY <1>2, <1>4, <2>1
    <3>2. w.pc["V"] = "providing" /\ i + 1 < n /\ w.ready[(i + 1) + 1] = VisitGoesOn
      BY <1>5, <3>1 DEF VisitFollows, n
    <3>3. i < Len(t) /\ i + 1 \in 1..Len(t)
      BY <1>2, <1>4, <2>1, <3>2
    <3> QED BY <1>2, <1>4, <3>2, <3>3
  <2>2. ASSUME NEW i \in 1..Len(x.ready), x.ready[i] = VisitGoesOn, x.pc["V"] = "providing"
        PROVE  IF i = 1 THEN NoMessage(x) ELSE x.ready[i - 1] = SendVisit
    <3>1. i + 1 \in 1..n /\ w.ready[i + 1] = VisitGoesOn /\ i + 1 # 1 /\ (i + 1) - 1 = i
      BY <1>2, <1>4, <1>6, <2>2
    <3>2. w.ready[i] = SendVisit
      BY <1>4, <1>5, <2>2, <3>1 DEF VisitFollows, n
    <3>3. CASE i = 1
      <4>1. SendTurn(h)
        BY <1>2, <3>2, <3>3, HandlerParts DEF SendTurn, SendVisit
      <4> QED BY <1>7, <1>9, <3>3, <4>1
    <3>4. CASE i # 1
      <4>1. i - 1 \in 1..Len(t) /\ (i - 1) + 1 = i
        BY <1>4, <1>2, <2>2, <3>4
      <4> QED BY <1>2, <1>4, <3>2, <3>4, <4>1
    <3> QED BY <3>3, <3>4
  <2> QED BY <2>1, <2>2 DEF VisitFollows
<1>17. ClosedQueue(x)
  BY <1>4, <1>5, <1>8 DEF ClosedQueue
<1>18. Silent(w) /\ ~(h = VisitGoesOn /\ w.pc["V"] = "providing") => Mute(x)
  BY <1>2, <1>4 DEF Silent, Mute
<1>19. Brings(x, "confirmed") => Brings(w, "confirmed")
  BY <1>2, <1>4 DEF Brings, n
<1>20. h.got = <<"confirmed", "body">> => Brings(w, "confirmed")
  BY <1>2 DEF Brings, n
<1>21. /\ h.to = "S" /\ w.pc["S"] = "getting" => h.got # S!Ok
       /\ h.to = "S" /\ w.pc["S"] # "getting" => h.got \notin Message
       /\ h.to = "wait" => w.pc["S"] = "getting"
  BY <1>2, <1>5 DEF SendInPlace, n
<1>22. h.to = "S" /\ h.got \in Message => ~NoMessage(w)
  BY <1>2 DEF NoMessage, n
<1>23. h # SendVisit /\ w.pc["V"] = "providing" /\ 1 \in 1..Len(x.ready)
         => x.ready[1] # VisitGoesOn
  <2> SUFFICES ASSUME w.pc["V"] = "providing", 1 \in 1..Len(x.ready), x.ready[1] = VisitGoesOn
               PROVE  h = SendVisit
    OBVIOUS
  <2>1. 1 + 1 \in 1..n /\ w.ready[1 + 1] = VisitGoesOn /\ 1 + 1 # 1
    BY <1>2, <1>4
  <2>2. w.ready[(1 + 1) - 1] = SendVisit
    BY <1>5, <2>1 DEF VisitFollows, n
  <2> QED BY <1>2, <2>2
<1>24. InPlace(x)
  BY <1>7, <1>12, <1>16, <1>17 DEF InPlace
<1> QED BY <1>2, <1>3, <1>4, <1>7, <1>13, <1>14, <1>15, <1>18, <1>19, <1>20, <1>21, <1>22,
           <1>23, <1>24 DEF x, h

-----------------------------------------------------------------------------
(* The steps that touch neither send_msgs nor the visit.                   *)

LEMMA ServerQuiet ==
  ASSUME ServerInv, NEW x \in ServerWorkers, InPlace(x), Silent(w) => Silent(x),
         x.sock = w.sock, x.pc["V"] = w.pc["V"],
         Brings(x, "confirmed") => Brings(w, "confirmed"),
         ServerGoesOn(x, w'), UNCHANGED <<up, upRead, down>>
  PROVE  ServerInv'
<1>1. InPlace(w') /\ (Silent(w) => Silent(w'))
  BY CalmKeeps DEF ServerGoesOn
<1>2. /\ w' \in ServerWorkers /\ w'.sock \in {w.sock, "closed"}
      /\ w'.pc["V"] = w.pc["V"]
      /\ Brings(w', "confirmed") => Brings(w, "confirmed")
  BY DEF ServerGoesOn, Calm
<1> QED BY <1>1, <1>2 DEF ServerInv, ServerKnows

LEMMA ServerQuietHandler ==
  ASSUME ServerInv, w.ready # <<>>, Head(w.ready).to # "V",
         ServerGoesOn(S!Rest, w'), UNCHANGED <<up, upRead, down>>
  PROVE  ServerInv'
<1>1. Head(w.ready) # VisitGoesOn
  BY HandlerParts DEF VisitGoesOn
<1> DEFINE x == S!Rest
<1>2. /\ x \in ServerWorkers /\ InPlace(x) /\ x.sock = w.sock /\ x.pc = w.pc
      /\ Brings(x, "confirmed") => Brings(w, "confirmed")
      /\ Silent(w) => Mute(x)
  BY <1>1, ServerPops
<1>3. Silent(w) => Silent(x)
  BY <1>2 DEF Silent
<1> HIDE DEF x
<1> QED BY <1>2, <1>3, ServerQuiet DEF x

LEMMA ServerTakesLength ==
  ASSUME NEW x \in ServerWorkers, NEW a \in {"R", "V"}, NEW m \in Names \cup {"none"}
  PROVE  ServerGoesOn(x, [x EXCEPT !.length[a] = m])
<1> DEFINE y == [x EXCEPT !.length[a] = m]
<1>1. /\ y \in ServerWorkers /\ y.ready = x.ready /\ y.reads = x.reads /\ y.pc = x.pc
      /\ y.waiting = x.waiting /\ y.backlog = x.backlog
      /\ y.sendClosed = x.sendClosed /\ y.sock = x.sock
  BY DEF ServerWorkers
<1> HIDE DEF y
<1>2. ServerGoesOn(x, y)
  BY <1>1, ServerSame DEF MayFail
<1> QED BY <1>2 DEF y

LEMMA LengthNames ==
  ASSUME NEW h \in ServerHandlers, h.to \in {"R", "V"}, h.got[2] = "length"
  PROVE  h.got[1] \in Names
<1>1. h.got \in Reply
  BY DEF ServerHandlers
<1> QED BY <1>1 DEF Reply, Chunk, Names

LEMMA ServerReceiving ==
  ASSUME ServerInv, S!RecvStart \/ S!RecvLength \/ S!RecvBody \/ S!RecvAnswered,
         UNCHANGED <<up, upRead, down>>
  PROVE  ServerInv'
<1> DEFINE x == S!Rest
<1>1. w.ready # <<>> /\ Head(w.ready).to = "R"
  BY DEF S!RecvStart, S!RecvLength, S!RecvBody, S!RecvAnswered, S!Resumes
<1>2. x \in ServerWorkers /\ Head(w.ready) \in ServerHandlers /\ S!Got = Head(w.ready).got
  BY <1>1, ServerPops
<1>3. ASSUME NEW m \in Names \cup {"none"} PROVE ServerGoesOn(x, [x EXCEPT !.length.R = m])
  BY <1>2, ServerTakesLength
<1>4. \/ w' \in {S!RecvMsg(x), S!Throw(x, "R"),
               S!StartRead(x, "R", "length"), S!StartRead(x, "R", "body")}
      \/ \E m \in Names \cup {"none"} :
           w' \in {S!StartRead([x EXCEPT !.length.R = m], "R", "body"),
                   S!Provide([x EXCEPT !.length.R = m], "R", "pong")}
  <2>1. S!Got[2] = "length" => S!Got[1] \in Names
    BY <1>1, <1>2, LengthNames
  <2> QED BY <2>1 DEF S!RecvStart, S!RecvLength, S!RecvBody, S!RecvAnswered, S!ReadOn
<1> HIDE DEF x
<1>5. ServerGoesOn(x, w')
  <2>1. CASE w' \in {S!RecvMsg(x), S!Throw(x, "R"),
                     S!StartRead(x, "R", "length"), S!StartRead(x, "R", "body")}
    BY <1>2, <2>1, ServerReceives
  <2>2. ASSUME NEW m \in Names \cup {"none"},
               w' \in {S!StartRead([x EXCEPT !.length.R = m], "R", "body"),
                       S!Provide([x EXCEPT !.length.R = m], "R", "pong")}
        PROVE  ServerGoesOn(x, w')
    <3> DEFINE y == [x EXCEPT !.length.R = m]
    <3>1. ServerGoesOn(x, y) /\ w' \in {S!StartRead(y, "R", "body"), S!Provide(y, "R", "pong")}
      BY <1>3, <2>2
    <3> HIDE DEF y
    <3>2. y \in ServerWorkers
      BY <3>1 DEF ServerGoesOn, Calm
    <3>3. ServerGoesOn(y, w')
      BY <3>1, <3>2, ServerReceives
    <3> QED BY <1>2, <3>1, <3>3, ServerChain
  <2> QED BY <1>4, <2>1, <2>2
<1> QED BY <1>1, <1>5, ServerQuietHandler DEF x

LEMMA ServerDeadline ==
  ASSUME ServerInv, S!DdlStart \/ S!DdlWake, UNCHANGED <<up, upRead, down>>
  PROVE  ServerInv'
<1> DEFINE x == S!Rest
           y == S!GoTo(x, "D", "done")
<1>1. w.ready # <<>> /\ Head(w.ready).to = "D"
  BY DEF S!DdlStart, S!DdlWake, S!Resumes
<1>2. x \in ServerWorkers
  BY <1>1, ServerPops
<1>3. ServerGoesOn(x, y)
  BY <1>2, ServerMoves DEF ServerPcs
<1>4. w' \in {S!AwaitDdl(x), y, S!TryStop(y)}
  BY DEF S!DdlStart, S!DdlWake
<1> HIDE DEF x, y
<1>5. ServerGoesOn(y, S!TryStop(y))
  BY <1>3, ServerStops DEF ServerGoesOn, Calm
<1>6. ServerGoesOn(x, w')
  BY <1>2, <1>3, <1>4, <1>5, ServerAwaits, ServerChain
<1> QED BY <1>1, <1>6, ServerQuietHandler DEF x

(* A pending read ends: it leaves the list, and who has a part may change. *)
ReadLeaves(x, y) ==
  /\ y \in ServerWorkers /\ y.ready = x.ready /\ y.reads = Tail(x.reads) /\ y.pc = x.pc
  /\ y.waiting = x.waiting /\ y.backlog = x.backlog
  /\ y.sendClosed = x.sendClosed /\ y.sock = x.sock

LEMMA ReadTaken ==
  ASSUME w \in ServerWorkers, w.reads # <<>>
  PROVE  /\ ReadLeaves(w, [w EXCEPT !.reads = Tail(@)])
         /\ \A t \in {"none", "R", "V", "lost"} :
              ReadLeaves(w, [w EXCEPT !.reads = Tail(@), !.torn = t])
<1>1. Tail(w.reads) \in Seq({"R", "V"})
  BY PopSeq DEF ServerWorkers
<1> QED BY <1>1 DEF ServerWorkers, ReadLeaves

LEMMA ReadEnds ==
  ASSUME w \in ServerWorkers, w.reads # <<>>, NEW got \in Reply, got # S!Ok,
         NEW x, ReadLeaves(w, x), NEW y, y = S!Post(x, Head(w.reads), got)
  PROVE  /\ Calm(w, y)
         /\ Brings(y, "confirmed") => Brings(w, "confirmed") \/ got = <<"confirmed", "body">>
<1> DEFINE a == Head(w.reads)
<1>1. w.reads \in Seq({"R", "V"})
  BY DEF ServerWorkers
<1>2. /\ a \in {"R", "V"} /\ a = w.reads[1] /\ 1 \in 1..Len(w.reads)
      /\ Tail(w.reads) \in Seq({"R", "V"}) /\ Len(w.reads) \in Nat
      /\ \A i \in 1..Len(Tail(w.reads)) :
           i + 1 \in 1..Len(w.reads) /\ Tail(w.reads)[i] = w.reads[i + 1]
  BY <1>1, PopSeq
<1>3. /\ x \in ServerWorkers /\ x.ready = w.ready /\ x.reads = Tail(w.reads) /\ x.pc = w.pc
      /\ x.waiting = w.waiting /\ x.backlog = w.backlog
      /\ x.sendClosed = w.sendClosed /\ x.sock = w.sock
  BY DEF ReadLeaves
<1>4. y = S!Post(x, a, got)
  OBVIOUS
<1> HIDE DEF a
<1>5. MayFail(x) => MayFail(w)
  BY <1>2, <1>3 DEF MayFail
<1>6. a = "V" => MayFail(w)
  BY <1>2 DEF MayFail
<1>7. S!Handler(a, got) \in ServerHandlers
  BY <1>2 DEF S!Handler, ServerHandlers
<1>8. /\ y \in ServerWorkers /\ Len(y.ready) = Len(x.ready) + 1 /\ Len(x.ready) \in Nat
      /\ \A i \in 1..Len(x.ready) : y.ready[i] = x.ready[i]
      /\ y.ready[Len(x.ready) + 1] = S!Handler(a, got)
      /\ \A i \in 1..Len(y.ready) : i \in 1..Len(x.ready) \/ i = Len(x.ready) + 1
      /\ y.pc = x.pc /\ y.reads = x.reads /\ y.waiting = x.waiting
      /\ y.backlog = x.backlog /\ y.sendClosed = x.sendClosed /\ y.sock = x.sock
      /\ got # <<"confirmed", "body">> /\ Brings(y, "confirmed") => Brings(x, "confirmed")
  BY <1>3, <1>4, <1>7, ServerPosts
<1>9. Plain(w, S!Handler(a, got))
  BY <1>2, <1>6, HandlerParts DEF Plain
<1>10. \A i \in 1..Len(y.ready) :
         IF i <= Len(w.ready) THEN y.ready[i] = w.ready[i] ELSE Plain(w, y.ready[i])
  BY <1>3, <1>8, <1>9
<1>11. MayFail(y) => MayFail(w)
  BY <1>5, <1>8 DEF MayFail
<1>12. Calm(w, y)
  BY <1>3, <1>8, <1>10, <1>11 DEF Calm
<1>13. Brings(x, "confirmed") => Brings(w, "confirmed")
  BY <1>3 DEF Brings
<1> QED BY <1>8, <1>12, <1>13

LEMMA ServerHears ==
  ASSUME StreamsOK, ServerInv, S!ReadCompletes
  PROVE  ServerInv' /\ UNCHANGED <<up, down>> /\ upRead' \in 0..Len(up)
<1>1. /\ w.reads # <<>> /\ upRead < Len(up) /\ upRead' = upRead + 1 /\ UNCHANGED <<up, down>>
  BY DEF S!ReadCompletes
<1>2. upRead + 1 \in 1..Len(up) /\ up[upRead + 1] \in Chunk /\ upRead \in Nat
      /\ upRead' \in 0..Len(up)
  BY <1>1 DEF StreamsOK
<1>3. PICK got \in {up[upRead + 1], S!Torn}, t \in {"none", "lost"} :
        w' = S!Post([w EXCEPT !.reads = Tail(@), !.torn = t], Head(w.reads), got)
  BY DEF S!ReadCompletes
<1>4. /\ got \in Reply /\ got # S!Ok
      /\ got = <<"confirmed", "body">> => up[upRead + 1] = <<"confirmed", "body">>
  BY <1>2 DEF Chunk, Reply, S!Ok, S!Torn
<1>5. w \in ServerWorkers /\ InPlace(w)
  BY DEF ServerInv
<1>6. /\ Calm(w, w')
      /\ Brings(w', "confirmed") => Brings(w, "confirmed") \/ got = <<"confirmed", "body">>
  <2> DEFINE x == [w EXCEPT !.reads = Tail(@), !.torn = t]
  <2>1. ReadLeaves(w, x) /\ w' = S!Post(x, Head(w.reads), got)
    BY <1>1, <1>3, <1>5, ReadTaken
  <2> HIDE DEF x
  <2> QED BY <1>1, <1>4, <1>5, <2>1, ReadEnds
<1>7. SentBy("confirmed", up, upRead) => SentBy("confirmed", up, upRead')
  BY <1>1, <1>2, ReadMore DEF StreamsOK
<1>8. got = <<"confirmed", "body">> => SentBy("confirmed", up, upRead')
  BY <1>1, <1>2, <1>4 DEF SentBy
<1>9. InPlace(w') /\ (Silent(w) => Silent(w'))
  BY <1>5, <1>6, CalmKeeps
<1>10. /\ w' \in ServerWorkers /\ w'.sock \in {w.sock, "closed"}
       /\ w'.pc["V"] = w.pc["V"]
  BY <1>6 DEF Calm
<1>11. ServerInv'
  BY <1>1, <1>6, <1>7, <1>8, <1>9, <1>10 DEF ServerInv, ServerKnows
<1> QED BY <1>1, <1>2, <1>11

LEMMA ServerOutside ==
  ASSUME ServerInv, S!ReadPart \/ S!ReadFails \/ S!DdlExpires \/ S!StopWorker \/ S!Destroyed
  PROVE  ServerInv' /\ UNCHANGED <<up, upRead, down>>
<1>1. UNCHANGED <<up, upRead, down>>
  BY DEF S!ReadPart, S!ReadFails, S!DdlExpires, S!StopWorker, S!Destroyed
<1>2. w \in ServerWorkers /\ InPlace(w)
  BY DEF ServerInv
<1>3. ServerGoesOn(w, w')
  <2>1. CASE S!ReadFails
    <3>1. /\ w.reads # <<>> /\ S!Error # <<"confirmed", "body">>
          /\ w' = S!Post([w EXCEPT !.reads = Tail(@)], Head(w.reads), S!Error)
      BY <2>1 DEF S!ReadFails, S!Error
    <3>2. ReadLeaves(w, [w EXCEPT !.reads = Tail(@)])
      BY <1>2, <3>1, ReadTaken
    <3> QED BY <1>2, <3>1, <3>2, ReadEnds, PlainReplies DEF ServerGoesOn
  <2>5. CASE S!ReadPart
    <3> DEFINE a == Head(w.reads)
    <3>1. /\ w.reads # <<>> /\ a \in {"R", "V"}
          /\ w' = S!Post([w EXCEPT !.reads = Tail(@), !.torn = a], a, S!Part)
      BY <1>2, <2>5, PopSeq DEF S!ReadPart, ServerWorkers
    <3>2. ReadLeaves(w, [w EXCEPT !.reads = Tail(@), !.torn = a])
      BY <1>2, <3>1, ReadTaken
    <3>3. S!Part \in Reply /\ S!Part \notin {S!Ok, <<"confirmed", "body">>}
      BY DEF S!Part, S!Ok, Reply
    <3> QED BY <1>2, <3>1, <3>2, <3>3, ReadEnds DEF ServerGoesOn
  <2>2. CASE S!DdlExpires
    BY <1>2, <2>2, ServerSetsDdl DEF S!DdlExpires
  <2>3. CASE S!StopWorker
    BY <1>2, <2>3, ServerStops DEF S!StopWorker
  <2>4. CASE S!Destroyed
    <3>1. /\ w' \in ServerWorkers /\ w'.ready = w.ready /\ w'.reads = w.reads /\ w'.pc = w.pc
          /\ w'.waiting = w.waiting /\ w'.backlog = w.backlog
          /\ w'.sendClosed = w.sendClosed /\ w'.sock = "closed"
      BY <1>2, <2>4 DEF S!Destroyed, ServerWorkers
    <3> QED BY <1>2, <3>1, ServerSame DEF MayFail
  <2> QED BY <2>1, <2>2, <2>3, <2>4, <2>5
<1> QED BY <1>1, <1>2, <1>3, ServerQuiet
-----------------------------------------------------------------------------
(* The steps of send_msgs.                                                 *)

DownKept ==
  down' \in Seq(Chunk) /\ Goes(down, down') /\ LastBefore("visit", down')

LEMMA DownStays ==
  ASSUME StreamsOK, LastBefore("visit", down), down' = down
  PROVE  DownKept
<1>1. Goes(down, down)
  BY DEF StreamsOK, Goes
<1> QED BY <1>1 DEF DownKept, StreamsOK

(* send_msgs goes from one place to the next while nothing is with it.     *)
LEMMA SendMoves ==
  ASSUME NEW x \in ServerWorkers, InPlace(x), NoSendTurn(x),
         NEW l \in {"getting", "sending", "done"}
  PROVE  LET y == S!GoTo(x, "S", l) IN
           /\ y \in ServerWorkers /\ InPlace(y) /\ NoSendTurn(y) /\ y.ready = x.ready
           /\ y.pc["S"] = l /\ y.pc["V"] = x.pc["V"]
           /\ y.sendClosed = x.sendClosed /\ y.sock = x.sock
<1> DEFINE y == S!GoTo(x, "S", l)
<1>1. /\ y \in ServerWorkers /\ y.ready = x.ready /\ y.reads = x.reads
      /\ y.pc["S"] = l /\ y.pc["V"] = x.pc["V"]
      /\ y.waiting = x.waiting /\ y.backlog = x.backlog
      /\ y.sendClosed = x.sendClosed /\ y.sock = x.sock
  BY ServerMoves DEF ServerPcs
<1> HIDE DEF y
<1>2. NoSendTurn(y)
  BY <1>1 DEF NoSendTurn
<1>3. SendInPlace(y)
  BY <1>2 DEF NoSendTurn, SendInPlace, SendTurn
<1>4. VisitInPlace(y)
  BY <1>1 DEF InPlace, VisitInPlace, NoVisitTurn, Backlogged, MayFail
<1>5. VisitFollows(y) /\ ClosedQueue(y)
  BY <1>1 DEF InPlace, VisitFollows, ClosedQueue, NoMessage
<1> QED BY <1>1, <1>2, <1>3, <1>4, <1>5 DEF InPlace, y

(* The one handler that takes it on is posted.                             *)
LEMMA SendPosts ==
  ASSUME NEW x \in ServerWorkers, InPlace(x), NoSendTurn(x),
         NEW a \in {"S", "wait"}, NEW got \in {S!Ok, S!Error},
         a = "wait" => x.pc["S"] = "getting" /\ got = S!Ok,
         a = "S" /\ x.pc["S"] = "getting" => got = S!Error
  PROVE  LET y == S!Post(x, a, got) IN
           /\ y \in ServerWorkers /\ InPlace(y) /\ NoMessage(y)
           /\ Len(x.ready) \in Nat /\ Len(y.ready) = Len(x.ready) + 1
           /\ \A i \in 1..Len(x.ready) : y.ready[i] = x.ready[i]
           /\ y.pc = x.pc /\ y.sendClosed = x.sendClosed /\ y.sock = x.sock
           /\ Brings(y, "confirmed") => Brings(x, "confirmed")
<1> DEFINE h == S!Handler(a, got)
           y == S!Post(x, a, got)
           n == Len(x.ready)
<1>1. h \in ServerHandlers /\ h.to = a /\ h.got = got /\ got \notin Message
      /\ got # <<"confirmed", "body">>
  <2>1. h \in ServerHandlers
    BY PlainHandlers
  <2> QED BY <2>1, HandlerParts, PlainReplies
<1>2. /\ y \in ServerWorkers /\ Len(y.ready) = n + 1 /\ n \in Nat
      /\ \A i \in 1..n : y.ready[i] = x.ready[i]
      /\ y.ready[n + 1] = h
      /\ \A i \in 1..Len(y.ready) : i \in 1..n \/ i = n + 1
      /\ y.pc = x.pc /\ y.reads = x.reads /\ y.waiting = x.waiting
      /\ y.backlog = x.backlog /\ y.sendClosed = x.sendClosed /\ y.sock = x.sock
      /\ Brings(y, "confirmed") => Brings(x, "confirmed")
  BY <1>1, ServerPosts
<1> HIDE DEF y, n, h
<1>3. h # SendVisit /\ h # VisitGoesOn /\ h # ProvideVisit /\ ~VisitTurn(h)
  <2>1. SendVisit.got \in Message /\ VisitGoesOn.to = "V" /\ ProvideVisit.to = "provide"
    BY HandlerParts DEF SendVisit, VisitGoesOn, ProvideVisit, Message
  <2> QED BY <1>1, <2>1 DEF VisitTurn
<1>4. \A i \in 1..n : ~SendTurn(y.ready[i]) /\ ~SendTurn(x.ready[i])
  BY <1>2 DEF NoSendTurn, n
<1>5. SendInPlace(y)
  <2>1. ~y.waiting
    BY <1>2 DEF NoSendTurn
  <2>2. ASSUME NEW i \in 1..Len(y.ready), SendTurn(y.ready[i]) PROVE i = n + 1
    BY <1>2, <1>4, <2>2
  <2>3. ASSUME NEW i \in 1..Len(y.ready), y.ready[i].to \in {"S", "wait"}
        PROVE  y.ready[i] = h
    BY <1>2, <2>2, <2>3 DEF SendTurn
  <2>4. S!Ok # S!Error
    BY PlainReplies
  <2> QED BY <1>1, <1>2, <2>1, <2>2, <2>3, <2>4 DEF SendInPlace
<1>6. NoMessage(y)
  BY <1>1, <1>2, <1>4 DEF NoMessage, SendTurn
<1>7. VisitInPlace(y)
  <2>1. (Backlogged(y) <=> Backlogged(x)) /\ (MayFail(y) <=> MayFail(x))
    BY <1>2 DEF Backlogged, MayFail
  <2>2. ASSUME NEW i \in 1..Len(y.ready), VisitTurn(y.ready[i]) \/ y.ready[i] = ProvideVisit
        PROVE  i \in 1..n /\ y.ready[i] = x.ready[i]
    BY <1>2, <1>3, <2>2
  <2>3. VisitInPlace(x)
    BY DEF InPlace
  <2> QED BY <1>2, <2>1, <2>2, <2>3 DEF VisitInPlace, NoVisitTurn, n
<1>8. VisitFollows(y)
  <2>1. \A i \in 1..Len(y.ready) :
          IF i <= n THEN y.ready[i] = x.ready[i]
          ELSE y.ready[i] # SendVisit /\ y.ready[i] # VisitGoesOn
    BY <1>2, <1>3
  <2> QED BY <1>2, <1>6, <2>1, FollowsGrows DEF InPlace, n
<1>9. ClosedQueue(y)
  BY <1>6 DEF ClosedQueue
<1> QED BY <1>2, <1>5, <1>6, <1>7, <1>8, <1>9 DEF InPlace, y, n

(* send_msgs has been taken from the head of the queue.                    *)
LEMMA SendPops ==
  ASSUME ServerInv, w.ready # <<>>, Head(w.ready).to = "S"
  PROVE  LET x == S!Rest IN
           /\ x \in ServerWorkers /\ InPlace(x) /\ NoSendTurn(x)
           /\ x.pc = w.pc /\ x.sendClosed = w.sendClosed /\ x.sock = w.sock
           /\ Silent(w) => Mute(x)
           /\ Brings(x, "confirmed") => Brings(w, "confirmed")
           /\ Head(w.ready) \in ServerHandlers /\ S!Got = Head(w.ready).got
           /\ S!Got \in {S!Ok, S!Error} \cup Message
<1>1. SendTurn(Head(w.ready)) /\ Head(w.ready) # VisitGoesOn
  BY HandlerParts DEF SendTurn, VisitGoesOn
<1>2. Head(w.ready) \in ServerHandlers /\ S!Got = Head(w.ready).got
  BY ServerPops
<1>3. S!Got \in {S!Ok, S!Error} \cup Message
  BY <1>2 DEF ServerHandlers
<1> QED BY <1>1, <1>2, <1>3, ServerPops

LEMMA ServerSending ==
  ASSUME ServerInv, S!SendStart \/ S!SendAborted \/ S!SendDone, UNCHANGED <<up, upRead, down>>
  PROVE  ServerInv'
<1> DEFINE x == S!Rest
           y == S!GoTo(x, "S", "getting")
           u == S!GoTo(x, "S", "done")
<1>1. w.ready # <<>> /\ Head(w.ready).to = "S"
  BY DEF S!SendStart, S!SendAborted, S!SendDone, S!Resumes
<1>2. /\ x \in ServerWorkers /\ InPlace(x) /\ NoSendTurn(x)
      /\ x.pc = w.pc /\ x.sendClosed = w.sendClosed /\ x.sock = w.sock
      /\ Silent(w) => Mute(x)
      /\ Brings(x, "confirmed") => Brings(w, "confirmed")
  BY <1>1, SendPops
<1>3. w' \in {S!Post(y, "wait", S!Ok), S!Throw(x, "S")}
  BY DEF S!SendStart, S!SendAborted, S!SendDone, S!Wait
<1> HIDE DEF x
<1>4. /\ y \in ServerWorkers /\ InPlace(y) /\ NoSendTurn(y) /\ y.ready = x.ready
      /\ y.pc["S"] = "getting" /\ y.pc["V"] = x.pc["V"]
      /\ y.sendClosed = x.sendClosed /\ y.sock = x.sock
  BY <1>2, SendMoves
<1>5. /\ u \in ServerWorkers /\ InPlace(u) /\ u.ready = x.ready
      /\ u.pc["V"] = x.pc["V"] /\ u.sendClosed = x.sendClosed /\ u.sock = x.sock
  BY <1>2, SendMoves
<1>6. ServerGoesOn(u, S!Throw(x, "S"))
  BY <1>2, ServerThrows
<1> HIDE DEF y, u
<1>7. CASE w' = S!Post(y, "wait", S!Ok)
  <2>1. /\ w' \in ServerWorkers /\ InPlace(w')
        /\ w'.pc = y.pc /\ w'.sendClosed = y.sendClosed /\ w'.sock = y.sock
        /\ Brings(w', "confirmed") => Brings(y, "confirmed")
    BY <1>4, <1>7, SendPosts
  <2>2. Brings(y, "confirmed") => Brings(w, "confirmed")
    BY <1>2, <1>4 DEF Brings
  <2>3. Silent(w) => Silent(w')
    BY <1>2, <1>4, <2>1 DEF Silent, Mute
  <2> QED BY <1>2, <1>4, <2>1, <2>2, <2>3 DEF ServerInv, ServerKnows
<1>8. CASE w' = S!Throw(x, "S")
  <2>1. Brings(u, "confirmed") => Brings(w, "confirmed")
    BY <1>2, <1>5 DEF Brings
  <2>2. Silent(w) => Silent(u)
    BY <1>2, <1>5 DEF Silent, Mute
  <2> QED BY <1>2, <1>5, <1>6, <1>8, <2>1, <2>2, ServerQuiet
<1> QED BY <1>3, <1>7, <1>8

(* Only here does the server send: never once the visit is sent.           *)
LEMMA ServerWrites ==
  ASSUME StreamsOK, ServerInv, LastBefore("visit", down), S!SendMsg, UNCHANGED <<up, upRead>>
  PROVE  ServerInv' /\ DownKept
<1> DEFINE x == S!Rest
           y == S!GoTo(x, "S", "sending")
           h == Head(w.ready)
<1>1. w.ready # <<>> /\ h.to = "S" /\ w.pc["S"] = "getting" /\ S!Got # S!Error
  BY DEF S!SendMsg, S!Resumes
<1>2. /\ x \in ServerWorkers /\ InPlace(x) /\ NoSendTurn(x)
      /\ x.pc = w.pc /\ x.sendClosed = w.sendClosed /\ x.sock = w.sock
      /\ Silent(w) => Mute(x)
      /\ Brings(x, "confirmed") => Brings(w, "confirmed")
      /\ h \in ServerHandlers /\ S!Got = h.got
      /\ S!Got \in {S!Ok, S!Error} \cup Message
  BY <1>1, SendPops
<1>3. /\ h = SendVisit => w.pc["V"] = "providing" /\ x.ready # <<>> /\ x.ready[1] = VisitGoesOn
      /\ h.got # S!Ok
      /\ h.got \in Message => ~NoMessage(w)
  BY <1>1, ServerPops
<1>4. S!Got \in Message /\ ~NoMessage(w)
  BY <1>1, <1>2, <1>3
<1>5. \/ /\ w.sock = "open" /\ down' = down \o S!Chunks(S!Got[1])
         /\ w' = S!Post(y, "S", S!Ok)
      \/ w' = S!Post(y, "S", S!Error) /\ down' = down
  BY DEF S!SendMsg
<1> HIDE DEF x
<1>6. /\ y \in ServerWorkers /\ InPlace(y) /\ NoSendTurn(y) /\ y.ready = x.ready
      /\ y.pc["S"] = "sending" /\ y.pc["V"] = x.pc["V"]
      /\ y.sendClosed = x.sendClosed /\ y.sock = x.sock
  BY <1>2, SendMoves
<1> HIDE DEF y, h
<1>7. /\ w' \in ServerWorkers /\ InPlace(w') /\ NoMessage(w')
      /\ Len(y.ready) \in Nat /\ Len(w'.ready) = Len(y.ready) + 1
      /\ \A i \in 1..Len(y.ready) : w'.ready[i] = y.ready[i]
      /\ w'.pc = y.pc /\ w'.sendClosed = y.sendClosed /\ w'.sock = y.sock
      /\ Brings(w', "confirmed") => Brings(y, "confirmed")
  <2>1. \A got \in {S!Ok, S!Error} :
          LET z == S!Post(y, "S", got) IN
           /\ z \in ServerWorkers /\ InPlace(z) /\ NoMessage(z)
           /\ Len(y.ready) \in Nat /\ Len(z.ready) = Len(y.ready) + 1
           /\ \A i \in 1..Len(y.ready) : z.ready[i] = y.ready[i]
           /\ z.pc = y.pc /\ z.sendClosed = y.sendClosed /\ z.sock = y.sock
           /\ Brings(z, "confirmed") => Brings(y, "confirmed")
    BY <1>6, SendPosts
  <2> QED BY <1>5, <2>1
<1>8. Brings(w', "confirmed") => Brings(w, "confirmed")
  BY <1>2, <1>6, <1>7 DEF Brings
<1>9. w'.pc["V"] = w.pc["V"] /\ w'.sock = w.sock /\ w'.sendClosed = w.sendClosed
  BY <1>2, <1>6, <1>7
<1>10. CASE down' = down
  <2>1. Silent(w) => Silent(w')
    BY <1>2, <1>9 DEF Silent, Mute
  <2> QED BY <1>7, <1>8, <1>9, <1>10, <2>1, DownStays DEF ServerInv, ServerKnows
<1>11. CASE w.sock = "open" /\ down' = down \o S!Chunks(S!Got[1])
  <2> DEFINE m == S!Got[1]
  <2>1. m \in {"pong", "visit"} /\ m \in Names /\ (m = "visit" => S!Got = <<"visit", "message">>)
    BY <1>4 DEF Message, Names
  <2>2. S!Chunks(m) = ChunksOf(m)
    BY DEF S!Chunks, ChunksOf
  <2>3. ~SentBy("visit", down, Len(down))
    <3>1. ClosedQueue(w)
      BY DEF ServerInv, InPlace
    <3>2. ~Silent(w)
      BY <1>4, <1>11, <3>1 DEF ClosedQueue, Silent, Mute
    <3> QED BY <3>2 DEF ServerInv, ServerKnows
  <2> HIDE DEF m
  <2>4. down' = down \o ChunksOf(m)
    BY <1>11, <2>2 DEF m
  <2>5. down \in Seq(Chunk)
    BY DEF StreamsOK
  <2>6. DownKept /\ (SentBy("visit", down', Len(down')) => m = "visit")
    BY <2>1, <2>3, <2>4, <2>5, SendChunks DEF DownKept
  <2>7. m = "visit" => Silent(w')
    <3> SUFFICES ASSUME m = "visit" PROVE Silent(w')
      OBVIOUS
    <3>1. h.to = "S" /\ h.got = <<"visit", "message">> /\ h \in ServerHandlers
      BY <1>1, <1>2, <2>1
    <3>2. h = SendVisit
      BY <3>1 DEF ServerHandlers, SendVisit, S!Handler
    <3>3. w.pc["V"] = "providing" /\ y.ready # <<>> /\ y.ready[1] = VisitGoesOn
      BY <1>3, <1>6, <3>2
    <3>4. y.ready \in Seq(ServerHandlers) /\ w'.ready \in Seq(ServerHandlers)
      BY <1>6, <1>7 DEF ServerWorkers
    <3>5. Len(y.ready) # 0 /\ Len(w'.ready) # 0
      BY <1>7, <3>3, <3>4, EmptySeq
    <3>6. w'.ready # <<>> /\ w'.ready[1] = VisitGoesOn
      BY <1>7, <3>3, <3>4, <3>5, EmptySeq
    <3> QED BY <1>7, <1>9, <3>3, <3>6 DEF Silent
  <2> QED BY <1>7, <1>8, <1>9, <2>6, <2>7 DEF ServerInv, ServerKnows
<1> QED BY <1>5, <1>10, <1>11
-----------------------------------------------------------------------------
(* The steps of visit().                                                   *)

LEMMA CalmTurns ==
  ASSUME NEW x \in ServerWorkers, NEW y, Calm(x, y), ~MayFail(x), NoVisitTurn(x)
  PROVE  NoVisitTurn(y) /\ ~MayFail(y)
<1>1. Len(x.ready) \in Nat
  BY DEF ServerWorkers
<1>2. ASSUME NEW i \in 1..Len(y.ready) PROVE ~VisitTurn(y.ready[i])
  <2>1. CASE i <= Len(x.ready)
    BY <1>1, <2>1 DEF Calm, NoVisitTurn
  <2>2. CASE ~(i <= Len(x.ready))
    BY <2>2, PlainTurns DEF Calm
  <2> QED BY <2>1, <2>2
<1> QED BY <1>2 DEF Calm, NoVisitTurn, Backlogged

LEMMA CalmMute ==
  ASSUME NEW x, NEW y, Calm(x, y), Mute(x)
  PROVE  Mute(y)
BY DEF Calm, Mute

(* visit() leaves the place where a turn of it is due for another one.     *)
LEMMA VisitMoves ==
  ASSUME NEW x \in ServerWorkers, InPlace(x), x.pc["V"] # "providing" \/ NoVisitTurn(x),
         NEW l \in {"length", "body", "failed", "confirmed", "handed"}
  PROVE  LET y == S!GoTo(x, "V", l) IN
           /\ y \in ServerWorkers /\ InPlace(y) /\ y.ready = x.ready /\ y.pc["V"] = l
           /\ y.sendClosed = x.sendClosed /\ y.sock = x.sock /\ (Mute(x) => Mute(y))
           /\ Brings(y, "confirmed") => Brings(x, "confirmed")
<1> DEFINE y == S!GoTo(x, "V", l)
<1>1. /\ y \in ServerWorkers /\ y.ready = x.ready /\ y.reads = x.reads
      /\ y.pc["V"] = l /\ y.pc["S"] = x.pc["S"]
      /\ y.waiting = x.waiting /\ y.backlog = x.backlog
      /\ y.sendClosed = x.sendClosed /\ y.sock = x.sock
  BY ServerMoves DEF ServerPcs
<1> HIDE DEF y
<1>2. ~Backlogged(x) /\ \A i \in 1..Len(x.ready) : x.ready[i] # ProvideVisit
  BY DEF InPlace, VisitInPlace, NoVisitTurn, VisitTurn
<1>3. \A i \in 1..Len(x.ready) : x.ready[i] # SendVisit
  <2> SUFFICES ASSUME NEW i \in 1..Len(x.ready), x.ready[i] = SendVisit PROVE FALSE
    OBVIOUS
  <2>1. x.pc["V"] = "providing" /\ i < Len(x.ready) /\ x.ready[i + 1] = VisitGoesOn
    BY DEF InPlace, VisitFollows
  <2>2. i + 1 \in 1..Len(x.ready)
    BY <2>1 DEF ServerWorkers
  <2>3. VisitTurn(x.ready[i + 1])
    BY <2>1, HandlerParts DEF VisitTurn, VisitGoesOn
  <2> QED BY <2>1, <2>2, <2>3 DEF NoVisitTurn
<1>4. SendInPlace(y)
  BY <1>1 DEF InPlace, SendInPlace
<1>5. VisitInPlace(y)
  BY <1>1, <1>2 DEF VisitInPlace, Backlogged
<1>6. VisitFollows(y) /\ ClosedQueue(y)
  BY <1>1, <1>3 DEF InPlace, VisitFollows, ClosedQueue, NoMessage
<1> QED BY <1>1, <1>4, <1>5, <1>6 DEF InPlace, Mute, Brings, y

LEMMA VisitSets ==
  ASSUME NEW x \in ServerWorkers, InPlace(x), x.pc["V"] \in {"none", "start"}, NoVisitTurn(x),
         NEW l \in {"start", "providing"}
  PROVE  LET y == S!GoTo(x, "V", l) IN
           /\ y \in ServerWorkers /\ InPlace(y) /\ NoVisitTurn(y) /\ y.pc["V"] = l
           /\ y.sendClosed = x.sendClosed /\ y.sock = x.sock /\ (Mute(x) => Mute(y))
           /\ Brings(y, "confirmed") => Brings(x, "confirmed")
<1> DEFINE y == S!GoTo(x, "V", l)
<1>1. /\ y \in ServerWorkers /\ y.ready = x.ready /\ y.reads = x.reads
      /\ y.pc["V"] = l /\ y.pc["S"] = x.pc["S"]
      /\ y.waiting = x.waiting /\ y.backlog = x.backlog
      /\ y.sendClosed = x.sendClosed /\ y.sock = x.sock
  BY ServerMoves DEF ServerPcs
<1> HIDE DEF y
<1>2. NoVisitTurn(y)
  BY <1>1 DEF NoVisitTurn, Backlogged
<1>3. SendInPlace(y)
  BY <1>1 DEF InPlace, SendInPlace
<1>4. ~MayFail(y)
  BY <1>1 DEF InPlace, VisitInPlace, MayFail
<1>5. VisitInPlace(y)
  <2>1. \A j \in 1..Len(y.backlog) : y.backlog[j][1] # "V"
    BY <1>2 DEF NoVisitTurn, Backlogged
  <2> QED BY <1>1, <1>2, <1>4, <2>1 DEF VisitInPlace, NoVisitTurn, VisitTurn
<1>6. VisitFollows(y)
  <2>1. \A i \in 1..Len(x.ready) : x.ready[i] # SendVisit
    BY DEF InPlace, VisitFollows
  <2>2. \A i \in 1..Len(x.ready) : x.ready[i] # VisitGoesOn
    BY HandlerParts DEF NoVisitTurn, VisitTurn, VisitGoesOn
  <2> QED BY <1>1, <2>1, <2>2 DEF VisitFollows
<1>7. ClosedQueue(y)
  BY <1>1 DEF InPlace, ClosedQueue, NoMessage
<1> QED BY <1>1, <1>2, <1>3, <1>5, <1>6, <1>7 DEF InPlace, Mute, Brings, y

(* The one handler that takes visit() on is posted.                        *)
LEMMA VisitPosts ==
  ASSUME NEW x \in ServerWorkers, InPlace(x), NoVisitTurn(x),
         x.pc["V"] \in {"start", "providing"}, NEW a, NEW got,
         \/ a = "V" /\ got = S!Error
         \/ a = "V" /\ got = S!Ok /\ x.pc["V"] = "start"
         \/ a = "provide" /\ got = <<"V", "visit">> /\ x.pc["V"] = "providing"
  PROVE  LET y == S!Post(x, a, got) IN
           /\ y \in ServerWorkers /\ InPlace(y) /\ y.pc = x.pc
           /\ y.sendClosed = x.sendClosed /\ y.sock = x.sock /\ (Mute(x) => Mute(y))
           /\ Brings(y, "confirmed") => Brings(x, "confirmed")
<1> DEFINE h == S!Handler(a, got)
           y == S!Post(x, a, got)
           n == Len(x.ready)
<1>1. h \in ServerHandlers /\ h.to = a /\ h.got = got /\ got # <<"confirmed", "body">>
  BY PlainHandlers, HandlerParts, PlainReplies DEF Provided
<1>2. /\ y \in ServerWorkers /\ Len(y.ready) = n + 1 /\ n \in Nat
      /\ \A i \in 1..n : y.ready[i] = x.ready[i]
      /\ y.ready[n + 1] = h
      /\ \A i \in 1..Len(y.ready) : i \in 1..n \/ i = n + 1
      /\ y.pc = x.pc /\ y.reads = x.reads /\ y.waiting = x.waiting
      /\ y.backlog = x.backlog /\ y.sendClosed = x.sendClosed /\ y.sock = x.sock
      /\ Brings(y, "confirmed") => Brings(x, "confirmed")
  BY <1>1, ServerPosts
<1>3. /\ ~SendTurn(h) /\ h # SendVisit /\ h.to # "S"
      /\ h = VisitGoesOn => x.pc["V"] # "providing"
      /\ h = ProvideVisit => x.pc["V"] = "providing"
  <2>1. SendVisit.to = "S" /\ VisitGoesOn.to = "V" /\ VisitGoesOn.got = S!Ok
        /\ ProvideVisit.to = "provide"
    BY HandlerParts DEF SendVisit, VisitGoesOn, ProvideVisit
  <2>2. S!Ok # S!Error
    BY PlainReplies
  <2> QED BY <1>1, <2>1, <2>2 DEF SendTurn
<1> HIDE DEF y, n, h
<1>4. SendInPlace(y)
  <2>1. ASSUME NEW i \in 1..Len(y.ready), SendTurn(y.ready[i])
        PROVE  i \in 1..n /\ y.ready[i] = x.ready[i]
    BY <1>2, <1>3, <2>1
  <2> QED BY <1>2, <2>1 DEF InPlace, SendInPlace, SendTurn, n
<1>5. VisitInPlace(y)
  <2>1. ~MayFail(y) /\ ~Backlogged(y)
    BY <1>2 DEF InPlace, VisitInPlace, MayFail, NoVisitTurn, Backlogged
  <2>2. ASSUME NEW i \in 1..Len(y.ready), VisitTurn(y.ready[i]) PROVE i = n + 1
    BY <1>2, <2>2 DEF NoVisitTurn, n
  <2>3. ASSUME NEW i \in 1..Len(y.ready), y.ready[i] = ProvideVisit PROVE y.pc["V"] = "providing"
    <3>1. i = n + 1
      BY <2>2, <2>3 DEF VisitTurn
    <3> QED BY <1>2, <1>3, <2>3, <3>1
  <2>4. \A j \in 1..Len(y.backlog) : y.backlog[j][1] # "V"
    BY <2>1 DEF Backlogged
  <2> QED BY <1>2, <2>1, <2>2, <2>3, <2>4 DEF VisitInPlace
<1>6. NoMessage(x) => NoMessage(y)
  BY <1>2, <1>3 DEF NoMessage, n
<1>7. VisitFollows(y)
  <2>1. \A i \in 1..Len(y.ready) :
          IF i <= n THEN y.ready[i] = x.ready[i]
          ELSE y.ready[i] # SendVisit /\ (y.ready[i] = VisitGoesOn => y.pc["V"] # "providing")
    BY <1>2, <1>3
  <2> QED BY <1>2, <1>6, <2>1, FollowsGrows DEF InPlace, n
<1>8. ClosedQueue(y)
  BY <1>2, <1>6 DEF InPlace, ClosedQueue
<1> QED BY <1>2, <1>4, <1>5, <1>7, <1>8 DEF InPlace, Mute, y
(* While visit() is not over, what it knows rests on its place alone.      *)
LEMMA VisitQuiet ==
  ASSUME ServerInv, NEW x \in ServerWorkers, InPlace(x), Silent(w) => Silent(x),
         x.pc["V"] \notin {"confirmed", "handed"}, x.sock # "moved",
         Brings(x, "confirmed") => Brings(w, "confirmed"),
         ServerGoesOn(x, w'), UNCHANGED <<up, upRead, down>>
  PROVE  ServerInv'
<1>1. InPlace(w') /\ (Silent(w) => Silent(w'))
  BY CalmKeeps DEF ServerGoesOn
<1>2. /\ w' \in ServerWorkers /\ w'.sock # "moved" /\ w'.pc["V"] = x.pc["V"]
      /\ Brings(w', "confirmed") => Brings(w, "confirmed")
  BY DEF ServerGoesOn, Calm
<1> QED BY <1>1, <1>2 DEF ServerInv, ServerKnows

LEMMA VisitPops ==
  ASSUME ServerInv, w.ready # <<>>, Head(w.ready).to = "V"
  PROVE  LET x == S!Rest IN
           /\ x \in ServerWorkers /\ InPlace(x) /\ x.pc = w.pc
           /\ x.sendClosed = w.sendClosed /\ x.sock = w.sock
           /\ Brings(x, "confirmed") => Brings(w, "confirmed")
           /\ S!Got = <<"confirmed", "body">> => Brings(w, "confirmed")
           /\ S!Got \in Reply /\ (S!Got[2] = "length" => S!Got[1] \in Names)
           /\ w.pc["V"] \in {"start", "providing"} => NoVisitTurn(x)
           /\ Silent(w) /\ ~(S!Got = S!Ok /\ w.pc["V"] = "providing") => Mute(x)
           /\ S!Got = S!Ok /\ w.pc["V"] = "providing" => NoMessage(x)
<1> DEFINE h == Head(w.ready)
           x == S!Rest
<1>1. /\ x \in ServerWorkers /\ InPlace(x) /\ h \in ServerHandlers /\ S!Got = h.got
      /\ x.pc = w.pc /\ x.sendClosed = w.sendClosed /\ x.sock = w.sock
      /\ Brings(x, "confirmed") => Brings(w, "confirmed")
      /\ h.got = <<"confirmed", "body">> => Brings(w, "confirmed")
      /\ Silent(w) /\ ~(h = VisitGoesOn /\ w.pc["V"] = "providing") => Mute(x)
      /\ w.pc["V"] \in {"start", "providing"} /\ VisitTurn(h) => NoVisitTurn(x)
      /\ h = VisitGoesOn /\ w.pc["V"] = "providing" => NoMessage(x)
  BY ServerPops
<1>2. VisitTurn(h)
  BY DEF VisitTurn
<1> HIDE DEF h, x
<1>3. h.to = "V" /\ (h.got[2] = "length" => h.got[1] \in Names)
  BY <1>1, LengthNames DEF h
<1>4. h.got \in Reply /\ (h = VisitGoesOn <=> h.got = S!Ok)
  BY <1>1, <1>3 DEF ServerHandlers, VisitGoesOn, S!Handler
<1> QED BY <1>1, <1>2, <1>3, <1>4 DEF x

LEMMA VisitBegins ==
  ASSUME ServerInv, S!VisitStart, UNCHANGED <<up, upRead, down>>
  PROVE  ServerInv'
<1> DEFINE x == S!Rest
           v == [x EXCEPT !.visited = TRUE]
           r == S!CancelReads(v)
           d == S!SetDdl(r)
           y == S!GoTo(d, "V", "providing")
           f == S!GoTo(v, "V", "failed")
<1>1. w.ready # <<>> /\ Head(w.ready).to = "V" /\ w.pc["V"] = "start"
  BY DEF S!VisitStart, S!Resumes
<1>2. /\ x \in ServerWorkers /\ InPlace(x) /\ x.pc = w.pc /\ NoVisitTurn(x)
      /\ x.sock = w.sock /\ (Silent(w) => Mute(x))
      /\ Brings(x, "confirmed") => Brings(w, "confirmed")
  BY <1>1, VisitPops
<1>3. w' = S!Post(y, "provide", <<"V", "visit">>) \/ w' = f
  BY DEF S!VisitStart, S!Provide
<1> HIDE DEF x
<1>4. ServerGoesOn(x, v)
  <2>1. /\ v \in ServerWorkers /\ v.ready = x.ready /\ v.reads = x.reads /\ v.pc = x.pc
        /\ v.waiting = x.waiting /\ v.backlog = x.backlog
        /\ v.sendClosed = x.sendClosed /\ v.sock = x.sock
    BY <1>2 DEF ServerWorkers
  <2> HIDE DEF v
  <2> QED BY <1>2, <2>1, ServerSame DEF MayFail
<1> HIDE DEF v
<1>5. v \in ServerWorkers
  BY <1>4 DEF ServerGoesOn, Calm
<1>6. ServerGoesOn(v, r)
  BY <1>5, ServerCancels
<1> HIDE DEF r
<1>7. ServerGoesOn(r, d)
  BY <1>6, ServerSetsDdl DEF S!SetDdl, ServerGoesOn, Calm
<1> HIDE DEF d
<1>8. ServerGoesOn(x, d)
  BY <1>2, <1>4, <1>6, <1>7, ServerChain
<1>9. ~MayFail(x)
  BY <1>1, <1>2 DEF InPlace, VisitInPlace
<1>10. ASSUME NEW u, u \in {d, v}
       PROVE  /\ u \in ServerWorkers /\ InPlace(u) /\ NoVisitTurn(u) /\ u.pc["V"] = "start"
              /\ Silent(w) => Mute(u)
              /\ u.sock \in {x.sock, "closed"}
              /\ Brings(u, "confirmed") => Brings(w, "confirmed")
  <2>1. ServerGoesOn(x, u)
    BY <1>4, <1>8, <1>10
  <2>2. u \in ServerWorkers /\ u.pc["V"] = "start" /\ u.sock \in {x.sock, "closed"}
    BY <1>1, <1>2, <2>1 DEF ServerGoesOn, Calm
  <2>3. InPlace(u) /\ NoVisitTurn(u)
    BY <1>2, <1>9, <2>1, CalmKeeps, CalmTurns DEF ServerGoesOn
  <2>4. Silent(w) => Mute(u)
    BY <1>2, <2>1, CalmMute DEF ServerGoesOn
  <2> QED BY <1>2, <2>1, <2>2, <2>3, <2>4 DEF ServerGoesOn
<1>11. w.sock # "moved"
  BY <1>1 DEF ServerInv, ServerKnows
<1>12. ASSUME NEW u \in ServerWorkers, InPlace(u), u = w', Silent(w) => Mute(u),
              u.sock # "moved", u.pc["V"] \notin {"confirmed", "handed"},
              Brings(u, "confirmed") => Brings(w, "confirmed")
       PROVE  ServerInv'
  <2>1. ServerGoesOn(u, u) /\ (Silent(w) => Silent(u))
    BY <1>12, ServerSame DEF Silent
  <2> QED BY <1>12, <2>1, VisitQuiet
<1>13. CASE w' = S!Post(y, "provide", <<"V", "visit">>)
  <2>1. /\ y \in ServerWorkers /\ InPlace(y) /\ NoVisitTurn(y) /\ y.pc["V"] = "providing"
        /\ y.sock = d.sock /\ (Mute(d) => Mute(y))
        /\ Brings(y, "confirmed") => Brings(d, "confirmed")
    BY <1>10, VisitSets
  <2> HIDE DEF y
  <2>2. /\ w' \in ServerWorkers /\ InPlace(w') /\ w'.pc = y.pc
        /\ w'.sock = y.sock /\ (Mute(y) => Mute(w'))
        /\ Brings(w', "confirmed") => Brings(y, "confirmed")
    BY <1>13, <2>1, VisitPosts
  <2> QED BY <1>2, <1>10, <1>11, <1>12, <2>1, <2>2
<1>14. CASE w' = f
  <2>1. /\ f \in ServerWorkers /\ InPlace(f) /\ f.pc["V"] = "failed"
        /\ f.sock = v.sock /\ (Mute(v) => Mute(f))
        /\ Brings(f, "confirmed") => Brings(v, "confirmed")
    BY <1>10, VisitMoves
  <2> HIDE DEF f
  <2> QED BY <1>2, <1>10, <1>11, <1>12, <1>14, <2>1
<1> QED BY <1>3, <1>13, <1>14

(* to_send_ is closed when the visit has left send_msgs: nothing is left   *)
(* there to be sent behind it.                                             *)
LEMMA VisitCloses ==
  ASSUME ServerInv, S!VisitSent, UNCHANGED <<up, upRead, down>>
  PROVE  ServerInv'
<1> DEFINE x == S!Rest
           y == [x EXCEPT !.sendClosed = TRUE]
           u == S!Post(y, "drain", S!Ok)
           v == S!GoTo(u, "V", "length")
           f == S!GoTo(x, "V", "failed")
<1>1. w.ready # <<>> /\ Head(w.ready).to = "V" /\ w.pc["V"] = "providing"
  BY DEF S!VisitSent, S!Resumes
<1>2. /\ x \in ServerWorkers /\ InPlace(x) /\ x.pc = w.pc /\ NoVisitTurn(x)
      /\ x.sock = w.sock
      /\ Brings(x, "confirmed") => Brings(w, "confirmed")
      /\ Silent(w) /\ S!Got # S!Ok => Mute(x)
      /\ S!Got = S!Ok => NoMessage(x)
  BY <1>1, VisitPops
<1>3. \/ S!Got = S!Ok /\ w' = S!StartRead(u, "V", "length")
      \/ S!Got # S!Ok /\ w' = f
  BY DEF S!VisitSent, S!CloseSend
<1> HIDE DEF x
<1>4. w.sock # "moved"
  BY <1>1 DEF ServerInv, ServerKnows
<1>5. ~MayFail(x)
  BY <1>1, <1>2 DEF InPlace, VisitInPlace
<1>6. CASE S!Got = S!Ok /\ w' = S!StartRead(u, "V", "length")
  <2>1. /\ y \in ServerWorkers /\ y.ready = x.ready /\ y.reads = x.reads /\ y.pc = x.pc
        /\ y.waiting = x.waiting /\ y.backlog = x.backlog
        /\ y.sendClosed /\ y.sock = x.sock
    BY <1>2 DEF ServerWorkers
  <2> HIDE DEF y
  <2>2. InPlace(y)
    <3>1. ClosedQueue(y)
      BY <1>2, <1>6, <2>1 DEF ClosedQueue, NoMessage
    <3>2. SendInPlace(y)
      BY <1>2, <2>1 DEF InPlace, SendInPlace
    <3>3. VisitInPlace(y)
      BY <1>2, <2>1 DEF InPlace, VisitInPlace, MayFail, Backlogged, NoVisitTurn
    <3>4. VisitFollows(y)
      BY <1>2, <2>1 DEF InPlace, VisitFollows, NoMessage
    <3> QED BY <3>1, <3>2, <3>3, <3>4 DEF InPlace
  <2>3. NoVisitTurn(y) /\ ~MayFail(y) /\ Mute(y)
    BY <1>2, <1>5, <2>1 DEF NoVisitTurn, Backlogged, MayFail, Mute
  <2>4. ServerGoesOn(y, u)
    <3>1. Plain(y, S!Handler("drain", S!Ok))
      BY HandlerParts DEF Plain
    <3> QED BY <2>1, <3>1, ServerPostsPlain, PlainHandlers, PlainReplies
  <2> HIDE DEF u
  <2>5. u \in ServerWorkers /\ InPlace(u) /\ NoVisitTurn(u) /\ Mute(u)
    BY <2>1, <2>2, <2>3, <2>4, CalmKeeps, CalmTurns, CalmMute DEF ServerGoesOn, Calm
  <2>6. u.sock # "moved" /\ (Brings(u, "confirmed") => Brings(w, "confirmed"))
    BY <1>2, <1>4, <2>1, <2>4 DEF ServerGoesOn, Calm, Brings
  <2>7. /\ v \in ServerWorkers /\ InPlace(v) /\ v.pc["V"] = "length"
        /\ v.sock = u.sock /\ Mute(v)
        /\ Brings(v, "confirmed") => Brings(u, "confirmed")
    BY <2>5, VisitMoves
  <2>8. ServerGoesOn(v, w')
    BY <1>6, <2>5, ServerStartsRead
  <2> HIDE DEF v
  <2>9. Silent(v)
    BY <2>7 DEF Silent
  <2> QED BY <2>6, <2>7, <2>8, <2>9, VisitQuiet
<1>7. CASE S!Got # S!Ok /\ w' = f
  <2>1. /\ f \in ServerWorkers /\ InPlace(f) /\ f.pc["V"] = "failed"
        /\ f.sock = x.sock /\ (Mute(x) => Mute(f))
        /\ Brings(f, "confirmed") => Brings(x, "confirmed")
    BY <1>2, VisitMoves
  <2> HIDE DEF f
  <2>2. ServerGoesOn(f, f) /\ (Silent(w) => Silent(f))
    BY <1>2, <1>7, <2>1, ServerSame DEF Silent
  <2> QED BY <1>2, <1>4, <1>7, <2>1, <2>2, VisitQuiet
<1> QED BY <1>3, <1>6, <1>7

LEMMA VisitReceives ==
  ASSUME ServerInv, S!VisitLength \/ S!VisitBody, UNCHANGED <<up, upRead, down>>
  PROVE  ServerInv'
<1> DEFINE x == S!Rest
           q == [x EXCEPT !.confirmed = TRUE]
           o == S!GoTo(q, "V", "confirmed")
<1>1. w.ready # <<>> /\ Head(w.ready).to = "V" /\ w.pc["V"] \in {"length", "body"}
  BY DEF S!VisitLength, S!VisitBody, S!Resumes
<1>2. /\ x \in ServerWorkers /\ InPlace(x) /\ x.pc = w.pc /\ x.sock = w.sock
      /\ Brings(x, "confirmed") => Brings(w, "confirmed")
      /\ S!Got = <<"confirmed", "body">> => Brings(w, "confirmed")
      /\ S!Got[2] = "length" => S!Got[1] \in Names
      /\ Silent(w) => Mute(x)
  BY <1>1, VisitPops
<1>3. \/ w' = S!GoTo(x, "V", "failed")
      \/ \E l \in {"length", "body"} : w' = S!StartRead(x, "V", l)
      \/ \E m \in Names \cup {"none"}, l \in {"length", "body"} :
           w' = S!StartRead([x EXCEPT !.length.V = m], "V", l)
      \/ S!Got = <<"confirmed", "body">> /\ w' = S!WakeDdl([o EXCEPT !.ddl = "max"])
  BY <1>2 DEF S!VisitLength, S!VisitBody, S!ReadOn, S!CancelDdl
<1> HIDE DEF x
<1>4. w.sock # "moved"
  BY <1>1 DEF ServerInv, ServerKnows
(* From x by what visit() stores to y, by its move to z, and on to w'.     *)
<1>5. ASSUME NEW y, ServerGoesOn(x, y), NEW l \in {"length", "body", "failed", "confirmed"},
             ServerGoesOn(S!GoTo(y, "V", l), w')
      PROVE  /\ l # "confirmed" => ServerInv'
             /\ w' \in ServerWorkers /\ InPlace(w') /\ w'.sock # "moved"
             /\ Silent(w) => Silent(w')
  <2> DEFINE z == S!GoTo(y, "V", l)
  <2>1. /\ y \in ServerWorkers /\ InPlace(y) /\ y.pc["V"] # "providing"
        /\ Silent(w) => Mute(y)
        /\ y.sock # "moved" /\ (Brings(y, "confirmed") => Brings(w, "confirmed"))
    BY <1>1, <1>2, <1>4, <1>5, CalmKeeps, CalmMute DEF ServerGoesOn, Calm
  <2>2. /\ z \in ServerWorkers /\ InPlace(z) /\ z.pc["V"] = l
        /\ z.sock = y.sock /\ (Mute(y) => Mute(z))
        /\ Brings(z, "confirmed") => Brings(y, "confirmed")
    BY <2>1, VisitMoves
  <2>3. ServerGoesOn(z, w')
    BY <1>5
  <2> HIDE DEF z
  <2>4. Silent(w) => Silent(z)
    BY <2>1, <2>2 DEF Silent
  <2>5. InPlace(w') /\ (Silent(w) => Silent(w')) /\ w' \in ServerWorkers /\ w'.sock # "moved"
    BY <2>1, <2>2, <2>3, <2>4, CalmKeeps DEF ServerGoesOn, Calm
  <2>6. l # "confirmed" => ServerInv'
    BY <2>1, <2>2, <2>3, <2>4, VisitQuiet
  <2> QED BY <2>5, <2>6
<1>6. ServerGoesOn(x, x)
  BY <1>2, ServerSame
<1>7. CASE w' = S!GoTo(x, "V", "failed")
  <2>1. S!GoTo(x, "V", "failed") \in ServerWorkers
    BY <1>2, ServerMoves DEF ServerPcs
  <2>2. ServerGoesOn(S!GoTo(x, "V", "failed"), w')
    BY <1>7, <2>1, ServerSame
  <2> QED BY <1>5, <1>6, <2>2
<1>10. ASSUME NEW l \in {"length", "body"}, w' = S!StartRead(x, "V", l)
       PROVE  ServerInv'
  <2>1. ServerGoesOn(S!GoTo(x, "V", l), w')
    BY <1>2, <1>10, ServerStartsRead
  <2> QED BY <1>5, <1>6, <2>1
<1>8. ASSUME NEW m \in Names \cup {"none"}, NEW l \in {"length", "body"},
             w' = S!StartRead([x EXCEPT !.length.V = m], "V", l)
      PROVE  ServerInv'
  <2> DEFINE y == [x EXCEPT !.length.V = m]
  <2>1. ServerGoesOn(x, y)
    BY <1>2, ServerTakesLength
  <2>2. w' = S!StartRead(y, "V", l)
    BY <1>8
  <2> HIDE DEF y
  <2>3. ServerGoesOn(S!GoTo(y, "V", l), w')
    BY <2>1, <2>2, ServerStartsRead DEF ServerGoesOn, Calm
  <2> QED BY <1>5, <2>1, <2>3
<1>9. CASE S!Got = <<"confirmed", "body">> /\ w' = S!WakeDdl([o EXCEPT !.ddl = "max"])
  <2>1. ServerGoesOn(x, q)
    <3>1. /\ q \in ServerWorkers /\ q.ready = x.ready /\ q.reads = x.reads /\ q.pc = x.pc
          /\ q.waiting = x.waiting /\ q.backlog = x.backlog
          /\ q.sendClosed = x.sendClosed /\ q.sock = x.sock
      BY <1>2 DEF ServerWorkers
    <3> HIDE DEF q
    <3> QED BY <1>2, <3>1, ServerSame DEF MayFail
  <2> HIDE DEF q
  <2>2. o \in ServerWorkers
    BY <2>1, ServerMoves DEF ServerPcs, ServerGoesOn, Calm
  <2> HIDE DEF o
  <2>3. ServerGoesOn(o, w')
    BY <1>9, <2>2, ServerSetsDdl
  <2>4. w' \in ServerWorkers /\ InPlace(w') /\ w'.sock # "moved" /\ (Silent(w) => Silent(w'))
    BY <1>5, <2>1, <2>3 DEF o
  <2>5. SentBy("confirmed", up, upRead)
    BY <1>2, <1>9 DEF ServerInv, ServerKnows
  <2> QED BY <2>4, <2>5 DEF ServerInv, ServerKnows
<1> QED BY <1>3, <1>7, <1>8, <1>9, <1>10

LEMMA VisitOutside ==
  ASSUME ServerInv, S!VisitorComes \/ S!HandOver
  PROVE  ServerInv' /\ UNCHANGED <<up, upRead, down>>
<1>1. UNCHANGED <<up, upRead, down>>
  BY DEF S!VisitorComes, S!HandOver
<1>2. w \in ServerWorkers /\ InPlace(w)
  BY DEF ServerInv
<1>3. CASE S!VisitorComes
  <2> DEFINE y == S!GoTo(w, "V", "start")
  <2>1. w.pc["V"] = "none" /\ w' = S!Post(y, "V", S!Ok)
    BY <1>3 DEF S!VisitorComes
  <2>2. NoVisitTurn(w) /\ w.sock # "moved" /\ (Silent(w) => Mute(w))
    BY <1>2, <2>1 DEF ServerInv, ServerKnows, InPlace, VisitInPlace, Silent
  <2>3. /\ y \in ServerWorkers /\ InPlace(y) /\ NoVisitTurn(y) /\ y.pc["V"] = "start"
        /\ y.sock = w.sock /\ (Mute(w) => Mute(y))
        /\ Brings(y, "confirmed") => Brings(w, "confirmed")
    BY <1>2, <2>1, <2>2, VisitSets
  <2> HIDE DEF y
  <2>4. /\ w' \in ServerWorkers /\ InPlace(w') /\ w'.pc = y.pc
        /\ w'.sock = y.sock /\ (Mute(y) => Mute(w'))
        /\ Brings(w', "confirmed") => Brings(y, "confirmed")
    BY <2>1, <2>3, VisitPosts
  <2>5. ServerGoesOn(w', w') /\ (Silent(w) => Silent(w'))
    BY <2>2, <2>3, <2>4, ServerSame DEF Silent
  <2> QED BY <1>1, <2>2, <2>3, <2>4, <2>5, VisitQuiet
<1>4. CASE S!HandOver
  <2> DEFINE y == S!GoTo(w, "V", "handed")
  <2>1. w.pc["V"] = "confirmed" /\ w' = [y EXCEPT !.sock = "moved"]
    BY <1>4 DEF S!HandOver
  <2>2. /\ y \in ServerWorkers /\ InPlace(y) /\ y.pc["V"] = "handed"
        /\ Brings(y, "confirmed") => Brings(w, "confirmed")
    BY <1>2, <2>1, VisitMoves
  <2> HIDE DEF y
  <2>3. /\ w' \in ServerWorkers /\ w'.ready = y.ready /\ w'.reads = y.reads /\ w'.pc = y.pc
        /\ w'.waiting = y.waiting /\ w'.backlog = y.backlog
        /\ w'.sendClosed = y.sendClosed /\ w'.sock = "moved"
    BY <2>1, <2>2 DEF ServerWorkers
  <2>4. InPlace(w')
    <3>1. SendInPlace(w')
      BY <2>2, <2>3 DEF InPlace, SendInPlace
    <3>2. VisitInPlace(w')
      BY <2>2, <2>3 DEF InPlace, VisitInPlace, MayFail, Backlogged
    <3>3. VisitFollows(w') /\ ClosedQueue(w')
      BY <2>2, <2>3 DEF InPlace, VisitFollows, NoMessage, ClosedQueue
    <3> QED BY <3>1, <3>2, <3>3 DEF InPlace
  <2>5. Brings(w', "confirmed") => Brings(w, "confirmed")
    BY <2>2, <2>3 DEF Brings
  <2>6. Silent(w')
    BY <2>3 DEF Silent, Mute
  <2> QED BY <1>1, <2>1, <2>2, <2>3, <2>4, <2>5, <2>6 DEF ServerInv, ServerKnows
<1> QED BY <1>3, <1>4
-----------------------------------------------------------------------------
(* The lambdas of to_send_.                                                *)

(* What was provided goes to send_msgs, and right behind it its provider   *)
(* goes on.                                                                *)
LEMMA Delivers ==
  ASSUME NEW x \in ServerWorkers, InPlace(x), NoSendTurn(x), x.pc["S"] = "getting",
         ~x.sendClosed, NEW r \in Provided,
         x.pc["V"] = "providing" /\ 1 \in 1..Len(x.ready) => x.ready[1] # VisitGoesOn,
         r[1] = "V" => NoVisitTurn(x) /\ x.pc["V"] = "providing"
  PROVE  LET y == S!Post(S!Post(x, "S", <<r[2], "message">>), r[1], S!Ok) IN
           /\ y \in ServerWorkers /\ InPlace(y) /\ y.pc = x.pc
           /\ y.sendClosed = x.sendClosed /\ y.sock = x.sock
           /\ Brings(y, "confirmed") => Brings(x, "confirmed")
<1> DEFINE m == <<r[2], "message">>
           hs == S!Handler("S", m)
           hp == S!Handler(r[1], S!Ok)
           u == S!Post(x, "S", m)
           y == S!Post(u, r[1], S!Ok)
           n == Len(x.ready)
<1>1. /\ r[1] \in {"R", "V"} /\ m \in Message /\ hs \in ServerHandlers /\ hp \in ServerHandlers
      /\ m = <<"visit", "message">> => r[1] = "V"
      /\ r[1] = "V" => m = <<"visit", "message">>
      /\ m # <<"confirmed", "body">> /\ S!Ok # <<"confirmed", "body">> /\ m # S!Ok
  <2>1. r = <<"R", "pong">> \/ r = <<"V", "visit">>
    BY DEF Provided
  <2>2. m \in Message /\ r[1] \in {"R", "V"}
    BY <2>1 DEF Message
  <2>3. hs \in ServerHandlers /\ hp \in ServerHandlers
    BY <2>2, PlainHandlers
  <2> QED BY <2>1, <2>2, <2>3, PlainReplies DEF Message
<1>2. hs.to = "S" /\ hs.got = m /\ hp.to = r[1] /\ hp.got = S!Ok
  BY HandlerParts
<1>3. /\ hs = SendVisit => r[1] = "V"
      /\ r[1] = "V" => hs = SendVisit /\ hp = VisitGoesOn
      /\ hp = VisitGoesOn => r[1] = "V"
      /\ hs # VisitGoesOn /\ hp # SendVisit /\ hs # ProvideVisit /\ hp # ProvideVisit
  <2>1. /\ SendVisit.to = "S" /\ SendVisit.got = <<"visit", "message">>
        /\ VisitGoesOn.to = "V" /\ ProvideVisit.to = "provide"
    BY HandlerParts DEF SendVisit, VisitGoesOn, ProvideVisit
  <2>2. r[1] = "V" => hs = SendVisit /\ hp = VisitGoesOn
    BY <1>1 DEF SendVisit, VisitGoesOn
  <2> QED BY <1>1, <1>2, <2>1, <2>2
<1> HIDE DEF m
<1>4. /\ u \in ServerWorkers /\ Len(u.ready) = n + 1 /\ n \in Nat
      /\ \A i \in 1..n : u.ready[i] = x.ready[i]
      /\ u.ready[n + 1] = hs
      /\ u.pc = x.pc /\ u.reads = x.reads /\ u.waiting = x.waiting
      /\ u.backlog = x.backlog /\ u.sendClosed = x.sendClosed /\ u.sock = x.sock
      /\ Brings(u, "confirmed") => Brings(x, "confirmed")
  BY <1>1, ServerPosts
<1> HIDE DEF u, hs, hp
<1>5. /\ y \in ServerWorkers /\ Len(y.ready) = Len(u.ready) + 1
      /\ \A i \in 1..Len(u.ready) : y.ready[i] = u.ready[i]
      /\ y.ready[Len(u.ready) + 1] = hp
      /\ y.pc = u.pc /\ y.reads = u.reads /\ y.waiting = u.waiting
      /\ y.backlog = u.backlog /\ y.sendClosed = u.sendClosed /\ y.sock = u.sock
      /\ Brings(y, "confirmed") => Brings(u, "confirmed")
  BY <1>1, <1>4, ServerPosts DEF hp
<1> HIDE DEF y, n
<1>6. /\ y \in ServerWorkers /\ Len(y.ready) = n + 2
      /\ \A i \in 1..n : i \in 1..Len(y.ready) /\ y.ready[i] = x.ready[i]
      /\ y.ready[n + 1] = hs /\ y.ready[n + 2] = hp
      /\ \A i \in 1..Len(y.ready) : i \in 1..n \/ i = n + 1 \/ i = n + 2
      /\ y.pc = x.pc /\ y.reads = x.reads /\ y.waiting = x.waiting
      /\ y.backlog = x.backlog /\ y.sendClosed = x.sendClosed /\ y.sock = x.sock
      /\ Brings(y, "confirmed") => Brings(x, "confirmed")
  <2>1. \A i \in 1..n : i \in 1..Len(u.ready)
    BY <1>4
  <2>2. n + 1 \in 1..Len(u.ready) /\ Len(u.ready) + 1 = n + 2
    BY <1>4
  <2>3. \A i \in 1..(n + 2) : i \in 1..n \/ i = n + 1 \/ i = n + 2
    BY <1>4
  <2> QED BY <1>4, <1>5, <2>1, <2>2, <2>3
<1>7. \A i \in 1..n : /\ ~SendTurn(x.ready[i]) /\ x.ready[i].to # "S" /\ x.ready[i] # SendVisit
  BY HandlerParts DEF NoSendTurn, SendTurn, SendVisit, n
<1>8. SendInPlace(y)
  <2>1. ASSUME NEW i \in 1..Len(y.ready), SendTurn(y.ready[i]) PROVE i = n + 1
    BY <1>1, <1>2, <1>6, <1>7, <2>1 DEF SendTurn
  <2>2. ASSUME NEW i \in 1..Len(y.ready), y.ready[i].to \in {"S", "wait"} PROVE y.ready[i] = hs
    BY <1>6, <2>1, <2>2 DEF SendTurn
  <2>3. ~y.waiting
    BY <1>6 DEF NoSendTurn
  <2> QED BY <1>1, <1>2, <1>6, <2>1, <2>2, <2>3 DEF SendInPlace
<1>9. VisitInPlace(y)
  <2>1. (Backlogged(y) <=> Backlogged(x)) /\ (MayFail(y) <=> MayFail(x))
    BY <1>6 DEF Backlogged, MayFail
  <2>2. VisitInPlace(x)
    BY DEF InPlace
  <2>3. ASSUME NEW i \in 1..Len(y.ready), y.ready[i] = ProvideVisit
        PROVE  i \in 1..n /\ x.ready[i] = ProvideVisit
    BY <1>3, <1>6, <2>3
  <2>4. ASSUME NEW i \in 1..Len(y.ready), VisitTurn(y.ready[i])
        PROVE  IF r[1] = "V" THEN i = n + 2 ELSE i \in 1..n /\ VisitTurn(x.ready[i])
    <3>1. i \in 1..n \/ (r[1] = "V" /\ i = n + 2)
      BY <1>1, <1>2, <1>3, <1>6, <2>4 DEF VisitTurn
    <3> QED BY <1>6, <2>4, <3>1 DEF NoVisitTurn, n
  <2>5. CASE r[1] = "V"
    <3>1. ~Backlogged(y) /\ y.pc["V"] = "providing" /\ ~MayFail(y)
      BY <1>6, <2>1, <2>2, <2>5 DEF NoVisitTurn, VisitInPlace
    <3>2. \A j \in 1..Len(y.backlog) : y.backlog[j][1] # "V"
      BY <3>1 DEF Backlogged
    <3> QED BY <2>4, <2>5, <3>1, <3>2 DEF VisitInPlace
  <2>6. CASE r[1] # "V"
    BY <1>6, <2>1, <2>2, <2>3, <2>4, <2>6 DEF VisitInPlace, NoVisitTurn, n
  <2> QED BY <2>5, <2>6
<1>10. VisitFollows(y)
  <2>1. ASSUME NEW i \in 1..Len(y.ready), y.ready[i] = SendVisit
        PROVE  y.pc["V"] = "providing" /\ i < Len(y.ready) /\ y.ready[i + 1] = VisitGoesOn
    <3>1. i = n + 1
      BY <1>3, <1>6, <1>7, <2>1
    <3>2. i + 1 = n + 2 /\ i < n + 2
      BY <1>4, <3>1
    <3> QED BY <1>3, <1>6, <2>1, <3>1, <3>2
  <2>2. ASSUME NEW i \in 1..Len(y.ready), y.ready[i] = VisitGoesOn, y.pc["V"] = "providing"
        PROVE  IF i = 1 THEN NoMessage(y) ELSE y.ready[i - 1] = SendVisit
    <3>1. CASE i \in 1..n
      <4>1. x.ready[i] = VisitGoesOn /\ i # 1
        BY <1>6, <2>2, <3>1 DEF n
      <4>2. x.ready[i - 1] = SendVisit
        BY <1>6, <2>2, <3>1, <4>1 DEF InPlace, VisitFollows, n
      <4>3. i - 1 \in 1..n
        BY <1>4, <3>1, <4>1
      <4> QED BY <1>7, <4>2, <4>3
    <3>2. CASE i \notin 1..n
      <4>1. i = n + 2 /\ r[1] = "V"
        BY <1>3, <1>6, <2>2, <3>2
      <4>2. i # 1 /\ i - 1 = n + 1
        BY <1>4, <4>1
      <4> QED BY <1>3, <1>6, <4>1, <4>2
    <3> QED BY <3>1, <3>2
  <2> QED BY <2>1, <2>2 DEF VisitFollows
<1>11. ClosedQueue(y)
  BY <1>6 DEF ClosedQueue
<1> QED BY <1>6, <1>8, <1>9, <1>10, <1>11 DEF InPlace, y, u, m
LEMMA ServerSettles ==
  ASSUME ServerInv, w' \in ServerWorkers, InPlace(w'), Silent(w) => Silent(w'),
         w'.sock = w.sock, w'.pc["V"] = w.pc["V"],
         Brings(w', "confirmed") => Brings(w, "confirmed"), UNCHANGED <<up, upRead, down>>
  PROVE  ServerInv'
BY DEF ServerInv, ServerKnows

(* A lambda of to_send_ has been taken from the head of the queue.         *)
LEMMA QueuePops ==
  ASSUME ServerInv, w.ready # <<>>, Head(w.ready).to \in {"wait", "provide", "drain"}
  PROVE  LET x == S!Rest h == Head(w.ready) IN
           /\ x \in ServerWorkers /\ InPlace(x) /\ x.pc = w.pc
           /\ x.waiting = w.waiting /\ x.backlog = w.backlog
           /\ x.sendClosed = w.sendClosed /\ x.sock = w.sock
           /\ Brings(x, "confirmed") => Brings(w, "confirmed")
           /\ Silent(w) => Mute(x)
           /\ h.to = "wait" => NoSendTurn(x) /\ x.pc["S"] = "getting"
           /\ h.to = "provide" => S!Got \in Provided
           /\ h.to = "provide" /\ S!Got[1] = "V" => NoVisitTurn(x) /\ x.pc["V"] = "providing"
           /\ x.pc["V"] = "providing" /\ 1 \in 1..Len(x.ready) => x.ready[1] # VisitGoesOn
<1> DEFINE x == S!Rest
           h == Head(w.ready)
<1>1. /\ x \in ServerWorkers /\ InPlace(x) /\ h \in ServerHandlers /\ S!Got = h.got
      /\ x.pc = w.pc /\ x.waiting = w.waiting /\ x.backlog = w.backlog
      /\ x.sendClosed = w.sendClosed /\ x.sock = w.sock
      /\ Brings(x, "confirmed") => Brings(w, "confirmed")
      /\ Silent(w) /\ ~(h = VisitGoesOn /\ w.pc["V"] = "providing") => Mute(x)
      /\ SendTurn(h) => NoSendTurn(x)
      /\ w.pc["V"] \in {"start", "providing"} /\ VisitTurn(h) => NoVisitTurn(x)
      /\ h.to = "wait" => w.pc["S"] = "getting"
      /\ (h # SendVisit /\ w.pc["V"] = "providing" /\ 1 \in 1..Len(x.ready)
            => x.ready[1] # VisitGoesOn)
  BY ServerPops
<1>2. h # VisitGoesOn /\ h # SendVisit
  BY HandlerParts DEF VisitGoesOn, SendVisit
<1>3. h.to = "wait" => SendTurn(h)
  BY DEF SendTurn
<1>4. h.to = "provide" => h.got \in Provided
  BY <1>1 DEF ServerHandlers
<1>5. h.to = "provide" /\ h.got[1] = "V" => h = ProvideVisit
  BY <1>1, <1>4 DEF ServerHandlers, Provided, ProvideVisit, S!Handler
<1>6. h = ProvideVisit => w.pc["V"] = "providing"
  <2>1. h = w.ready[1] /\ 1 \in 1..Len(w.ready)
    BY PopSeq DEF ServerInv, ServerWorkers
  <2> HIDE DEF h
  <2> QED BY <2>1 DEF ServerInv, InPlace, VisitInPlace
<1> QED BY <1>1, <1>2, <1>3, <1>4, <1>5, <1>6 DEF VisitTurn

(* to_send_ notes or forgets what it has.                                  *)
LEMMA QueueWaits ==
  ASSUME NEW x \in ServerWorkers, InPlace(x), NEW b \in BOOLEAN,
         b => NoSendTurn(x) /\ x.pc["S"] = "getting"
  PROVE  LET y == [x EXCEPT !.waiting = b] IN
           /\ y \in ServerWorkers /\ InPlace(y) /\ y.ready = x.ready /\ y.pc = x.pc
           /\ y.waiting = b /\ y.backlog = x.backlog
           /\ y.sendClosed = x.sendClosed /\ y.sock = x.sock
           /\ x.waiting /\ ~b => NoSendTurn(y) /\ y.pc["S"] = "getting"
           /\ NoVisitTurn(x) => NoVisitTurn(y)
<1> DEFINE y == [x EXCEPT !.waiting = b]
<1>1. /\ y \in ServerWorkers /\ y.ready = x.ready /\ y.pc = x.pc /\ y.reads = x.reads
      /\ y.waiting = b /\ y.backlog = x.backlog
      /\ y.sendClosed = x.sendClosed /\ y.sock = x.sock
  BY DEF ServerWorkers
<1> HIDE DEF y
<1>2. SendInPlace(y) /\ (x.waiting /\ ~b => NoSendTurn(y) /\ y.pc["S"] = "getting")
  BY <1>1 DEF InPlace, SendInPlace, NoSendTurn
<1>3. VisitInPlace(y) /\ (NoVisitTurn(x) => NoVisitTurn(y))
  BY <1>1 DEF InPlace, VisitInPlace, NoVisitTurn, Backlogged, MayFail
<1>4. VisitFollows(y) /\ ClosedQueue(y)
  BY <1>1 DEF InPlace, VisitFollows, ClosedQueue, NoMessage
<1> QED BY <1>1, <1>2, <1>3, <1>4 DEF InPlace, y

LEMMA QueueWaited ==
  ASSUME ServerInv, S!RunWait, UNCHANGED <<up, upRead, down>>
  PROVE  ServerInv'
<1> DEFINE x == S!Rest
           r == Head(w.backlog)
           y == [x EXCEPT !.backlog = Tail(w.backlog)]
<1>1. w.ready # <<>> /\ Head(w.ready).to = "wait"
  BY DEF S!RunWait
<1>2. /\ x \in ServerWorkers /\ InPlace(x) /\ x.pc = w.pc
      /\ x.waiting = w.waiting /\ x.backlog = w.backlog
      /\ x.sendClosed = w.sendClosed /\ x.sock = w.sock
      /\ Brings(x, "confirmed") => Brings(w, "confirmed")
      /\ Silent(w) => Mute(x)
      /\ NoSendTurn(x) /\ x.pc["S"] = "getting"
      /\ x.pc["V"] = "providing" /\ 1 \in 1..Len(x.ready) => x.ready[1] # VisitGoesOn
  BY <1>1, QueuePops
<1>3. [S!Rest EXCEPT !.backlog = Tail(@)] = y
  BY <1>2
<1>4. \/ w.sendClosed /\ w' = S!Post(x, "S", S!Error)
      \/ /\ ~w.sendClosed /\ w.backlog # <<>>
         /\ w' = S!Post(S!Post(y, "S", <<r[2], "message">>), r[1], S!Ok)
      \/ ~w.sendClosed /\ w' = [x EXCEPT !.waiting = TRUE]
  BY <1>3 DEF S!RunWait
<1> HIDE DEF x
<1>5. CASE w.sendClosed /\ w' = S!Post(x, "S", S!Error)
  <2>1. /\ w' \in ServerWorkers /\ InPlace(w') /\ w'.pc = x.pc
        /\ w'.sendClosed = x.sendClosed /\ w'.sock = x.sock
        /\ Brings(w', "confirmed") => Brings(x, "confirmed")
    BY <1>2, <1>5, SendPosts
  <2>2. Silent(w) => Silent(w')
    BY <1>2, <2>1 DEF Silent, Mute
  <2> QED BY <1>2, <2>1, <2>2, ServerSettles
<1>6. CASE /\ ~w.sendClosed /\ w.backlog # <<>>
           /\ w' = S!Post(S!Post(y, "S", <<r[2], "message">>), r[1], S!Ok)
  <2> DEFINE t == Tail(w.backlog)
  <2>1. /\ r \in Provided /\ r = x.backlog[1] /\ 1 \in 1..Len(x.backlog)
        /\ t \in Seq(Provided) /\ Len(t) \in Nat
        /\ \A i \in 1..Len(t) : i + 1 \in 1..Len(x.backlog) /\ t[i] = x.backlog[i + 1]
    <3>1. w.backlog \in Seq(Provided)
      BY DEF ServerInv, ServerWorkers
    <3> QED BY <1>2, <1>6, <3>1, PopSeq
  <2> HIDE DEF t
  <2>2. /\ y \in ServerWorkers /\ y.ready = x.ready /\ y.pc = x.pc /\ y.reads = x.reads
        /\ y.waiting = x.waiting /\ y.backlog = t
        /\ y.sendClosed = x.sendClosed /\ y.sock = x.sock
    BY <1>2, <2>1 DEF ServerWorkers, t
  <2> HIDE DEF r, y
  <2>3. NoSendTurn(y) /\ SendInPlace(y)
    BY <1>2, <2>2 DEF NoSendTurn, InPlace, SendInPlace
  <2>4. MayFail(y) <=> MayFail(x)
    BY <2>2 DEF MayFail
  <2>5. Backlogged(y) => Backlogged(x)
    BY <2>1, <2>2 DEF Backlogged
  <2>6. VisitInPlace(x)
    BY <1>2 DEF InPlace
  <2>7. VisitInPlace(y)
    <3>1. x.pc["V"] \in {"none", "start", "providing"} =>
            \A i, j \in 1..Len(y.backlog) :
              y.backlog[i][1] = "V" /\ y.backlog[j][1] = "V" => i = j
      <4> SUFFICES ASSUME x.pc["V"] \in {"none", "start", "providing"},
                          NEW i \in 1..Len(t), NEW j \in 1..Len(t),
                          t[i][1] = "V", t[j][1] = "V"
                   PROVE  i = j
        BY <2>2
      <4>1. i + 1 = j + 1
        BY <2>1, <2>6 DEF VisitInPlace
      <4> QED BY <4>1
    <3> QED BY <2>2, <2>4, <2>5, <2>6, <3>1 DEF VisitInPlace, NoVisitTurn
  <2>8. VisitFollows(y) /\ ClosedQueue(y)
    BY <1>2, <2>2 DEF InPlace, VisitFollows, ClosedQueue, NoMessage
  <2>9. r[1] = "V" => NoVisitTurn(y) /\ y.pc["V"] = "providing"
    <3> SUFFICES ASSUME r[1] = "V" PROVE NoVisitTurn(y) /\ y.pc["V"] = "providing"
      OBVIOUS
    <3>1. Backlogged(x)
      BY <2>1 DEF Backlogged
    <3>2. x.pc["V"] = "providing" /\ \A i \in 1..Len(x.ready) : ~VisitTurn(x.ready[i])
      BY <2>6, <3>1 DEF VisitInPlace
    <3>3. ASSUME NEW i \in 1..Len(t), t[i][1] = "V" PROVE FALSE
      <4>1. i + 1 = 1
        BY <2>1, <2>6, <3>2, <3>3 DEF VisitInPlace
      <4> QED BY <2>1, <4>1
    <3> QED BY <2>2, <3>2, <3>3 DEF NoVisitTurn, Backlogged
  <2>10. InPlace(y)
    BY <2>3, <2>7, <2>8 DEF InPlace
  <2>11. /\ w' \in ServerWorkers /\ InPlace(w') /\ w'.pc = y.pc
         /\ w'.sendClosed = y.sendClosed /\ w'.sock = y.sock
         /\ Brings(w', "confirmed") => Brings(y, "confirmed")
    BY <1>2, <1>6, <2>1, <2>2, <2>3, <2>9, <2>10, Delivers
  <2>12. Silent(w) => Silent(w')
    BY <1>2, <2>2, <2>11 DEF Silent, Mute
  <2>13. Brings(w', "confirmed") => Brings(w, "confirmed")
    BY <1>2, <2>2, <2>11 DEF Brings
  <2> QED BY <1>2, <2>2, <2>11, <2>12, <2>13, ServerSettles
<1>7. CASE ~w.sendClosed /\ w' = [x EXCEPT !.waiting = TRUE]
  <2>1. /\ w' \in ServerWorkers /\ InPlace(w') /\ w'.ready = x.ready /\ w'.pc = x.pc
        /\ w'.sendClosed = x.sendClosed /\ w'.sock = x.sock
    BY <1>2, <1>7, QueueWaits
  <2>2. (Silent(w) => Silent(w')) /\ (Brings(w', "confirmed") => Brings(w, "confirmed"))
    BY <1>2, <2>1 DEF Silent, Mute, Brings
  <2> QED BY <1>2, <2>1, <2>2, ServerSettles
<1> QED BY <1>4, <1>5, <1>6, <1>7

LEMMA QueueProvided ==
  ASSUME ServerInv, S!RunProvide, UNCHANGED <<up, upRead, down>>
  PROVE  ServerInv'
<1> DEFINE x == S!Rest
           r == S!Got
           u == [x EXCEPT !.waiting = FALSE]
           y == [x EXCEPT !.backlog = Append(x.backlog, r)]
<1>1. w.ready # <<>> /\ Head(w.ready).to = "provide"
  BY DEF S!RunProvide
<1>2. /\ x \in ServerWorkers /\ InPlace(x) /\ x.pc = w.pc
      /\ x.waiting = w.waiting /\ x.backlog = w.backlog
      /\ x.sendClosed = w.sendClosed /\ x.sock = w.sock
      /\ Brings(x, "confirmed") => Brings(w, "confirmed")
      /\ Silent(w) => Mute(x)
      /\ r \in Provided
      /\ r[1] = "V" => NoVisitTurn(x) /\ x.pc["V"] = "providing"
      /\ x.pc["V"] = "providing" /\ 1 \in 1..Len(x.ready) => x.ready[1] # VisitGoesOn
  BY <1>1, QueuePops
<1>3. \/ w.sendClosed /\ w' = S!Post(x, r[1], S!Error)
      \/ /\ ~w.sendClosed /\ w.waiting
         /\ w' = S!Post(S!Post(u, "S", <<r[2], "message">>), r[1], S!Ok)
      \/ ~w.sendClosed /\ w' = y
  BY DEF S!RunProvide
<1>4. r[1] \in {"R", "V"}
  BY <1>2 DEF Provided
<1>5. ASSUME w.sendClosed, r[1] = "R", w' = S!Post(x, r[1], S!Error) PROVE ServerInv'
  <2>1. Plain(x, S!Handler("R", S!Error))
    BY HandlerParts DEF Plain
  <2>2. ServerGoesOn(S!Rest, w')
    BY <1>2, <1>5, <2>1, ServerPostsPlain, PlainHandlers, PlainReplies
  <2> QED BY <1>1, <2>2, ServerQuietHandler
<1> HIDE DEF x, r
<1>6. ASSUME w.sendClosed, r[1] = "V", w' = S!Post(x, r[1], S!Error) PROVE ServerInv'
  <2>1. /\ w' \in ServerWorkers /\ InPlace(w') /\ w'.pc = x.pc
        /\ w'.sendClosed = x.sendClosed /\ w'.sock = x.sock
        /\ Brings(w', "confirmed") => Brings(x, "confirmed")
    BY <1>2, <1>6, VisitPosts
  <2>2. Silent(w) => Silent(w')
    BY <1>2, <2>1 DEF Silent, Mute
  <2> QED BY <1>2, <2>1, <2>2, ServerSettles
<1>7. CASE /\ ~w.sendClosed /\ w.waiting
           /\ w' = S!Post(S!Post(u, "S", <<r[2], "message">>), r[1], S!Ok)
  <2>1. /\ u \in ServerWorkers /\ InPlace(u) /\ u.ready = x.ready /\ u.pc = x.pc
        /\ u.sendClosed = x.sendClosed /\ u.sock = x.sock
        /\ NoSendTurn(u) /\ u.pc["S"] = "getting"
        /\ NoVisitTurn(x) => NoVisitTurn(u)
    BY <1>2, <1>7, QueueWaits
  <2> HIDE DEF u
  <2>2. /\ w' \in ServerWorkers /\ InPlace(w') /\ w'.pc = u.pc
        /\ w'.sendClosed = u.sendClosed /\ w'.sock = u.sock
        /\ Brings(w', "confirmed") => Brings(u, "confirmed")
    BY <1>2, <1>7, <2>1, Delivers
  <2>3. Silent(w) => Silent(w')
    BY <1>2, <2>1, <2>2 DEF Silent, Mute
  <2>4. Brings(w', "confirmed") => Brings(w, "confirmed")
    BY <1>2, <2>1, <2>2 DEF Brings
  <2> QED BY <1>2, <2>1, <2>2, <2>3, <2>4, ServerSettles
<1>8. CASE ~w.sendClosed /\ w' = y
  <2> DEFINE b == Append(x.backlog, r)
             n == Len(x.backlog)
  <2>1. /\ b \in Seq(Provided) /\ n \in Nat /\ Len(b) = n + 1
        /\ \A i \in 1..n : b[i] = x.backlog[i]
        /\ b[n + 1] = r
    <3>1. x.backlog \in Seq(Provided)
      BY <1>2 DEF ServerWorkers
    <3> QED BY <1>2, <3>1, AppendProperties
  <2> HIDE DEF b
  <2>2. /\ w' \in ServerWorkers /\ w'.ready = x.ready /\ w'.pc = x.pc /\ w'.reads = x.reads
        /\ w'.waiting = x.waiting /\ w'.backlog = b
        /\ w'.sendClosed = x.sendClosed /\ w'.sock = x.sock
    BY <1>2, <1>8, <2>1 DEF ServerWorkers, b
  <2>3. \A i \in 1..Len(b) : (i \in 1..n /\ b[i] = x.backlog[i]) \/ i = n + 1
    BY <2>1
  <2> HIDE DEF n
  <2>4. VisitInPlace(x)
    BY <1>2 DEF InPlace
  <2>5. MayFail(w') <=> MayFail(x)
    BY <2>2 DEF MayFail
  <2>6. VisitInPlace(w')
    <3>1. CASE r[1] = "R"
      <4>1. \A i \in 1..Len(b) : b[i][1] = "V" => i \in 1..n /\ x.backlog[i][1] = "V"
        BY <2>1, <2>3, <3>1
      <4>2. Backlogged(w') => Backlogged(x)
        BY <2>2, <4>1 DEF Backlogged, n
      <4> QED BY <2>2, <2>4, <2>5, <4>1, <4>2 DEF VisitInPlace, NoVisitTurn, n
    <3>2. CASE r[1] = "V"
      <4>1. \A i \in 1..Len(b) : b[i][1] = "V" => i = n + 1
        BY <1>2, <2>3, <3>2 DEF NoVisitTurn, Backlogged, n
      <4> QED BY <1>2, <2>2, <2>4, <2>5, <3>2, <4>1 DEF VisitInPlace, NoVisitTurn, VisitTurn
    <3> QED BY <1>4, <3>1, <3>2
  <2>7. SendInPlace(w')
    BY <1>2, <2>2 DEF InPlace, SendInPlace
  <2>8. VisitFollows(w') /\ ClosedQueue(w')
    BY <1>2, <2>2 DEF InPlace, VisitFollows, ClosedQueue, NoMessage
  <2>9. (Silent(w) => Silent(w')) /\ (Brings(w', "confirmed") => Brings(w, "confirmed"))
    BY <1>2, <2>2 DEF Silent, Mute, Brings
  <2> QED BY <1>2, <2>2, <2>6, <2>7, <2>8, <2>9, ServerSettles DEF InPlace
<1> QED BY <1>3, <1>4, <1>5, <1>6, <1>7, <1>8

(* Who waits in a closed to_send_ is told.                                 *)
LEMMA QueueDrained ==
  ASSUME ServerInv, S!RunDrain, UNCHANGED <<up, upRead, down>>
  PROVE  ServerInv'
<1> DEFINE x == S!Rest
           b == w.backlog
           told == IF w.waiting THEN <<S!Handler("S", S!Error)>> ELSE <<>>
           hs == [i \in DOMAIN b |-> S!Handler(b[i][1], S!Error)]
           u == [x EXCEPT !.waiting = FALSE]
           y == IF w.waiting THEN S!Post(u, "S", S!Error) ELSE u
<1>1. w.ready # <<>> /\ Head(w.ready).to = "drain"
  BY DEF S!RunDrain
<1>2. /\ x \in ServerWorkers /\ InPlace(x) /\ x.pc = w.pc
      /\ x.waiting = w.waiting /\ x.backlog = w.backlog
      /\ x.sendClosed = w.sendClosed /\ x.sock = w.sock
      /\ Brings(x, "confirmed") => Brings(w, "confirmed")
      /\ Silent(w) => Mute(x)
  BY <1>1, QueuePops
<1>3. w' = [x EXCEPT !.ready = (x.ready \o told) \o hs, !.waiting = FALSE, !.backlog = <<>>]
  BY DEF S!RunDrain
<1> HIDE DEF x
<1>4. /\ u \in ServerWorkers /\ InPlace(u) /\ u.ready = x.ready /\ u.pc = x.pc
      /\ u.waiting = FALSE /\ u.backlog = b /\ u.reads = x.reads
      /\ u.sendClosed = x.sendClosed /\ u.sock = x.sock
      /\ w.waiting => NoSendTurn(u) /\ u.pc["S"] = "getting"
  <2>1. u.reads = x.reads
    BY <1>2 DEF ServerWorkers
  <2> QED BY <1>2, <2>1, QueueWaits
<1>5. u.ready \in Seq(ServerHandlers) /\ S!Handler("S", S!Error) \in ServerHandlers
  BY <1>4, PlainHandlers DEF ServerWorkers
<1>6. /\ y \in ServerWorkers /\ InPlace(y) /\ y.pc = x.pc /\ y.ready = x.ready \o told
      /\ y.waiting = FALSE /\ y.backlog = b /\ y.reads = x.reads
      /\ y.sendClosed = x.sendClosed /\ y.sock = x.sock
      /\ Brings(y, "confirmed") => Brings(w, "confirmed")
  <2>1. CASE w.waiting
    <3> DEFINE p == S!Post(u, "S", S!Error)
    <3>1. /\ p \in ServerWorkers /\ InPlace(p) /\ p.pc = u.pc
          /\ p.sendClosed = u.sendClosed /\ p.sock = u.sock
          /\ Brings(p, "confirmed") => Brings(u, "confirmed")
      BY <1>4, <2>1, SendPosts
    <3>2. p = [u EXCEPT !.ready = Append(u.ready, S!Handler("S", S!Error))]
      BY DEF S!Post
    <3> HIDE DEF p, u
    <3>3. /\ p.ready = Append(u.ready, S!Handler("S", S!Error)) /\ p.waiting = u.waiting
          /\ p.backlog = u.backlog /\ p.reads = u.reads
      BY <1>4, <3>2 DEF ServerWorkers
    <3>4. p.ready = x.ready \o told
      BY <1>4, <1>5, <2>1, <3>3, AppendIsConcat
    <3>5. y = p
      BY <2>1 DEF p
    <3>6. Brings(p, "confirmed") => Brings(w, "confirmed")
      BY <1>2, <1>4, <3>1 DEF Brings
    <3> HIDE DEF y
    <3> QED BY <1>4, <3>1, <3>3, <3>4, <3>5, <3>6
  <2>2. CASE ~w.waiting
    <3>1. y = u
      BY <2>2
    <3> HIDE DEF y, u
    <3>2. u.ready = x.ready \o told
      BY <1>4, <1>5, <2>2, ConcatEmptySeq
    <3>3. Brings(u, "confirmed") => Brings(w, "confirmed")
      BY <1>2, <1>4 DEF Brings
    <3> QED BY <1>4, <3>1, <3>2, <3>3
  <2> QED BY <2>1, <2>2
<1> HIDE DEF told, u, y
<1>7. b \in Seq(Provided) /\ DOMAIN b = 1..Len(b) /\ Len(b) \in Nat
  BY DEF ServerInv, ServerWorkers
<1>8. ASSUME NEW i \in 1..Len(b)
      PROVE  /\ hs[i] \in ServerHandlers /\ hs[i].to = b[i][1] /\ b[i][1] \in {"R", "V"}
             /\ hs[i].got = S!Error
  <2>1. hs[i] = S!Handler(b[i][1], S!Error) /\ b[i] \in Provided
    BY <1>7
  <2>2. b[i][1] \in {"R", "V"}
    BY <2>1 DEF Provided
  <2> QED BY <2>1, <2>2, PlainHandlers, HandlerParts
<1>9. hs \in Seq(ServerHandlers) /\ Len(hs) = Len(b)
  <2>1. hs \in [1..Len(b) -> ServerHandlers]
    BY <1>7, <1>8
  <2> QED BY <1>7, <2>1, LenProperties, SeqDef DEF hs
<1> HIDE DEF hs, b
<1> DEFINE n == Len(y.ready)
           t == y.ready \o hs
<1>10. /\ t \in Seq(ServerHandlers) /\ n \in Nat /\ n <= Len(t)
       /\ \A i \in 1..Len(t) :
            IF i <= n THEN i \in 1..n /\ t[i] = y.ready[i]
            ELSE i - n \in 1..Len(b) /\ t[i] = hs[i - n]
  <2>1. y.ready \in Seq(ServerHandlers)
    BY <1>6 DEF ServerWorkers
  <2>2. /\ t \in Seq(ServerHandlers) /\ n \in Nat /\ n <= Len(t)
        /\ \A i \in 1..Len(t) :
             IF i <= n THEN i \in 1..n /\ t[i] = y.ready[i]
             ELSE i - n \in 1..Len(hs) /\ t[i] = hs[i - n]
    BY <1>9, <2>1, ConcatParts
  <2> HIDE DEF n, t
  <2> QED BY <1>9, <2>2
<1> HIDE DEF t
<1>11. /\ w' \in ServerWorkers /\ w'.ready = t /\ w'.pc = y.pc /\ w'.reads = y.reads
       /\ w'.waiting = FALSE /\ w'.backlog = <<>>
       /\ w'.sendClosed = y.sendClosed /\ w'.sock = y.sock
  <2>1. <<>> \in Seq(Provided)
    BY EmptySeq
  <2>2. w' = [x EXCEPT !.ready = t, !.waiting = FALSE, !.backlog = <<>>]
    BY <1>3, <1>6 DEF t
  <2> QED BY <1>2, <1>6, <1>10, <2>1, <2>2 DEF ServerWorkers
<1> HIDE DEF n
<1>12. ASSUME NEW i \in 1..Len(t)
       PROVE  \/ i \in 1..n /\ i <= n /\ t[i] = y.ready[i]
              \/ /\ ~(i <= n) /\ i - n \in 1..Len(b)
                 /\ ~SendTurn(t[i]) /\ t[i].to # "S" /\ t[i] # SendVisit /\ t[i] # VisitGoesOn
                 /\ t[i] # ProvideVisit /\ t[i].got # <<"confirmed", "body">>
                 /\ VisitTurn(t[i]) => b[i - n][1] = "V"
  <2>1. /\ SendVisit.to = "S" /\ VisitGoesOn.got = S!Ok /\ ProvideVisit.to = "provide"
        /\ S!Ok # S!Error /\ S!Error # <<"confirmed", "body">>
    BY HandlerParts, PlainReplies DEF SendVisit, VisitGoesOn, ProvideVisit
  <2> QED BY <1>8, <1>10, <2>1 DEF SendTurn, VisitTurn
<1>13. SendInPlace(w')
  <2>1. SendInPlace(y)
    BY <1>6 DEF InPlace
  <2> QED BY <1>11, <1>12, <2>1 DEF SendInPlace, SendTurn, n
<1>14. NoMessage(y) => NoMessage(w')
  BY <1>11, <1>12 DEF NoMessage, n
<1>15. VisitInPlace(w')
  <2>1. VisitInPlace(y)
    BY <1>6 DEF InPlace
  <2>2. ~Backlogged(w') /\ \A j \in 1..Len(w'.backlog) : w'.backlog[j][1] # "V"
    <3>1. Len(w'.backlog) = 0
      BY <1>11, EmptySeq
    <3> QED BY <3>1 DEF Backlogged
  <2>3. MayFail(w') => MayFail(y)
    BY <1>11 DEF MayFail
  <2>4. ASSUME NEW i \in 1..Len(t), VisitTurn(t[i])
        PROVE  \/ i \in 1..n /\ VisitTurn(y.ready[i])
               \/ ~(i \in 1..n) /\ i - n \in 1..Len(b) /\ b[i - n][1] = "V" /\ Backlogged(y)
    <3>1. CASE i <= n
      BY <1>12, <2>4, <3>1
    <3>2. CASE ~(i <= n)
      <4>1. i - n \in 1..Len(b) /\ b[i - n][1] = "V"
        BY <1>12, <2>4, <3>2
      <4>2. Backlogged(y)
        BY <1>6, <4>1 DEF Backlogged
      <4>3. ~(i \in 1..n)
        BY <1>10, <3>2
      <4> QED BY <4>1, <4>2, <4>3
    <3> QED BY <3>1, <3>2
  <2>5. y.pc["V"] \in {"none", "start", "providing"} =>
          \A i, j \in 1..Len(t) : VisitTurn(t[i]) /\ VisitTurn(t[j]) => i = j
    <3> SUFFICES ASSUME y.pc["V"] \in {"none", "start", "providing"},
                        NEW i \in 1..Len(t), NEW j \in 1..Len(t),
                        VisitTurn(t[i]), VisitTurn(t[j])
                 PROVE  i = j
      OBVIOUS
    <3>1. CASE Backlogged(y)
      <4>1. /\ i - n \in 1..Len(b) /\ b[i - n][1] = "V"
            /\ j - n \in 1..Len(b) /\ b[j - n][1] = "V"
        BY <2>1, <2>4, <3>1 DEF VisitInPlace, n
      <4>2. i - n = j - n
        BY <1>6, <2>1, <4>1 DEF VisitInPlace
      <4> QED BY <1>10, <4>2
    <3>2. CASE ~Backlogged(y)
      BY <2>1, <2>4, <3>2 DEF VisitInPlace, n
    <3> QED BY <3>1, <3>2
  <2>6. y.pc["V"] = "none" => NoVisitTurn(w')
    BY <1>11, <2>1, <2>2, <2>4 DEF VisitInPlace, NoVisitTurn, n
  <2>7. y.pc["V"] # "providing" => \A i \in 1..Len(t) : t[i] # ProvideVisit
    BY <1>12, <2>1 DEF VisitInPlace, n
  <2> QED BY <1>11, <2>1, <2>2, <2>3, <2>5, <2>6, <2>7 DEF VisitInPlace
<1>16. VisitFollows(w')
  <2>1. \A i \in 1..Len(t) :
          IF i <= n THEN t[i] = y.ready[i] ELSE t[i] # SendVisit /\ t[i] # VisitGoesOn
    BY <1>10, <1>12
  <2> QED BY <1>6, <1>10, <1>11, <1>14, <2>1, FollowsGrows DEF InPlace, n
<1>17. ClosedQueue(w')
  BY <1>6, <1>11, <1>14 DEF InPlace, ClosedQueue
<1>18. Brings(w', "confirmed") => Brings(w, "confirmed")
  <2>1. Brings(w', "confirmed") => Brings(y, "confirmed")
    BY <1>11, <1>12 DEF Brings, n
  <2> QED BY <1>6, <2>1
<1>19. Silent(w) => Silent(w')
  BY <1>2, <1>6, <1>11 DEF Silent, Mute
<1> QED BY <1>2, <1>6, <1>11, <1>13, <1>15, <1>16, <1>17, <1>18, <1>19, ServerSettles
           DEF InPlace

LEMMA ServerKeeps ==
  ASSUME StreamsOK, ServerInv, LastBefore("visit", down), S!Next
  PROVE  ServerInv' /\ DownKept /\ up' = up /\ upRead' \in 0..Len(up)
<1>1. upRead \in 0..Len(up)
  BY DEF StreamsOK
<1>2. CASE S!RunHandler
  <2>1. CASE S!SendMsg /\ UNCHANGED <<up, upRead>>
    BY <1>1, <2>1, ServerWrites
  <2>2. CASE ~S!SendMsg
    <3>1. UNCHANGED <<up, upRead, down>>
      BY <1>2, <2>2 DEF S!RunHandler
    <3>2. CASE S!RecvStart \/ S!RecvLength \/ S!RecvBody \/ S!RecvAnswered
      BY <1>1, <3>1, <3>2, ServerReceiving, DownStays
    <3>3. CASE S!SendStart \/ S!SendAborted \/ S!SendDone
      BY <1>1, <3>1, <3>3, ServerSending, DownStays
    <3>4. CASE S!DdlStart \/ S!DdlWake
      BY <1>1, <3>1, <3>4, ServerDeadline, DownStays
    <3>5. CASE S!VisitStart
      BY <1>1, <3>1, <3>5, VisitBegins, DownStays
    <3>6. CASE S!VisitSent
      BY <1>1, <3>1, <3>6, VisitCloses, DownStays
    <3>7. CASE S!VisitLength \/ S!VisitBody
      BY <1>1, <3>1, <3>7, VisitReceives, DownStays
    <3>8. CASE S!RunWait
      BY <1>1, <3>1, <3>8, QueueWaited, DownStays
    <3>9. CASE S!RunProvide
      BY <1>1, <3>1, <3>9, QueueProvided, DownStays
    <3>10. CASE S!RunDrain
      BY <1>1, <3>1, <3>10, QueueDrained, DownStays
    <3> QED BY <1>2, <2>2, <3>2, <3>3, <3>4, <3>5, <3>6, <3>7, <3>8, <3>9, <3>10
               DEF S!RunHandler
  <2> QED BY <1>2, <2>1, <2>2 DEF S!RunHandler
<1>3. CASE S!ReadCompletes
  BY <1>3, ServerHears, DownStays
<1>4. CASE S!ReadPart \/ S!ReadFails \/ S!DdlExpires \/ S!StopWorker \/ S!Destroyed
  BY <1>1, <1>4, ServerOutside, DownStays
<1>5. CASE S!VisitorComes \/ S!HandOver
  BY <1>1, <1>5, VisitOutside, DownStays
<1> QED BY <1>2, <1>3, <1>4, <1>5 DEF S!Next
-----------------------------------------------------------------------------
(* Both ends together.                                                     *)

LinkInv == StreamsOK /\ ServerInv /\ ClientInv /\ TakeoverIsLast

LEMMA LinkStarts == Init => LinkInv
<1> SUFFICES ASSUME Init PROVE LinkInv
  OBVIOUS
<1>1. /\ up = <<>> /\ upRead = 0 /\ down = <<>> /\ downRead = 0 /\ lost = FALSE
      /\ S!Init /\ C!Init
  BY DEF Init
<1>2. Len(up) = 0 /\ Len(down) = 0 /\ up \in Seq(Chunk) /\ down \in Seq(Chunk)
  BY <1>1, EmptySeq
<1>3. StreamsOK
  <2>1. lost \in BOOLEAN
    BY <1>1
  <2>2. upRead = 0 /\ downRead = 0
    BY <1>1
  <2>3. upRead \in 0..Len(up) /\ downRead \in 0..Len(down)
    BY <1>2, <2>2
  <2> QED BY <1>2, <2>1, <2>3 DEF StreamsOK
<1>4. /\ \A m, n : n = 0 => ~SentBy(m, up, n) /\ ~SentBy(m, down, n)
      /\ TakeoverIsLast
  <2>1. DOMAIN up = {} /\ DOMAIN down = {}
    BY <1>1
  <2> QED BY <2>1 DEF SentBy, TakeoverIsLast, LastBefore
<1>5. ClientInv
  <2>1. c \in ClientWorkers
    <3> DEFINE q == <<C!Handler("C", C!Ok), C!Handler("P", C!Ok)>>
    <3>1. C!Ok \in Reply
      BY DEF C!Ok, Reply
    <3>2. q \in Seq([to : {"C", "P"}, got : Reply])
      BY <3>1 DEF C!Handler
    <3>3. [C |-> "start", P |-> "start"] \in [{"C", "P"} -> ClientPcs] /\ 0 \in 0..MaxPings
      BY MaxPingsAssumption DEF MaxPingsAssumption, ClientPcs
    <3> HIDE DEF q
    <3> QED BY <1>1, <3>2, <3>3 DEF C!Init, ClientWorkers, Names, q
  <2>2. /\ c.pc["C"] = "start" /\ c.sock = "open" /\ c.visited = FALSE
        /\ ~Brings(c, "visit")
    BY <1>1 DEF C!Init, C!Handler, C!Ok, Brings
  <2> QED BY <1>2, <1>4, <2>1, <2>2 DEF ClientInv, ClientKnows
<1>6. ServerInv
  <2> DEFINE r == <<S!Handler("R", S!Ok), S!Handler("S", S!Ok), S!Handler("D", S!Ok)>>
  <2>1. /\ w.ready = r /\ w.pc = [R |-> "start", S |-> "start", D |-> "start", V |-> "none"]
        /\ w.reads = <<>> /\ w.waiting = FALSE /\ w.backlog = <<>> /\ w.sock = "open"
    BY <1>1 DEF S!Init
  <2>2. /\ Len(r) = 3 /\ r[1] = S!Handler("R", S!Ok) /\ r[2] = S!Handler("S", S!Ok)
        /\ r[3] = S!Handler("D", S!Ok) /\ r \in Seq(ServerHandlers)
    BY PlainHandlers
  <2>3. w \in ServerWorkers
    <3>1. <<>> \in Seq({"R", "V"}) /\ <<>> \in Seq(Provided)
      BY EmptySeq
    <3>2. w.pc \in [{"R", "S", "D", "V"} -> ServerPcs]
      BY <2>1 DEF ServerPcs
    <3>3. [R |-> "none", V |-> "none"] \in [{"R", "V"} -> Names \cup {"none"}]
      OBVIOUS
    <3> HIDE DEF r
    <3> QED BY <1>1, <2>1, <2>2, <3>1, <3>2, <3>3 DEF S!Init, ServerWorkers, r
  <2> HIDE DEF r
  <2>4. ASSUME NEW i \in 1..Len(w.ready)
        PROVE  /\ w.ready[i].got = S!Ok /\ w.ready[i].to \in {"R", "S", "D"}
               /\ w.ready[i].to = "S" => i = 2
    <3>1. i \in {1, 2, 3}
      BY <2>1, <2>2
    <3> QED BY <2>1, <2>2, <3>1, HandlerParts
  <2>5. SendInPlace(w) /\ NoMessage(w)
    BY <2>1, <2>4, PlainReplies DEF SendInPlace, SendTurn, NoMessage
  <2>6. \A i \in 1..Len(w.ready) :
          ~VisitTurn(w.ready[i]) /\ w.ready[i] \notin {SendVisit, VisitGoesOn, ProvideVisit}
    <3>1. /\ SendVisit.got \in Message /\ VisitGoesOn.to = "V" /\ ProvideVisit.to = "provide"
      BY HandlerParts DEF SendVisit, VisitGoesOn, ProvideVisit, Message
    <3> QED BY <2>4, <3>1, PlainReplies DEF VisitTurn
  <2>7. Len(w.reads) = 0 /\ Len(w.backlog) = 0 /\ w.pc["V"] = "none"
    BY <2>1, EmptySeq
  <2>8. VisitInPlace(w)
    BY <2>6, <2>7 DEF VisitInPlace, NoVisitTurn, Backlogged, MayFail
  <2>9. InPlace(w)
    BY <2>5, <2>6, <2>8 DEF InPlace, VisitFollows, ClosedQueue
  <2>10. ~Brings(w, "confirmed")
    BY <2>4, PlainReplies DEF Brings
  <2> QED BY <1>2, <1>4, <2>1, <2>3, <2>7, <2>9, <2>10 DEF ServerInv, ServerKnows
<1> QED BY <1>3, <1>4, <1>5, <1>6 DEF LinkInv

(* What one end knows of the other's stream stays true as that grows.      *)
LEMMA ServerKeepsKnowing ==
  ASSUME StreamsOK, ServerInv, UNCHANGED <<w, upRead, down>>,
         up' \in Seq(Chunk), Goes(up, up')
  PROVE  ServerInv' /\ upRead' \in 0..Len(up')
<1>1. SentBy("confirmed", up, upRead) => SentBy("confirmed", up', upRead)
  BY ReadStays DEF StreamsOK
<1>2. upRead' \in 0..Len(up')
  BY DEF StreamsOK, Goes
<1> QED BY <1>1, <1>2 DEF ServerInv, ServerKnows

LEMMA ClientKeepsKnowing ==
  ASSUME StreamsOK, ClientInv, UNCHANGED <<c, downRead, up>>,
         down' \in Seq(Chunk), Goes(down, down')
  PROVE  ClientInv' /\ downRead' \in 0..Len(down')
<1>1. SentBy("visit", down, downRead) => SentBy("visit", down', downRead)
  BY ReadStays DEF StreamsOK
<1>2. downRead' \in 0..Len(down')
  BY DEF StreamsOK, Goes
<1> QED BY <1>1, <1>2 DEF ClientInv, ClientKnows

LEMMA LinkSteps == LinkInv /\ [Next]_vars => LinkInv'
<1> SUFFICES ASSUME LinkInv, [Next]_vars PROVE LinkInv'
  OBVIOUS
<1>1. /\ StreamsOK /\ ServerInv /\ ClientInv
      /\ LastBefore("visit", down) /\ LastBefore("confirmed", up)
  BY DEF LinkInv, TakeoverIsLast
<1>2. CASE Server
  <2>1. S!Next /\ UNCHANGED <<c, downRead, lost>>
    BY <1>2 DEF Server, ServerMay
  <2>2. ServerInv' /\ DownKept /\ up' = up /\ upRead' \in 0..Len(up)
    BY <1>1, <2>1, ServerKeeps
  <2>3. ClientInv' /\ downRead' \in 0..Len(down')
    BY <1>1, <2>1, <2>2, ClientKeepsKnowing DEF DownKept
  <2>4. StreamsOK' /\ TakeoverIsLast'
    BY <1>1, <2>1, <2>2, <2>3 DEF StreamsOK, TakeoverIsLast, DownKept
  <2> QED BY <2>2, <2>3, <2>4 DEF LinkInv
<1>3. CASE Client
  <2>1. C!Next /\ UNCHANGED <<w, upRead, lost>>
    BY <1>3 DEF Client
  <2>2. ClientInv' /\ UpKept /\ DownReadKept
    BY <1>1, <2>1, ClientKeeps
  <2>3. ServerInv' /\ upRead' \in 0..Len(up')
    BY <1>1, <2>1, <2>2, ServerKeepsKnowing DEF UpKept, DownReadKept
  <2>4. StreamsOK' /\ TakeoverIsLast'
    BY <1>1, <2>1, <2>2, <2>3 DEF StreamsOK, TakeoverIsLast, UpKept, DownReadKept
  <2> QED BY <2>2, <2>3, <2>4 DEF LinkInv
<1>4. CASE ClientForwards
  <2>1. c.sock = "moved" /\ up' = Append(up, Data)
        /\ UNCHANGED <<w, c, upRead, down, downRead, lost>>
    BY <1>4 DEF ClientForwards
  <2>2. /\ up' \in Seq(Chunk) /\ Goes(up, up') /\ LastBefore("confirmed", up')
        /\ SentBy("confirmed", up', Len(up')) => SentBy("confirmed", up, Len(up))
    BY <1>1, <2>1, SendData DEF StreamsOK
  <2>3. ServerInv' /\ upRead' \in 0..Len(up')
    BY <1>1, <2>1, <2>2, ServerKeepsKnowing
  <2>4. ClientInv'
    BY <1>1, <2>1, <2>2 DEF ClientInv, ClientKnows
  <2>5. StreamsOK' /\ TakeoverIsLast'
    BY <1>1, <2>1, <2>2, <2>3 DEF StreamsOK, TakeoverIsLast
  <2> QED BY <2>3, <2>4, <2>5 DEF LinkInv
<1>5. CASE ServerForwards
  <2>1. w.sock = "moved" /\ down' = Append(down, Data)
        /\ UNCHANGED <<w, c, up, upRead, downRead, lost>>
    BY <1>5 DEF ServerForwards
  <2>2. /\ down' \in Seq(Chunk) /\ Goes(down, down') /\ LastBefore("visit", down')
        /\ SentBy("visit", down', Len(down')) => SentBy("visit", down, Len(down))
    BY <1>1, <2>1, SendData DEF StreamsOK
  <2>3. ClientInv' /\ downRead' \in 0..Len(down')
    BY <1>1, <2>1, <2>2, ClientKeepsKnowing
  <2>4. ServerInv'
    BY <1>1, <2>1, <2>2 DEF ServerInv, ServerKnows
  <2>5. StreamsOK' /\ TakeoverIsLast'
    BY <1>1, <2>1, <2>2, <2>3 DEF StreamsOK, TakeoverIsLast
  <2> QED BY <2>3, <2>4, <2>5 DEF LinkInv
<1>6. CASE Lose \/ UNCHANGED vars
  <2>1. UNCHANGED <<w, c, up, upRead, down, downRead>> /\ lost' \in BOOLEAN
    BY <1>1, <1>6 DEF Lose, vars, StreamsOK
  <2> QED BY <1>1, <2>1 DEF LinkInv, StreamsOK, ServerInv, ServerKnows, ClientInv, ClientKnows,
                            TakeoverIsLast
<1> QED BY <1>2, <1>3, <1>4, <1>5, <1>6 DEF Next

LEMMA LinkInvariant == Init /\ [][Next]_vars => []LinkInv
BY LinkStarts, LinkSteps, PTL

LEMMA WiderSeq ==
  ASSUME NEW A, NEW B, A \subseteq B, NEW s \in Seq(A)
  PROVE  s \in Seq(B)
<1>1. \A i \in 1..Len(s) : s[i] \in B
  OBVIOUS
<1> QED BY <1>1, SeqDef

LEMMA LinkTypes == LinkInv => TypeOK
<1> SUFFICES ASSUME LinkInv PROVE TypeOK
  OBVIOUS
<1>1. StreamsOK /\ w \in ServerWorkers /\ c \in ClientWorkers
  BY DEF LinkInv, ServerInv, ClientInv
<1> DEFINE A == [to : {"R", "S", "D", "V", "wait", "provide", "drain"},
                 got : Gots \cup ({"R", "V"} \X {"pong", "visit"})]
           B == [to : {"C", "P"}, got : Gots]
<1>2. Reply \subseteq Gots /\ {S!Ok, S!Error} \cup Message \subseteq Gots
      /\ Provided \subseteq {"R", "V"} \X {"pong", "visit"}
  BY DEF Reply, Chunk, Gots, S!Ok, S!Error, Message, Provided
<1>3. ServerHandlers \subseteq A
  BY <1>2 DEF ServerHandlers
<1>4. [to : {"C", "P"}, got : Reply] \subseteq B
  BY <1>2
<1> HIDE DEF A, B
<1>5. w.ready \in Seq(A) /\ w.backlog \in Seq({"R", "V"} \X {"pong", "visit"})
  <2>1. w.ready \in Seq(ServerHandlers) /\ w.backlog \in Seq(Provided)
    BY <1>1 DEF ServerWorkers
  <2> QED BY <1>2, <1>3, <2>1, WiderSeq
<1>6. c.ready \in Seq(B)
  <2>1. c.ready \in Seq([to : {"C", "P"}, got : Reply])
    BY <1>1 DEF ClientWorkers
  <2> QED BY <1>4, <2>1, WiderSeq
<1>7. /\ w.reads \in Seq({"R", "V"})
      /\ w.torn \in {"none", "R", "V", "lost"}
      /\ w.sock \in {"open", "closed", "moved"} /\ w.ddl \in {"max", "armed", "expired"}
      /\ {w.waiting, w.sendClosed, w.visited, w.confirmed, w.stopping} \subseteq BOOLEAN
  BY <1>1 DEF ServerWorkers
<1>8. /\ c.sock \in {"open", "closed", "moved"} /\ c.timer \in {"max", "armed", "expired"}
      /\ {c.greeted, c.reading, c.visited, c.stopping} \subseteq BOOLEAN
      /\ c.pings \in 0..MaxPings
  BY <1>1 DEF ClientWorkers
<1> QED BY <1>1, <1>5, <1>6, <1>7, <1>8 DEF TypeOK, StreamsOK, A, B

(* Who has a socket to hand over has read the message that ends the        *)
(* control messages of the other side.                                     *)
LEMMA LinkClean == LinkInv => CleanHandover
<1> SUFFICES ASSUME LinkInv PROVE CleanHandover
  OBVIOUS
<1>1. ASSUME NEW s \in Seq(Chunk), NEW n \in 0..Len(s), NEW m,
             LastBefore(m, s), SentBy(m, s, n), NEW i \in (n + 1)..Len(s)
      PROVE  s[i] = Data
  <2>1. PICK k \in 1..n : s[k] = <<m, "body">>
    BY <1>1 DEF SentBy
  <2>2. k \in DOMAIN s /\ i \in (k + 1)..Len(s)
    BY <2>1
  <2> QED BY <1>1, <2>1, <2>2 DEF LastBefore
<1>2. /\ up \in Seq(Chunk) /\ upRead \in 0..Len(up) /\ LastBefore("confirmed", up)
      /\ down \in Seq(Chunk) /\ downRead \in 0..Len(down) /\ LastBefore("visit", down)
  BY DEF LinkInv, StreamsOK, TakeoverIsLast
<1>3. w.sock = "moved" => SentBy("confirmed", up, upRead)
  BY DEF LinkInv, ServerInv, ServerKnows
<1>4. c.sock = "moved" => SentBy("visit", down, downRead)
  BY DEF LinkInv, ClientInv, ClientKnows
<1> QED BY <1>1, <1>2, <1>3, <1>4 DEF CleanHandover

-----------------------------------------------------------------------------
(* The state of both workers and of the streams has its types, whatever    *)
(* messages, errors, timeouts and stops there are (server.hpp's            *)
(* tcp_share_worker, client.hpp's tcp_share_worker).                       *)
THEOREM TypeCorrect == ServerSpec => []TypeOK
BY LinkInvariant, LinkTypes, PTL DEF ServerSpec

(* However the four coroutines of the server's worker and the two of the   *)
(* client's interleave, no pong is sent after the visit and no ping after  *)
(* the confirmation: visit() closes to_send_ before send_msgs runs again,  *)
(* and the client stops pinging before it confirms.                        *)
THEOREM LastMessages == ServerSpec => []TakeoverIsLast
<1>1. LinkInv => TakeoverIsLast
  BY DEF LinkInv
<1> QED BY <1>1, LinkInvariant, PTL DEF ServerSpec

(* A socket that visit() or the client's worker hands to the forwarder has *)
(* nothing but user data left to be read from it.                          *)
THEOREM HandedOverClean == ServerSpec => []CleanHandover
BY LinkInvariant, LinkClean, PTL DEF ServerSpec

=============================================================================
