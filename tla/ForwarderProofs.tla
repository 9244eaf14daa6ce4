---------------------------- MODULE ForwarderProofs ----------------------------
(* Proofs that a forwarder relays, for any number of visits, any load and  *)
(* any size of the buffer, and for stops and errors at any moment.         *)
EXTENDS Forwarder, TLAPS

Phases == {"none", "upstream", "strand", "created", "running", "gone", "dropped"}

(* A half runs in a pipe that runs, and has shut down nothing; one that    *)
(* has ended has shut down what it wrote to, or stopped the pipe.          *)
HalvesInv ==
  /\ \A d \in on : phase[d[1]] = "running" /\ d \notin shut
  /\ \A d \in shut : phase[d[1]] \in {"running", "gone"}
  /\ \A d \in Dirs : phase[d[1]] = "running" /\ d \notin on => d \in shut \/ halt[d[1]] # "no"

LEMMA Directions ==
  /\ \A v \in Visits, s \in Sides : <<v, s>> \in Dirs
  /\ \A d \in Dirs : /\ d[1] \in Visits /\ d[2] \in Sides /\ d = <<d[1], d[2]>>
                     /\ Back(d) \in Dirs /\ Back(d)[1] = d[1] /\ Back(d) # d
  /\ \A c, d \in Dirs : c[1] = d[1] => c = d \/ c = Back(d)
BY DEF Dirs, Sides, Back

LEMMA InitType == Init => TypeOK /\ HalvesInv
<1> SUFFICES ASSUME Init PROVE TypeOK /\ HalvesInv
  OBVIOUS
<1>1. \A d \in Dirs : Load[d] \in Nat /\ Buffer \in Nat
  BY ForwarderAssumption DEF ForwarderAssumption
<1>2. \A d \in Dirs : sent[d] = 0 /\ taken[d] = 0 /\ given[d] = 0 /\ phase[d[1]] = "none"
  BY Directions DEF Init
<1>3. \A d \in Dirs : /\ given[d] <= taken[d] /\ taken[d] <= sent[d] /\ sent[d] <= Load[d]
                       /\ Held(d) <= Buffer
  BY <1>1, <1>2 DEF Held
<1>5. sent \in [Dirs -> Nat] /\ taken \in [Dirs -> Nat] /\ given \in [Dirs -> Nat]
  BY DEF Init
<1>6. /\ phase \in [Visits -> Phases] /\ halt \in [Visits -> {"no", "error", "swept"}]
      /\ party \in [Dirs -> {"open", "fin", "broken"}]
      /\ sweep \in [{"error", "told"} -> {"none", "posted", "done"}]
  BY DEF Init, Phases
<1>7. /\ stopping \in BOOLEAN /\ loop \in {"accepting", "stopping", "ended"}
      /\ late \subseteq Visits /\ on \subseteq Dirs /\ shut \subseteq Dirs
  BY DEF Init
<1>4. TypeOK
  BY <1>3, <1>5, <1>6, <1>7 DEF TypeOK, Phases
<1> QED BY <1>2, <1>4 DEF Init, HalvesInv

(* The loop, the sweeps and handle_socket.                                 *)
LEMMA ForwardType ==
  ASSUME TypeOK, HalvesInv, AcceptFails \/ Told \/ \E w \in DOMAIN sweep : Sweep(w)
  PROVE  TypeOK' /\ HalvesInv'
<1>1. CASE AcceptFails \/ Told
  <2>1. UNCHANGED <<phase, late, halt, on, taken, given, shut, sent, party>>
    BY <1>1 DEF AcceptFails, Told, pipes, parties
  <2>2. stopping' \in BOOLEAN /\ loop' \in {"accepting", "stopping", "ended"}
    BY <1>1 DEF TypeOK, AcceptFails, Told
  <2>3. sweep' \in [{"error", "told"} -> {"none", "posted", "done"}]
    BY <1>1 DEF TypeOK, AcceptFails, Told
  <2>4. TypeOK'
    BY <2>1, <2>2, <2>3 DEF TypeOK, Held
  <2> QED BY <2>1, <2>4 DEF HalvesInv
<1>2. ASSUME NEW w \in DOMAIN sweep, Sweep(w) PROVE TypeOK' /\ HalvesInv'
  <2>1. w \in {"error", "told"}
    BY <1>2 DEF TypeOK
  <2>2. sweep' \in [{"error", "told"} -> {"none", "posted", "done"}] /\ loop' \in {"accepting", "stopping", "ended"}
    BY <1>2, <2>1 DEF TypeOK, Sweep
  <2>3. halt' \in [Visits -> {"no", "error", "swept"}]
    BY <1>2 DEF TypeOK, Sweep, StopPipes
  <2>4. \A v \in Visits : halt[v] # "no" => halt'[v] # "no"
    BY <1>2 DEF Sweep, StopPipes
  <2>5. TypeOK'
    BY <1>2, <2>2, <2>3 DEF TypeOK, Sweep, parties, Held
  <2>6. HalvesInv'
    BY <1>2, <2>4, Directions DEF HalvesInv, Sweep
  <2> QED BY <2>5, <2>6
<1> QED BY <1>1, <1>2

LEMMA VisitType ==
  ASSUME TypeOK, HalvesInv, NEW v \in Visits, Accept(v) \/ HandleSocket(v)
  PROVE  TypeOK' /\ HalvesInv'
<1>1. CASE Accept(v) \/ UpstreamGot(v) \/ UpstreamFails(v) \/ Create(v)
  <2>1. phase[v] \in {"none", "upstream", "strand"} /\ phase' \in [Visits -> Phases]
    BY <1>1 DEF Accept, UpstreamGot, UpstreamFails, Create, TypeOK, Phases
  <2>2. \A u \in Visits : u # v => phase'[u] = phase[u]
    BY <1>1 DEF Accept, UpstreamGot, UpstreamFails, Create, TypeOK
  <2>3. phase'[v] \notin {"running", "gone"}
    BY <1>1 DEF Accept, UpstreamGot, UpstreamFails, Create, TypeOK
  <2>4. late' \subseteq Visits
    BY <1>1 DEF Accept, UpstreamGot, UpstreamFails, Create, TypeOK
  <2>5. UNCHANGED <<stopping, loop, sweep, halt, on, taken, given, shut, sent, party>>
    BY <1>1 DEF Accept, UpstreamGot, UpstreamFails, Create, forward, parties
  <2>6. TypeOK'
    BY <2>1, <2>4, <2>5 DEF TypeOK, Phases, Held
  <2>7. HalvesInv'
    BY <2>1, <2>2, <2>3, <2>5, Directions DEF HalvesInv, TypeOK
  <2> QED BY <2>6, <2>7
<1>2. CASE Run(v)
  <2>1. /\ phase[v] = "created" /\ phase' = [phase EXCEPT ![v] = "running"]
        /\ on' = on \cup {<<v, s>> : s \in Sides}
        /\ UNCHANGED <<stopping, loop, sweep, late, halt, taken, given, shut, sent, party>>
    BY <1>2 DEF Run, forward, parties
  <2>2. TypeOK'
    BY <2>1, Directions DEF TypeOK, Held
  <2>3. \A d \in Dirs : d[1] = v => d \in on' /\ d \notin shut
    BY <2>1, Directions DEF HalvesInv, TypeOK
  <2>4. HalvesInv'
    BY <2>1, <2>3, Directions DEF HalvesInv, TypeOK
  <2> QED BY <2>2, <2>4
<1> QED BY <1>1, <1>2 DEF HandleSocket

LEMMA CopyType ==
  ASSUME TypeOK, HalvesInv, NEW d \in Dirs, ReadSome(d) \/ WriteSome(d)
  PROVE  TypeOK' /\ HalvesInv'
<1>1. CASE ReadSome(d)
  <2>1. PICK n \in 1..Buffer : /\ taken[d] + n <= sent[d]
                               /\ taken' = [taken EXCEPT ![d] = @ + n]
    BY <1>1 DEF ReadSome
  <2>2. UNCHANGED <<stopping, loop, sweep, phase, late, halt, on, given, shut, sent, party>> /\ Held(d) = 0
    BY <1>1 DEF ReadSome, forward, parties
  <2>3. taken[d] \in Nat /\ given[d] \in Nat /\ sent[d] \in Nat /\ Buffer \in Nat
    BY ForwarderAssumption DEF TypeOK, ForwarderAssumption
  <2>4. TypeOK'
    BY <2>1, <2>2, <2>3 DEF TypeOK, Held
  <2> QED BY <2>2, <2>4 DEF HalvesInv
<1>2. CASE WriteSome(d)
  <2>1. PICK n \in 1..Held(d) : given' = [given EXCEPT ![d] = @ + n]
    BY <1>2 DEF WriteSome
  <2>2. UNCHANGED <<stopping, loop, sweep, phase, late, halt, on, taken, shut, sent, party>>
    BY <1>2 DEF WriteSome, forward, parties
  <2>3. taken[d] \in Nat /\ given[d] \in Nat
    BY DEF TypeOK
  <2>4. TypeOK'
    BY <2>1, <2>2, <2>3, ForwarderAssumption DEF TypeOK, Held, ForwarderAssumption
  <2> QED BY <2>2, <2>4 DEF HalvesInv
<1> QED BY <1>1, <1>2

LEMMA EndType ==
  ASSUME TypeOK, HalvesInv, NEW d \in Dirs, EndsClean(d) \/ Throws(d)
  PROVE  TypeOK' /\ HalvesInv'
<1>1. d \in on /\ on' = on \ {d} /\ d[1] \in Visits /\ phase[d[1]] = "running"
  BY Directions DEF EndsClean, Throws, HalfEnds, HalvesInv
<1>2. phase' = IF Back(d) \in on THEN phase ELSE [phase EXCEPT ![d[1]] = "gone"]
  BY DEF EndsClean, Throws, HalfEnds
<1>3. UNCHANGED <<stopping, loop, sweep, late, taken, given, sent, party>>
  BY DEF EndsClean, Throws, forward, parties
<1>4. \/ shut' = shut \cup {d} /\ halt' = halt
      \/ shut' = shut /\ halt' = [halt EXCEPT ![d[1]] = IF @ = "no" THEN "error" ELSE @]
  BY DEF EndsClean, Throws
<1>5. halt' \in [Visits -> {"no", "error", "swept"}] /\ phase' \in [Visits -> Phases]
  BY <1>1, <1>2, <1>4 DEF TypeOK, Phases
<1>6. TypeOK'
  BY <1>1, <1>3, <1>4, <1>5 DEF TypeOK, Held, Phases
<1>7. \A v \in Visits : halt[v] # "no" => halt'[v] # "no"
  BY <1>1, <1>4 DEF TypeOK
<1>8. d \in shut' \/ halt'[d[1]] # "no"
  BY <1>1, <1>4 DEF TypeOK
<1>9. \A v \in Visits : phase'[v] = phase[v] \/ (v = d[1] /\ phase'[v] = "gone" /\ Back(d) \notin on)
  BY <1>1, <1>2 DEF TypeOK
<1>10. HalvesInv'
  <2>1. ASSUME NEW c \in on' PROVE phase'[c[1]] = "running" /\ c \notin shut'
    <3>1. c \in on /\ c # d /\ c \in Dirs /\ c[1] \in Visits
      BY <1>1, Directions DEF TypeOK
    <3>2. c[1] = d[1] => c = Back(d)
      BY <3>1, Directions
    <3>3. phase'[c[1]] = phase[c[1]]
      BY <1>9, <3>1, <3>2
    <3> QED BY <1>4, <3>1, <3>3 DEF HalvesInv
  <2>2. ASSUME NEW c \in shut' PROVE phase'[c[1]] \in {"running", "gone"}
    <3>1. c \in Dirs /\ c[1] \in Visits /\ phase[c[1]] \in {"running", "gone"}
      BY <1>1, <1>4, Directions DEF HalvesInv, TypeOK
    <3> QED BY <1>9, <3>1
  <2>3. ASSUME NEW c \in Dirs, phase'[c[1]] = "running", c \notin on'
        PROVE  c \in shut' \/ halt'[c[1]] # "no"
    <3>1. CASE c = d
      BY <1>8, <3>1
    <3>2. CASE c # d
      BY <1>1, <1>4, <1>7, <1>9, <2>3, <3>2, Directions DEF HalvesInv
    <3> QED BY <3>1, <3>2
  <2> QED BY <2>1, <2>2, <2>3 DEF HalvesInv
<1> QED BY <1>6, <1>10

LEMMA PartyType ==
  ASSUME TypeOK, HalvesInv, NEW d \in Dirs, Send(d) \/ Leave(d)
  PROVE  TypeOK' /\ HalvesInv'
<1>1. UNCHANGED <<stopping, loop, sweep, phase, late, halt, on, taken, given, shut>>
  BY DEF Send, Leave, forward, pipes
<1>2. CASE Send(d)
  <2>1. sent' = [sent EXCEPT ![d] = @ + 1] /\ sent[d] < Load[d] /\ UNCHANGED party
    BY <1>2 DEF Send
  <2>2. sent[d] \in Nat /\ Load[d] \in Nat
    BY ForwarderAssumption DEF TypeOK, ForwarderAssumption
  <2> QED BY <1>1, <2>1, <2>2 DEF TypeOK, HalvesInv, Held
<1>3. CASE Leave(d)
  BY <1>1, <1>3 DEF TypeOK, HalvesInv, Held, Leave
<1> QED BY <1>2, <1>3

LEMMA StepType == TypeOK /\ HalvesInv /\ [Next]_vars => TypeOK' /\ HalvesInv'
<1> SUFFICES ASSUME TypeOK, HalvesInv, [Next]_vars PROVE TypeOK' /\ HalvesInv'
  OBVIOUS
<1>1. CASE UNCHANGED vars
  BY <1>1 DEF TypeOK, HalvesInv, vars, forward, pipes, parties, Held
<1> QED BY <1>1, ForwardType, VisitType, CopyType, EndType, PartyType DEF Next, Half

(* A half never writes what it has not read nor reads what was not sent,   *)
(* and holds at most a buffer; and a half that is over has told so.        *)
THEOREM TypeCorrect == Spec => []TypeOK
<1>1. TypeOK /\ HalvesInv /\ [Next]_vars => (TypeOK /\ HalvesInv)'
  BY StepType
<1> QED BY <1>1, InitType, PTL DEF Spec

LEMMA HalvesInvariant == Spec => [](TypeOK /\ HalvesInv)
<1>1. TypeOK /\ HalvesInv /\ [Next]_vars => (TypeOK /\ HalvesInv)'
  BY StepType
<1> QED BY <1>1, InitType, PTL DEF Spec
-----------------------------------------------------------------------------
(* The streams.                                                            *)

(* Steps that the parties do not see.                                      *)
LEMMA Unseen ==
  ASSUME TypeOK, UNCHANGED <<sent, given, party, halt, shut>>,
         \A v \in Visits : \/ phase'[v] = phase[v]
                           \/ phase[v] \notin {"running", "gone", "dropped"}
                              /\ phase'[v] \notin {"running", "gone", "dropped"}
  PROVE  UNCHANGED Rel!vars
<1>1. Fin' = Fin
  BY DEF Fin
<1>2. Paired' = Paired
  BY DEF Paired
<1>3. Failed' = Failed
  BY DEF Failed, Broke
<1>4. Over' = Over
  BY Directions DEF Over
<1> QED BY <1>1, <1>2, <1>3, <1>4 DEF Rel!vars

(* A visit fails: it may end in any way.                                   *)
LEMMA Fails ==
  ASSUME NEW V \in SUBSET Visits, UNCHANGED <<sent, given>>, Paired' = Paired,
         Failed' = Failed \cup V,
         \E F \in SUBSET (V \X Sides) : Fin' = Fin \cup F,
         \E E \in SUBSET (V \X Sides) : Over' = Over \cup E
  PROVE  Rel!Next
<1>1. Rel!Fail(V)
  BY DEF Rel!Fail
<1> QED BY <1>1 DEF Rel!Next

LEMMA ForwardMaps ==
  ASSUME TypeOK, HalvesInv, AcceptFails \/ Told \/ \E w \in DOMAIN sweep : Sweep(w)
  PROVE  Rel!Next \/ UNCHANGED Rel!vars
<1>1. CASE AcceptFails \/ Told
  BY <1>1, Unseen DEF AcceptFails, Told, pipes, parties
<1>2. ASSUME NEW w \in DOMAIN sweep, Sweep(w) PROVE Rel!Next
  <2> DEFINE V == {v \in Visits : v \in InMap /\ halt[v] = "no"}
  <2>1. UNCHANGED <<phase, shut, sent, given, party>>
    BY <1>2 DEF Sweep, parties
  <2>2. halt' = [v \in Visits |-> IF v \in V THEN "swept" ELSE halt[v]]
    BY <1>2 DEF Sweep, StopPipes
  <2> HIDE DEF V
  <2>3. V \in SUBSET Visits /\ \A v \in V : halt[v] = "no"
    BY DEF V
  <2>4. Paired' = Paired /\ Fin' = Fin \cup {}
    BY <2>1 DEF Paired, Fin
  <2>5. Failed' = Failed \cup V
    BY <2>1, <2>2, <2>3 DEF Failed, Broke
  <2>6. Over' = Over \cup (V \X Sides)
    <3>1. \A d \in Dirs : halt'[d[1]] # "no" <=> halt[d[1]] # "no" \/ d[1] \in V
      BY <2>2, <2>3, Directions
    <3>2. \A d \in Dirs : d \in V \X Sides <=> d[1] \in V
      BY <2>3 DEF Dirs
    <3>3. V \X Sides \subseteq Dirs
      BY <2>3 DEF Dirs
    <3> QED BY <2>1, <3>1, <3>2, <3>3 DEF Over
  <2> QED BY <2>1, <2>3, <2>4, <2>5, <2>6, Fails
<1> QED BY <1>1, <1>2

LEMMA VisitMaps ==
  ASSUME TypeOK, HalvesInv, NEW v \in Visits, Accept(v) \/ HandleSocket(v)
  PROVE  Rel!Next \/ UNCHANGED Rel!vars
<1>1. CASE Accept(v) \/ UpstreamGot(v) \/ Create(v)
  <2>1. UNCHANGED <<sent, given, party, halt, shut>>
    BY <1>1 DEF Accept, UpstreamGot, Create, parties
  <2>2. \A u \in Visits : \/ phase'[u] = phase[u]
                          \/ phase[u] \notin {"running", "gone", "dropped"}
                             /\ phase'[u] \notin {"running", "gone", "dropped"}
    BY <1>1 DEF Accept, UpstreamGot, Create, TypeOK
  <2> QED BY <2>1, <2>2, Unseen
<1>2. CASE UpstreamFails(v)
  <2>1. /\ phase[v] = "upstream" /\ phase' = [phase EXCEPT ![v] = "dropped"]
        /\ UNCHANGED <<sent, given, party, halt, shut>>
    BY <1>2 DEF UpstreamFails, parties
  <2>2. \A u \in Visits : phase'[u] = IF u = v THEN "dropped" ELSE phase[u]
    BY <2>1 DEF TypeOK
  <2>3. Paired' = Paired
    BY <2>1, <2>2 DEF Paired
  <2>4. Fin' = Fin \cup {}
    BY <2>1 DEF Fin
  <2>5. Failed' = Failed \cup {v}
    BY <2>1, <2>2 DEF Failed, Broke
  <2>6. Over' = Over \cup ({v} \X Sides)
    <3>1. \A d \in Dirs : d \in {v} \X Sides <=> d[1] = v
      BY DEF Dirs
    <3>2. {v} \X Sides \subseteq Dirs
      BY DEF Dirs
    <3> QED BY <2>1, <2>2, <3>1, <3>2, Directions DEF Over
  <2> QED BY <2>1, <2>3, <2>4, <2>5, <2>6, Fails
<1>3. CASE Run(v)
  <2>1. /\ phase[v] = "created" /\ phase' = [phase EXCEPT ![v] = "running"]
        /\ UNCHANGED <<sent, given, party, halt, shut>>
    BY <1>3 DEF Run, parties
  <2>2. \A u \in Visits : phase'[u] = IF u = v THEN "running" ELSE phase[u]
    BY <2>1 DEF TypeOK
  <2>3. Paired' = Paired \cup {v}
    BY <2>2 DEF Paired
  <2>4. Fin' = Fin /\ Failed' = Failed
    BY <2>1, <2>2 DEF Fin, Failed, Broke
  <2>5. Over' = Over
    BY <2>1, <2>2, Directions DEF Over
  <2>6. Rel!Pair(v)
    BY <2>1, <2>3, <2>4, <2>5 DEF Rel!Pair
  <2> QED BY <2>6 DEF Rel!Next
<1> QED BY <1>1, <1>2, <1>3 DEF HandleSocket

LEMMA CopyMaps ==
  ASSUME TypeOK, HalvesInv, NEW d \in Dirs, ReadSome(d) \/ WriteSome(d)
  PROVE  Rel!Next \/ UNCHANGED Rel!vars
<1>1. CASE ReadSome(d)
  BY <1>1, Unseen DEF ReadSome, parties
<1>2. CASE WriteSome(d)
  <2>1. PICK n \in 1..Held(d) : given' = [given EXCEPT ![d] = @ + n]
    BY <1>2 DEF WriteSome
  <2>2. UNCHANGED <<phase, halt, shut, sent, party>> /\ d \in on /\ Open(d[1])
    BY <1>2 DEF WriteSome, parties
  <2>3. given[d] \in Nat /\ taken[d] \in Nat /\ sent[d] \in Nat /\ taken[d] <= sent[d]
    BY DEF TypeOK
  <2>4. given[d] + n \in given[d] + 1 .. sent[d]
    BY <2>3 DEF Held
  <2>5. UNCHANGED <<Fin, Paired, Failed, Over>>
    BY <2>2 DEF Fin, Paired, Failed, Broke, Over
  <2>6. d[1] \in Paired /\ d \notin Over
    BY <2>2, Directions DEF Paired, Over, HalvesInv, Open
  <2>7. Rel!Deliver(d)
    BY <2>1, <2>2, <2>4, <2>5, <2>6 DEF Rel!Deliver
  <2> QED BY <2>7 DEF Rel!Next, Rel!Dirs, Dirs
<1> QED BY <1>1, <1>2

(* The end of a half leaves the other direction as it was.                 *)
LEMMA HalfOver ==
  ASSUME TypeOK, HalvesInv, NEW d \in Dirs, d \in on, HalfEnds(d), UNCHANGED party,
         \A v \in Visits : halt'[v] = halt[v] \/ (halt[v] = "no" /\ halt'[v] = "error"),
         d \in shut' \/ halt'[d[1]] # "no"
  PROVE  Paired' = Paired /\ Fin' = Fin /\ Failed' = Failed
<1>1. \A v \in Visits : \/ phase'[v] = phase[v]
                        \/ v = d[1] /\ phase[v] = "running" /\ phase'[v] = "gone"
  BY Directions DEF HalfEnds, HalvesInv, TypeOK
<1>2. Paired' = Paired
  BY <1>1 DEF Paired
<1>3. Failed' = Failed
  BY <1>1 DEF Failed, Broke
<1> QED BY <1>2, <1>3 DEF Fin

LEMMA EndMaps ==
  ASSUME TypeOK, HalvesInv, NEW d \in Dirs, EndsClean(d) \/ Throws(d)
  PROVE  Rel!Next \/ UNCHANGED Rel!vars
<1>1. d \in on /\ HalfEnds(d) /\ UNCHANGED <<sent, given, party>>
  BY DEF EndsClean, Throws, parties
<1>2. d[1] \in Visits /\ phase[d[1]] = "running" /\ d \notin shut
  BY <1>1, Directions DEF HalvesInv
<1>3. \A c \in Dirs : \/ phase'[c[1]] = phase[c[1]]
                      \/ (c = d \/ c = Back(d)) /\ phase'[c[1]] = "gone" /\ Back(d) \notin on
  BY <1>1, Directions DEF HalfEnds, TypeOK
<1>4. d \in {d[1]} \X Sides /\ Back(d) \in {d[1]} \X Sides /\ {d[1]} \in SUBSET Visits
  BY <1>2, Directions DEF Dirs, Back
<1>5. PartyBroke(d) => d[1] \in Failed
  <2>1. d = <<d[1], d[2]>> /\ d[2] \in Sides /\ Back(d) = <<d[1], Back(d)[2]>> /\ Back(d)[2] \in Sides
    BY Directions DEF Back
  <2> QED BY <1>2, <2>1 DEF PartyBroke, Failed, Broke
<1>6. CASE EndsClean(d)
  <2>1. /\ shut' = shut \cup {d} /\ halt' = halt /\ halt[d[1]] = "no"
        /\ ReadEof(d) \/ PartyBroke(d)
    BY <1>6 DEF EndsClean, Open
  <2>2. Paired' = Paired /\ Fin' = Fin /\ Failed' = Failed
    BY <1>1, <2>1, HalfOver
  <2>3. Back(d) \notin on => Back(d) \in shut
    BY <1>2, <2>1, Directions DEF HalvesInv
  <2>4. Over' = Over \cup {d}
    BY <1>2, <1>3, <2>1, <2>3, Directions DEF Over
  <2>5. CASE ReadEof(d)
    <3>1. d[1] \in Paired /\ d \notin Over
      BY <1>2, <2>1 DEF Paired, Over
    <3>2. d \in Fin /\ given[d] = sent[d]
      BY <2>5 DEF ReadEof, Held, Fin, TypeOK
    <3>3. Rel!End(d)
      BY <1>1, <2>2, <2>4, <3>1, <3>2 DEF Rel!End
    <3> QED BY <3>3 DEF Rel!Next, Rel!Dirs, Dirs
  <2>6. CASE PartyBroke(d)
    <3>1. Failed' = Failed \cup {d[1]} /\ Fin' = Fin \cup {}
      BY <1>5, <2>2, <2>6
    <3> QED BY <1>1, <1>4, <2>2, <2>4, <3>1, Fails
  <2> QED BY <2>1, <2>5, <2>6
<1>7. CASE Throws(d)
  <2>1. /\ shut' = shut /\ (~Open(d[1]) \/ PartyBroke(d))
        /\ halt' = [halt EXCEPT ![d[1]] = IF @ = "no" THEN "error" ELSE @]
    BY <1>7 DEF Throws
  <2>2. \A v \in Visits : halt'[v] = IF v = d[1] /\ halt[v] = "no" THEN "error" ELSE halt[v]
    BY <2>1 DEF TypeOK
  <2>3. Paired' = Paired /\ Fin' = Fin /\ Failed' = Failed
    BY <1>1, <1>2, <2>2, HalfOver
  <2>4. Over' = Over \cup {d, Back(d)}
    <3>1. \A c \in {d, Back(d)} : c \in Dirs /\ halt'[c[1]] # "no"
      BY <1>2, <2>2, Directions
    <3>2. \A c \in Dirs : c \notin {d, Back(d)} => c[1] # d[1]
      BY Directions
    <3>3. \A c \in Dirs : c \notin {d, Back(d)} =>
            halt'[c[1]] = halt[c[1]] /\ phase'[c[1]] = phase[c[1]]
      BY <1>3, <2>2, <3>2, Directions
    <3>4. Over \subseteq Dirs /\ Over' \subseteq Dirs /\ {d, Back(d)} \subseteq Dirs
      BY <3>1 DEF Over
    <3>5. \A c \in {d, Back(d)} : c \in Over'
      BY <3>1 DEF Over
    <3>6. \A c \in Dirs : c \notin {d, Back(d)} => (c \in Over' <=> c \in Over)
      BY <2>1, <3>3 DEF Over
    <3> QED BY <3>4, <3>5, <3>6
  <2>5. CASE PartyBroke(d)
    <3>1. Failed' = Failed \cup {d[1]} /\ Fin' = Fin \cup {}
      BY <1>5, <2>3, <2>5
    <3> QED BY <1>1, <1>4, <2>3, <2>4, <3>1, Fails
  <2>6. CASE ~Open(d[1])
    <3>1. d \in Over /\ Back(d) \in Over
      BY <1>2, <2>6, Directions DEF Over, Open
    <3> QED BY <1>1, <2>3, <2>4, <3>1 DEF Rel!vars
  <2> QED BY <2>1, <2>5, <2>6
<1> QED BY <1>6, <1>7

LEMMA PartyMaps ==
  ASSUME TypeOK, HalvesInv, NEW d \in Dirs, Send(d) \/ Leave(d)
  PROVE  Rel!Next \/ UNCHANGED Rel!vars
<1>1. UNCHANGED <<phase, halt, shut, given>>
  BY DEF Send, Leave, pipes
<1>2. Paired' = Paired /\ Over' = Over
  BY <1>1 DEF Paired, Over
<1>3. CASE Send(d)
  <2>1. sent' = [sent EXCEPT ![d] = @ + 1] /\ UNCHANGED party /\ party[d] = "open"
    BY <1>3 DEF Send
  <2>2. Fin' = Fin /\ Failed' = Failed /\ d \notin Fin
    BY <1>1, <2>1 DEF Fin, Failed, Broke
  <2>3. Rel!Write(d)
    BY <1>1, <1>2, <2>1, <2>2 DEF Rel!Write
  <2> QED BY <2>3 DEF Rel!Next, Rel!Dirs, Dirs
<1>4. ASSUME party[d] = "open", party' = [party EXCEPT ![d] = "fin"], UNCHANGED sent
      PROVE  Rel!Next
  <2>1. Fin' = Fin \cup {d}
    BY <1>4 DEF Fin, TypeOK
  <2>2. \A v \in Visits : Broke(v)' <=> Broke(v)
    BY <1>4, Directions DEF Broke, TypeOK
  <2>3. Failed' = Failed
    BY <1>1, <2>2 DEF Failed
  <2>4. Rel!Finish(d)
    BY <1>1, <1>2, <1>4, <2>1, <2>3 DEF Rel!Finish
  <2> QED BY <2>4 DEF Rel!Next, Rel!Dirs, Dirs
<1>5. ASSUME party' = [party EXCEPT ![d] = "broken"], UNCHANGED sent
      PROVE  Rel!Next
  <2>1. Fin' = Fin \cup {d}
    BY <1>5 DEF Fin, TypeOK
  <2>2. \A v \in Visits : Broke(v)' <=> Broke(v) \/ v = d[1]
    BY <1>5, Directions DEF Broke, TypeOK
  <2>3. Failed' = Failed \cup {d[1]}
    BY <1>1, <2>2, Directions DEF Failed
  <2>4. {d} \in SUBSET ({d[1]} \X Sides) /\ {d[1]} \in SUBSET Visits /\ Over' = Over \cup {}
    BY <1>2, Directions DEF Dirs
  <2> QED BY <1>1, <1>2, <1>5, <2>1, <2>3, <2>4, Fails
<1> QED BY <1>3, <1>4, <1>5 DEF Leave

(* Whatever the forwarder and its pipes do, the parties of each visit see  *)
(* two streams: a prefix of what was sent, in order, and an end that is    *)
(* told only after all of it, or when the visit has failed.  (That all of  *)
(* it arrives is liveness, and model-checked.)                             *)
THEOREM RelaysSafely == Spec => Rel!Safety
<1>1. Init => Rel!Init
  <2> SUFFICES ASSUME Init PROVE Rel!Init
    OBVIOUS
  <2>1. Fin = {} /\ Paired = {}
    BY DEF Init, Fin, Paired
  <2>2. Failed = {}
    BY Directions DEF Init, Failed, Broke
  <2>3. Over = {}
    BY Directions DEF Init, Over
  <2> QED BY <2>1, <2>2, <2>3 DEF Init, Rel!Init, Rel!Dirs, Dirs
<1>2. TypeOK /\ HalvesInv /\ [Next]_vars => [Rel!Next]_Rel!vars
  <2> SUFFICES ASSUME TypeOK, HalvesInv, [Next]_vars PROVE Rel!Next \/ UNCHANGED Rel!vars
    OBVIOUS
  <2>1. CASE UNCHANGED vars
    BY <2>1, Unseen DEF vars, pipes, parties
  <2> QED BY <2>1, ForwardMaps, VisitMaps, CopyMaps, EndMaps, PartyMaps DEF Next, Half
<1> QED BY <1>1, <1>2, HalvesInvariant, PTL DEF Spec, Rel!Safety
=============================================================================
