------------------------- MODULE ServerRegistryProofs -------------------------
(* Proofs that names are unique among the living, for any number of        *)
(* connections, clients, shares and workers, and for stops at any moment.  *)
EXTENDS ServerRegistry, SequenceTheorems, TLAPS

(* A hello names a uuid, and ids in the order in which they are added.     *)
LEMMA HelloIds ==
  ASSUME NEW h \in ClientHellos
  PROVE  h.uuid \in Uuids /\ h.ids \in Seq(Ids)
<1>1. h.uuid \in Uuids
  BY DEF Uuids
<1>2. ToSet(h.ids) \subseteq Ids
  BY DEF Ids
<1>3. h.ids \in Seq(ToSet(h.ids))
  BY RegistryAssumption DEF RegistryAssumption
<1> QED BY <1>1, <1>2, <1>3, SeqMonotonic

LEMMA WorkerIds == WorkerHellos \subseteq Ids
BY DEF Ids

SockStates == {"none", "open", "read", "closed", "adding", "rejected", "ctrl", "worker"}
WorkerStates == {"none", "new", "idle", "visited", "stopped", "piped", "dead"}

LEMMA InitType == Init => TypeOK
<1>1. \A S : <<>> \in Seq(S)
  BY EmptySeq
<1> QED BY <1>1 DEF Init, TypeOK

(* A stop moves controllers, shares and workers among their states.        *)
LEMMA StopType ==
  ASSUME TypeOK, NEW K \in SUBSET Conns, NEW F, StopCtrls(K, F)
  PROVE  /\ stopping' \subseteq Conns /\ closing' \subseteq Shares /\ told' \subseteq Shares
         /\ worker' \in [Conns -> {"none", "new", "idle", "visited", "stopped", "piped", "dead"}]
<1> DEFINE swept == {s \in added : s[1] \in K /\ LiveShare(s)}
<1>1. swept \subseteq Shares
  BY DEF TypeOK
<1>2. /\ stopping' = stopping \cup K /\ closing' = closing \cup swept
      /\ told' = told \cup {s \in swept : fwd[s] = "listening"}
  BY DEF StopCtrls, Tell
<1>3. worker' = [k \in Conns |->
                    CASE worker[k] = "idle" /\ of[k] \in swept -> "stopped"
                      [] worker[k] = "piped" /\ of[k] \in F -> "dead"
                      [] OTHER -> worker[k]]
  BY DEF StopCtrls
<1> HIDE DEF swept
<1>4. worker' \in [Conns -> {"none", "new", "idle", "visited", "stopped", "piped", "dead"}]
  BY <1>3 DEF TypeOK
<1> QED BY <1>1, <1>2, <1>4 DEF TypeOK

LEMMA MainType ==
  ASSUME TypeOK, NEW k \in Conns, Main(k)
  PROVE  TypeOK'
<1>1. CASE Accept(k) \/ NoHello(k) \/ HelloRead(k) \/ HelloLate(k)
  <2>1. CASE Accept(k)
    BY <2>1 DEF TypeOK, Accept, ctrlVars
  <2>2. CASE NoHello(k) \/ HelloRead(k)
    BY <2>2 DEF TypeOK, NoHello, HelloRead, ctrlVars
  <2>3. CASE HelloLate(k)
    BY <2>3 DEF TypeOK, HelloLate, ctrlVars
  <2> QED BY <1>1, <2>1, <2>2, <2>3
<1>2. ASSUME NEW h \in ClientHellos, ClientHello(k, h)
      PROVE  TypeOK'
  <2>1. sock' \in [Conns -> SockStates]
    BY <1>2 DEF TypeOK, ClientHello, SockStates
  <2>2. /\ hello' \in [Conns -> ClientHellos \cup {None}]
        /\ todo' \in [Conns -> Seq(Ids)]
        /\ ctrls' \in [Uuids -> Conns \cup {None}]
    <3>1. h.uuid \in Uuids /\ h.ids \in Seq(Ids)
      BY <1>2, HelloIds
    <3>2. CASE UNCHANGED <<hello, todo, ctrls>>
      BY <3>2 DEF TypeOK
    <3>3. CASE /\ ctrls' = [ctrls EXCEPT ![h.uuid] = k]
               /\ hello' = [hello EXCEPT ![k] = h]
               /\ todo' = [todo EXCEPT ![k] = h.ids]
      BY <1>2, <3>1, <3>3 DEF TypeOK
    <3> QED BY <1>2, <3>2, <3>3 DEF ClientHello
  <2> QED BY <1>2, <2>1, <2>2 DEF TypeOK, ClientHello, ctrlVars, SockStates
<1>3. CASE AddShare(k)
  <2>1. Head(todo[k]) \in Ids /\ Tail(todo[k]) \in Seq(Ids)
    BY <1>3, HeadTailProperties DEF TypeOK, AddShare
  <2>2. <<>> \in Seq(Ids)
    BY EmptySeq
  <2>3. <<k, Head(todo[k])>> \in Shares
    BY <2>1 DEF Shares
  <2>4. sock' \in [Conns -> SockStates] /\ todo' \in [Conns -> Seq(Ids)]
    <3>1. sock' \in [Conns -> SockStates]
      BY <1>3 DEF TypeOK, AddShare, SockStates
    <3>2. PICK v \in Seq(Ids) : todo' = [todo EXCEPT ![k] = v]
      BY <1>3, <2>1, <2>2 DEF AddShare
    <3> QED BY <3>1, <3>2 DEF TypeOK
  <2>5. shares' \in [Ids -> Conns \cup {None}] /\ added' \subseteq Shares
    <3>1. CASE UNCHANGED <<shares, added>>
      BY <3>1 DEF TypeOK
    <3>2. CASE /\ shares' = [shares EXCEPT ![Head(todo[k])] = k]
               /\ added' = added \cup {<<k, Head(todo[k])>>}
      BY <2>1, <2>3, <3>2 DEF TypeOK
    <3> QED BY <1>3, <3>1, <3>2 DEF AddShare, Register
  <2>6. fwd' \in [Shares -> {"none", "spawned", "bound", "listening", "ended"}]
    BY <1>3, <2>1, <2>3 DEF TypeOK, AddShare
  <2>7. UNCHANGED <<hello, ctrls, runs, of, late, shut, serving, ctrlVars>>
    BY <1>3 DEF AddShare
  <2> QED BY <2>4, <2>5, <2>6, <2>7 DEF TypeOK, ctrlVars, SockStates
<1>4. CASE RunCtrl(k)
  <2>1. runs' \in [Conns -> SUBSET {"recv", "hello", "send"}] /\ sock' \in [Conns -> SockStates]
    BY <1>4 DEF TypeOK, RunCtrl, SockStates
  <2>2. UNCHANGED <<hello, todo, ctrls, shares, added, fwd, of, late, shut, serving, ctrlVars>>
    BY <1>4 DEF RunCtrl
  <2> QED BY <2>1, <2>2 DEF TypeOK, ctrlVars, SockStates
<1>5. ASSUME NEW i \in WorkerHellos, WorkerHello(k, i)
      PROVE  TypeOK'
  <2>1. i \in Ids
    BY WorkerIds
  <2>2. CASE Taken(i)
    <3>1. <<shares[i], i>> \in Shares
      BY <2>1, <2>2 DEF TypeOK, Taken, Shares
    <3>2. sock' \in [Conns -> SockStates] /\ worker' \in [Conns -> WorkerStates]
      BY <1>5, <2>2 DEF TypeOK, WorkerHello, SockStates, WorkerStates
    <3>3. of' \in [Conns -> Shares \cup {NoShare}]
      BY <1>5, <2>2, <3>1 DEF TypeOK, WorkerHello
    <3>4. late' \subseteq Conns
      BY <1>5, <2>2 DEF TypeOK, WorkerHello
    <3> QED BY <1>5, <2>2, <3>2, <3>3, <3>4 DEF TypeOK, WorkerHello, SockStates, WorkerStates
  <2>3. CASE ~Taken(i)
    BY <1>5, <2>3 DEF TypeOK, WorkerHello
  <2> QED BY <2>2, <2>3
<1>6. CASE GotWorker(k) \/ VisitWorker(k) \/ PipeCreated(k) \/ WorkerEnds(k)
  <2>1. worker' \in [Conns -> WorkerStates]
    BY <1>6 DEF TypeOK, GotWorker, VisitWorker, PipeCreated, WorkerEnds, WorkerStates
  <2>2. UNCHANGED <<sock, hello, todo, ctrls, shares, runs, added, fwd, of, late, shut, serving,
                    stopping, closing, told>>
    BY <1>6 DEF GotWorker, VisitWorker, PipeCreated, WorkerEnds
  <2> QED BY <2>1, <2>2 DEF TypeOK, WorkerStates
<1>7. CASE HelloSent(k) \/ HelloNotSent(k)
  <2>1. runs' \in [Conns -> SUBSET {"recv", "hello", "send"}]
    <3>1. runs[k] \subseteq {"recv", "hello", "send"}
      BY DEF TypeOK
    <3>2. PICK r \in SUBSET {"recv", "hello", "send"} : runs' = [runs EXCEPT ![k] = r]
      BY <1>7, <3>1 DEF HelloSent, HelloNotSent
    <3> QED BY <3>2 DEF TypeOK
  <2>2. UNCHANGED <<sock, hello, todo, ctrls, shares, added, fwd, of, late, shut, serving, ctrlVars>>
    BY <1>7 DEF HelloSent, HelloNotSent
  <2> QED BY <2>1, <2>2 DEF TypeOK, ctrlVars
<1>8. CASE CtrlFails(k)
  <2>1. runs' \in [Conns -> SUBSET {"recv", "hello", "send"}]
    BY <1>8 DEF TypeOK, CtrlFails
  <2>2. CASE UNCHANGED ctrlVars
    BY <1>8, <2>1, <2>2 DEF TypeOK, CtrlFails, ctrlVars
  <2>3. CASE StopCtrls({k}, {})
    BY <1>8, <2>1, <2>3, StopType DEF TypeOK, CtrlFails
  <2> QED BY <1>8, <2>2, <2>3 DEF CtrlFails
<1> QED BY <1>1, <1>2, <1>3, <1>4, <1>5, <1>6, <1>7, <1>8 DEF Main

LEMMA ForwarderType ==
  ASSUME TypeOK, NEW s \in Shares, Forwarders(s)
  PROVE  TypeOK'
<1>1. CASE FwdBind(s) \/ FwdPublish(s)
  BY <1>1 DEF TypeOK, FwdBind, FwdPublish, ctrlVars
<1>2. CASE FwdStopped(s)
  BY <1>2 DEF TypeOK, FwdStopped, DropPipes
<1>3. CASE FwdFails(s)
  <2>1. {s[1]} \in SUBSET Conns
    BY DEF Shares
  <2>2. CASE s \in closing
    BY <1>3, <2>2 DEF TypeOK, FwdFails, DropPipes
  <2>3. CASE s \notin closing
    BY <1>3, <2>1, <2>3, StopType DEF TypeOK, FwdFails
  <2> QED BY <2>2, <2>3
<1> QED BY <1>1, <1>2, <1>3 DEF Forwarders

LEMMA ServerType ==
  ASSUME TypeOK, StopServer \/ ServeEnds
  PROVE  TypeOK'
<1>1. CASE StopServer
  <2> DEFINE K == {k \in Conns : \E u \in Uuids : ctrls[u] = k /\ LiveCtrl(k)}
  <2>1. K \in SUBSET Conns /\ StopCtrls(K, {})
    BY <1>1 DEF StopServer, StopEveryone
  <2>2. sock' \in [Conns -> {"none", "open", "read", "closed", "adding", "rejected", "ctrl", "worker"}]
    BY <1>1 DEF TypeOK, StopServer
  <2> QED BY <1>1, <2>1, <2>2, StopType DEF TypeOK, StopServer
<1>2. CASE ServeEnds
  BY <1>2 DEF TypeOK, ServeEnds, ctrlVars
<1> QED BY <1>1, <1>2

LEMMA StepType == TypeOK /\ [Next]_vars => TypeOK'
<1> SUFFICES ASSUME TypeOK, [Next]_vars PROVE TypeOK'
  OBVIOUS
<1>1. CASE UNCHANGED vars
  BY <1>1 DEF TypeOK, vars
<1> QED BY <1>1, MainType, ForwarderType, ServerType DEF Next

(* The registry's variables keep their types, with any number of           *)
(* connections and hellos.                                                 *)
THEOREM TypeCorrect == Spec => []TypeOK
<1> QED BY InitType, StepType, PTL DEF Spec

-----------------------------------------------------------------------------
(* Who lives.  Most steps let nobody new live, and register nobody.        *)

Alive == {"spawned", "bound", "listening"}

LEMMA NobodyNew ==
  ASSUME LiveIsRegistered, UNCHANGED <<hello, ctrls, shares>>,
         \A s \in Shares : fwd[s]' \in Alive => fwd[s] \in Alive,
         \A k \in Conns : Holds(k)' => Holds(k) /\ of[k]' = of[k],
         \A k \in Conns : runs[k]' # {} => runs[k] # {},
         \A k \in Conns : sock[k]' = "adding" => sock[k] = "adding"
  PROVE  LiveIsRegistered'
<1>1. \A s \in Shares : LiveShare(s)' => LiveShare(s)
  BY DEF LiveShare, Alive
<1>2. \A k \in Conns, i \in Ids : <<k, i>> \in Shares
  BY DEF Shares
<1>3. \A k \in Conns : LiveCtrl(k)' => LiveCtrl(k)
  BY <1>1, <1>2 DEF LiveCtrl
<1>4. \A k \in Conns : LiveCtrl(k)' => hello[k]' # None /\ ctrls[hello[k].uuid]' = k
  BY <1>3 DEF LiveIsRegistered
<1>5. \A s \in Shares : LiveShare(s)' => shares[s[2]]' = s[1]
  BY <1>1 DEF LiveIsRegistered
<1> QED BY <1>4, <1>5 DEF LiveIsRegistered

(* A stop lets nobody new live.                                            *)
LEMMA StopHolds ==
  ASSUME TypeOK, NEW K, NEW F, StopCtrls(K, F), UNCHANGED of
  PROVE  \A k \in Conns : Holds(k)' => Holds(k) /\ of[k]' = of[k]
<1> SUFFICES ASSUME NEW k \in Conns, Holds(k)' PROVE Holds(k) /\ of[k]' = of[k]
  OBVIOUS
<1>1. worker[k]' \in {"stopped", "dead", worker[k]}
  BY DEF StopCtrls
<1>2. worker[k]' = "stopped" => worker[k] \in {"idle", "stopped"}
  BY DEF StopCtrls
<1>3. worker[k]' # "dead"
  BY DEF Holds
<1> QED BY <1>1, <1>2, <1>3 DEF Holds

(* A client's hello is registered only if its uuid names nobody alive.     *)
LEMMA ClientHelloKeeps ==
  ASSUME TypeOK, LiveIsRegistered, NEW k \in Conns, NEW h \in ClientHellos, ClientHello(k, h)
  PROVE  LiveIsRegistered'
<1>0. UNCHANGED <<shares, runs, fwd, of, worker>>
  BY DEF ClientHello, ctrlVars
<1>1. \A s \in Shares : LiveShare(s)' <=> LiveShare(s)
  BY <1>0 DEF LiveShare, Holds
<1>2. \A s \in Shares : LiveShare(s)' => shares[s[2]]' = s[1]
  BY <1>0, <1>1 DEF LiveIsRegistered
<1>3. \A c \in Conns, i \in Ids : <<c, i>> \in Shares
  BY DEF Shares
<1>4. CASE Connected(h.uuid)
  BY <1>0, <1>4, NobodyNew DEF ClientHello, TypeOK, Holds
<1>5. CASE ~Connected(h.uuid)
  <2>1. /\ ctrls' = [ctrls EXCEPT ![h.uuid] = k] /\ hello' = [hello EXCEPT ![k] = h]
        /\ sock' = [sock EXCEPT ![k] = "adding"]
    BY <1>5 DEF ClientHello
  <2>2. h.uuid \in Uuids /\ h # None /\ None \notin Conns
    BY HelloIds, RegistryAssumption DEF RegistryAssumption
  <2>3. hello[k]' = h /\ ctrls[h.uuid]' = k
    BY <2>1, <2>2 DEF TypeOK
  <2>4. ASSUME NEW c \in Conns, c # k, LiveCtrl(c)'
        PROVE  hello[c]' # None /\ ctrls[hello[c].uuid]' = c
    <3>1. LiveCtrl(c)
      BY <1>0, <1>1, <1>3, <2>1, <2>4 DEF LiveCtrl, TypeOK
    <3>2. hello[c] # None /\ ctrls[hello[c].uuid] = c
      BY <3>1 DEF LiveIsRegistered
    <3>3. hello[c]' = hello[c]
      BY <2>1, <2>4 DEF TypeOK
    <3>4. hello[c] \in ClientHellos /\ hello[c].uuid \in Uuids
      BY <3>2, HelloIds DEF TypeOK
    <3>5. hello[c].uuid # h.uuid
      BY <1>5, <2>2, <3>1, <3>2 DEF Connected
    <3> QED BY <2>1, <3>2, <3>3, <3>4, <3>5 DEF TypeOK
  <2> QED BY <1>2, <2>2, <2>3, <2>4 DEF LiveIsRegistered
<1> QED BY <1>4, <1>5

(* A share is registered only if its id names no share alive.              *)
LEMMA AddShareKeeps ==
  ASSUME TypeOK, LiveIsRegistered, NEW k \in Conns, AddShare(k)
  PROVE  LiveIsRegistered'
<1> DEFINE i == Head(todo[k])
<1>0. i \in Ids
  BY HeadTailProperties DEF TypeOK, AddShare
<1>1. <<k, i>> \in Shares /\ \A c \in Conns, j \in Ids : <<c, j>> \in Shares
  BY <1>0 DEF Shares
<1>2. UNCHANGED <<hello, ctrls, runs, of, worker>> /\ sock[k] = "adding"
  BY DEF AddShare, ctrlVars
<1>3. CASE Taken(i)
  <2>1. UNCHANGED <<shares, fwd>> /\ sock' = [sock EXCEPT ![k] = "rejected"]
    BY <1>3 DEF AddShare
  <2> QED BY <1>2, <2>1, NobodyNew DEF TypeOK, Holds
<1>4. CASE ~Taken(i)
  <2>1. /\ shares' = [shares EXCEPT ![i] = k] /\ UNCHANGED sock
        /\ fwd' = [fwd EXCEPT ![<<k, i>>] = "spawned"]
    BY <1>4 DEF AddShare, Register
  <2> HIDE DEF i
  <2>2. ASSUME NEW s \in Shares, s # <<k, i>>, LiveShare(s)' PROVE LiveShare(s)
    BY <1>1, <1>2, <2>1, <2>2 DEF LiveShare, Holds, TypeOK
  <2>3. ASSUME NEW s \in Shares, LiveShare(s)' PROVE shares[s[2]]' = s[1]
    <3>1. CASE s = <<k, i>>
      BY <1>0, <2>1, <3>1 DEF TypeOK
    <3>2. CASE s # <<k, i>>
      <4>1. LiveShare(s) /\ shares[s[2]] = s[1]
        BY <2>2, <2>3, <3>2 DEF LiveIsRegistered
      <4>2. s[1] \in Conns /\ s[2] \in Ids /\ s = <<s[1], s[2]>>
        BY DEF Shares
      <4>3. s[2] # i
        BY <1>4, <4>1, <4>2, RegistryAssumption DEF Taken, RegistryAssumption
      <4> QED BY <2>1, <4>1, <4>2, <4>3 DEF TypeOK
    <3> QED BY <3>1, <3>2
  <2>4. ASSUME NEW c \in Conns, LiveCtrl(c)' PROVE LiveCtrl(c)
    <3>1. CASE c = k
      BY <1>2, <3>1 DEF LiveCtrl
    <3>2. CASE c # k
      <4>1. \A j \in Ids : LiveShare(<<c, j>>)' => LiveShare(<<c, j>>)
        BY <1>1, <2>2, <3>2
      <4> QED BY <1>2, <2>1, <2>4, <4>1 DEF LiveCtrl
    <3> QED BY <3>1, <3>2
  <2> QED BY <1>2, <2>3, <2>4 DEF LiveIsRegistered
<1> QED BY <1>3, <1>4

(* A worker joins a share that lives and is the one registered.            *)
LEMMA WorkerHelloKeeps ==
  ASSUME TypeOK, LiveIsRegistered, NEW k \in Conns, NEW i \in WorkerHellos, WorkerHello(k, i)
  PROVE  LiveIsRegistered'
<1>0. i \in Ids
  BY WorkerIds
<1>1. UNCHANGED <<hello, ctrls, shares, runs, fwd>>
  BY DEF WorkerHello
<1>2. \A c \in Conns : sock[c]' = "adding" => sock[c] = "adding"
  BY DEF WorkerHello, TypeOK
<1>3. CASE ~Taken(i)
  <2>1. UNCHANGED <<worker, of>>
    BY <1>3 DEF WorkerHello
  <2> QED BY <1>1, <1>2, <2>1, NobodyNew DEF Holds
<1>4. CASE Taken(i)
  <2> DEFINE t == <<shares[i], i>>
  <2>1. t \in Shares /\ LiveShare(t)
    BY <1>0, <1>4 DEF Taken, TypeOK, Shares
  <2>2. worker' = [worker EXCEPT ![k] = "new"] /\ of' = [of EXCEPT ![k] = t]
    BY <1>4 DEF WorkerHello
  <2> HIDE DEF t
  <2>3. ASSUME NEW s \in Shares, LiveShare(s)' PROVE LiveShare(s)
    <3>1. CASE s = t
      BY <2>1, <3>1
    <3>2. CASE s # t
      <4>1. \A c \in Conns : Holds(c)' /\ of[c]' = s => Holds(c) /\ of[c] = s
        BY <2>2, <3>2 DEF Holds, TypeOK
      <4> QED BY <1>1, <2>3, <4>1 DEF LiveShare
    <3> QED BY <3>1, <3>2
  <2>4. \A c \in Conns, j \in Ids : <<c, j>> \in Shares
    BY DEF Shares
  <2>5. ASSUME NEW c \in Conns, LiveCtrl(c)' PROVE LiveCtrl(c)
    BY <1>1, <1>2, <2>3, <2>4, <2>5 DEF LiveCtrl
  <2> QED BY <1>1, <2>3, <2>5 DEF LiveIsRegistered
<1> QED BY <1>3, <1>4

LEMMA MainKeeps ==
  ASSUME TypeOK, LiveIsRegistered, NEW k \in Conns, Main(k)
  PROVE  LiveIsRegistered'
<1>1. CASE Accept(k) \/ NoHello(k) \/ HelloRead(k)
  <2>1. \A c \in Conns : sock[c]' = "adding" => sock[c] = "adding"
    BY <1>1 DEF Accept, NoHello, HelloRead, TypeOK
  <2>2. UNCHANGED <<hello, ctrls, shares, runs, fwd, of, worker>>
    BY <1>1 DEF Accept, NoHello, HelloRead, ctrlVars
  <2> QED BY <2>1, <2>2, NobodyNew DEF Holds
<1>2. CASE HelloLate(k)
  BY <1>2, NobodyNew DEF HelloLate, ctrlVars, Holds
<1>3. ASSUME NEW h \in ClientHellos, ClientHello(k, h) PROVE LiveIsRegistered'
  BY <1>3, ClientHelloKeeps
<1>4. CASE AddShare(k)
  BY <1>4, AddShareKeeps
<1>5. CASE RunCtrl(k)
  <2>1. UNCHANGED <<hello, ctrls, shares, fwd, of, worker>> /\ sock[k] = "adding"
    BY <1>5 DEF RunCtrl, ctrlVars
  <2>2. \A s \in Shares : LiveShare(s)' <=> LiveShare(s)
    BY <2>1 DEF LiveShare, Holds
  <2>3. \A c \in Conns, i \in Ids : <<c, i>> \in Shares
    BY DEF Shares
  <2>4. ASSUME NEW c \in Conns, LiveCtrl(c)' PROVE LiveCtrl(c)
    <3>1. CASE c = k
      BY <2>1, <3>1 DEF LiveCtrl
    <3>2. CASE c # k
      <4>1. runs[c]' = runs[c] /\ sock[c]' = sock[c]
        BY <1>5, <3>2 DEF RunCtrl, TypeOK
      <4> QED BY <2>2, <2>3, <2>4, <4>1 DEF LiveCtrl
    <3> QED BY <3>1, <3>2
  <2> QED BY <2>1, <2>2, <2>4 DEF LiveIsRegistered
<1>6. ASSUME NEW i \in WorkerHellos, WorkerHello(k, i) PROVE LiveIsRegistered'
  BY <1>6, WorkerHelloKeeps
<1>7. CASE GotWorker(k) \/ VisitWorker(k) \/ PipeCreated(k) \/ WorkerEnds(k)
  <2>1. UNCHANGED <<sock, hello, ctrls, shares, runs, fwd, of>>
    BY <1>7 DEF GotWorker, VisitWorker, PipeCreated, WorkerEnds
  <2>2. \A c \in Conns : Holds(c)' => Holds(c)
    BY <1>7 DEF GotWorker, VisitWorker, PipeCreated, WorkerEnds, Holds, TypeOK
  <2> QED BY <2>1, <2>2, NobodyNew
<1>8. CASE HelloSent(k) \/ HelloNotSent(k)
  <2>1. UNCHANGED <<sock, hello, ctrls, shares, fwd, of, worker>>
    BY <1>8 DEF HelloSent, HelloNotSent, ctrlVars
  <2>2. \A c \in Conns : runs[c]' # {} => runs[c] # {}
    BY <1>8 DEF HelloSent, HelloNotSent, TypeOK
  <2> QED BY <2>1, <2>2, NobodyNew DEF Holds
<1>9. CASE CtrlFails(k)
  <2>1. UNCHANGED <<sock, hello, ctrls, shares, fwd, of>>
    BY <1>9 DEF CtrlFails
  <2>2. \A c \in Conns : runs[c]' # {} => runs[c] # {}
    BY <1>9 DEF CtrlFails, TypeOK
  <2>3. \A c \in Conns : Holds(c)' => Holds(c) /\ of[c]' = of[c]
    <3>1. CASE UNCHANGED worker
      BY <2>1, <3>1 DEF Holds
    <3>2. CASE StopCtrls({k}, {})
      BY <2>1, <3>2, StopHolds
    <3> QED BY <1>9, <3>1, <3>2 DEF CtrlFails, ctrlVars
  <2> QED BY <2>1, <2>2, <2>3, NobodyNew
<1> QED BY <1>1, <1>2, <1>3, <1>4, <1>5, <1>6, <1>7, <1>8, <1>9 DEF Main

LEMMA ForwarderKeeps ==
  ASSUME TypeOK, LiveIsRegistered, NEW s \in Shares, Forwarders(s)
  PROVE  LiveIsRegistered'
<1>1. UNCHANGED <<sock, hello, ctrls, shares, runs, of>>
  BY DEF Forwarders, FwdBind, FwdPublish, FwdFails, FwdStopped
<1>2. \A t \in Shares : fwd[t]' \in Alive => fwd[t] \in Alive
  BY DEF Forwarders, FwdBind, FwdPublish, FwdFails, FwdStopped, TypeOK, Alive
<1>3. \A c \in Conns : Holds(c)' => Holds(c) /\ of[c]' = of[c]
  <2>1. CASE UNCHANGED worker
    BY <1>1, <2>1 DEF Holds
  <2>2. CASE DropPipes(s)
    BY <1>1, <2>2 DEF DropPipes, Holds
  <2>3. CASE StopCtrls({s[1]}, {s})
    BY <1>1, <2>3, StopHolds
  <2> QED BY <2>1, <2>2, <2>3 DEF Forwarders, FwdBind, FwdPublish, FwdFails, FwdStopped, ctrlVars
<1> QED BY <1>1, <1>2, <1>3, NobodyNew

LEMMA ServerKeeps ==
  ASSUME TypeOK, LiveIsRegistered, StopServer \/ ServeEnds
  PROVE  LiveIsRegistered'
<1>1. UNCHANGED <<hello, ctrls, shares, runs, fwd, of>>
  BY DEF StopServer, ServeEnds
<1>2. \A c \in Conns : sock[c]' = "adding" => sock[c] = "adding"
  BY DEF StopServer, ServeEnds, TypeOK
<1>3. \A c \in Conns : Holds(c)' => Holds(c) /\ of[c]' = of[c]
  <2>1. CASE StopServer
    BY <1>1, <2>1, StopHolds DEF StopServer, StopEveryone
  <2>2. CASE ServeEnds
    BY <1>1, <2>2 DEF ServeEnds, ctrlVars, Holds
  <2> QED BY <2>1, <2>2
<1> QED BY <1>1, <1>2, <1>3, NobodyNew

(* Every living controller and share is the one registered under its uuid  *)
(* or id (ctrls_, tcp_shares_): two living ones never have the same name,  *)
(* whoever connects, fails or is stopped meanwhile.                        *)
THEOREM NamesAreUnique == Spec => []LiveIsRegistered
<1>1. Init => LiveIsRegistered
  BY DEF Init, LiveIsRegistered, LiveCtrl, LiveShare, Holds, Shares
<1>2. TypeOK /\ LiveIsRegistered /\ [Next]_vars => LiveIsRegistered'
  <2> SUFFICES ASSUME TypeOK, LiveIsRegistered, [Next]_vars PROVE LiveIsRegistered'
    OBVIOUS
  <2>1. CASE UNCHANGED vars
    BY <2>1, NobodyNew DEF vars, Holds
  <2> QED BY <2>1, MainKeeps, ForwarderKeeps, ServerKeeps DEF Next
<1> QED BY <1>1, <1>2, TypeCorrect, PTL DEF Spec
=============================================================================
