# zrp in TLA+

zrp is a reverse proxy. `zserver` runs on a public host, `zclient` behind a NAT.
A client opens one *controller* connection, lists the *tcp shares* it offers
(an id and a public port each), and keeps a pool of idle *worker* connections
per share. When a visitor connects to a share's public port, the server takes
an idle worker, takes its connection over with a `visit_tcp_share` message, and
from then on copies bytes between visitor and worker; the client does the same
between the worker's connection and the local service.

The program is C++20 coroutines on Boost.Asio. Each process has a main
`io_context` run by one thread (`ioc_`) and a pool of threads that run the
forwarders (`fwd_ioc_`). All state is in memory and is shared between the two
by raw references, weak pointers and a coroutine queue.

## Inventory

| component | source | state | operations |
|---|---|---|---|
| waitqueue, completion_handler | `waitqueue.hpp`, `completion_handler.hpp` | `q_`, `vq_`, `closed_`, one-shot handlers | `wait`, `provide`, `close` |
| server worker | `server.hpp` 110-145, 329-483 | socket, `visited_`, `visited_confirmed_`, `stopping_`, `to_send_`, `ddl_` | `recv_msgs`, `send_msgs`, `ddl_actor`, `visit`, `try_stop` |
| client worker | `client.hpp` 133-158, 423-533 | socket, `visited_`, `stopping_`, `ping_timer_` | `send_and_recv_msgs`, `ping_actor`, `try_stop` |
| server, hello connections | `server.hpp` 179-223, 609-803 | `ctrls_`, `tcp_shares_`, `sockets_` | accept, hello, stop |
| server controller | `server.hpp` 147-177, 485-607 | socket, `shares_`, `to_send_`, `stopping_` | `run`, `recv_msgs`, `send_msgs`, `try_stop` |
| server share | `server.hpp` 54-108, 225-327 | `wq_`, `workers_`, `fwd_`, `closing_` | `run_forwarder`, `got_worker`, `try_stop` |
| client controller, share and pool | `client.hpp` 47-131, 160-421 | `workers_`, `nr_workers_`, `wq_`, `fwd_` | hello, ping, `add_workers`, `chk_need_workers`, `try_stop` |
| forwarder, pipe | `forwarder.hpp`, `pipe.hpp` | `pipes_`, `stopping_`, two sockets | accept, pair, copy, stop |
| framing | `msg.hpp` | none | `send_msg`, `recv_msg`, `unmarshal_msg` |
| process | `zserver.cpp`, `zclient.cpp`, `io_threadpool.hpp` | thread pools | start, SIGINT, join |

How they interact. The server hands accepted sockets to hello connections,
which become controllers or workers. A share's forwarder runs on the pool's
threads; it asks the share's `wq_` for a worker (a call into the main thread),
runs `visit()` on the main thread and gets the socket back. Objects hold each
other by `shared_ptr` upwards (worker, share, controller) and by `weak_ptr`
downwards, so lifetime is part of the protocol: an id is free again when the
share's last holder has gone. A stop goes downwards by sweeping the weak
pointers that are there at that moment.

What is hard: two threads that meet in a queue; four coroutines on one socket,
one of which takes it over from the others; deadlines that race with messages;
stops that sweep while something is being added; timers that are never armed
again. `PROJECT.json` lists these hazards line by line.

What makes each part correct:

* waitqueue: a `wait` and a `provide` are never both left waiting; each call is
  answered once; nothing is lost, duplicated or overtaken; `close` answers all.
* worker connection: no control message in a visitor's bytes; one reader after
  the takeover; a visit reaches the client; a stopped worker ends, a vanished
  peer is noticed.
* registry: names are unique among the living, and come back after a stop.
* pool: a share with visitors does not run out of workers, nor grow without
  bound; a stop leaves no worker.
* forwarder and pipe: a byte read is written once and in order; the end of one
  direction leaves the other alone; a party learns that its counterpart is lost;
  a stop leaves no pipe.
* framing: for every length and every way the stream is cut, exactly the body is
  consumed.
* process: after SIGINT or an error both processes come to an end.

## Modules

| module | models | checked by |
|---|---|---|
| `Rendezvous` | what a wait queue promises (abstract) | `waitqueue`, as a refinement |
| `WaitQueue` | `waitqueue.hpp` | `waitqueue` (through `MCWaitQueue`) |
| `WaitQueueProofs` | theorems about `WaitQueue` | the proof system |
| `ServerWorker` | server's `tcp_share_worker` | through `WorkerLink` |
| `ClientWorker` | client's `tcp_share_worker` | through `WorkerLink` |
| `WorkerLink` | both ends and the two byte streams | `link`, `link_*` |
| `WorkerLinkProofs` | theorems about `WorkerLink` | the proof system |
| `WorkerReadsProofs` | theorems about who reads what from a worker's connection | the proof system |
| `ServerRegistry` | `server`, `socket_type`, `controller_socket`, `tcp_share` | `registry_*` (through `MCServerRegistry`) |
| `ServerRegistryProofs` | theorems about `ServerRegistry` | the proof system |
| `ServerController` | server's `controller_socket` on its connection | through `ControllerLink` |
| `ClientController` | client's `controller` on its connection | through `ControllerLink` |
| `ControllerLink` | both ends and the messages between them | `controllers` |
| `ControllerLinkProofs` | theorems about `ControllerLink` | the proof system |
| `ClientPool` | the client's `controller` with one `tcp_share` and its pool, and the process's end | `pool` (through `MCClientPool`) |
| `ClientPoolProofs` | theorems about `ClientPool` | the proof system |
| `Relay` | what a forwarder promises to the parties of a visit (abstract) | `forwarder`, as a refinement |
| `Forwarder` | `forwarder.hpp` and `pipe.hpp` | `forwarder` (through `MCForwarder`) |
| `ForwarderProofs` | theorems about `Forwarder` and its refinement of `Relay` | the proof system |
| `Channel` | what `recv_msg` promises to its caller (abstract) | `framing`, as a refinement |
| `Framing` | `send_msg` and `recv_msg` of `msg.hpp` | `framing` (through `MCFraming`) |
| `FramingProofs` | theorems about `Framing` and its refinement of `Channel` | the proof system |

Operators whose comment says *Mutant* are deliberate faults, one per property:
put in the place of the definition named in `PROJECT.json` they make the property
fail, which shows that the property speaks about the code.

### WaitQueue

`q`, `vq` and `closed` are `q_`, `vq_` and `closed_`. A call posts a lambda
(`CallWait`, `CallProvide`) and the lambda runs later (`RunWait`, `RunProvide`);
`posted` and `ran` are `exec_`'s queue. `close()` is two steps on its caller's
thread, `SetClosed` and `PostDrain`, and a lambda, `RunDrain`. A handler's
invocation is a value appended to `results`; that it resumes the coroutine with
one more post changes nothing here. What is not modelled: a value that throws
when moved, and the destruction of the queue while lambdas hold a raw `this`.

`Rendezvous` has no queue: `Deliver` answers a wait and a provide in one step,
`Abort` answers calls after `Shut`. The refinement maps a call's first result to
its answer and `~closed` to `open`.

### ServerWorker, ClientWorker, WorkerLink

Each end's `io_context` is a run queue, `ready`: a coroutine goes from one
`co_await` to the next in one action, started by the handler at the head of
that queue, and what it posts goes to the tail. This order is part of the code's
correctness (a pong provided before the visit is sent before it) and is kept
exactly, `to_send_` included. Statements are operators on the worker's record
(`SetDdl`, `CancelReads`, `TryStop`, `Throw`), handlers are actions. A message
is two chunks, its length and its body, because `recv_msg` reads the one and
then the other; the socket serves pending reads in the order in which they were
started. Reading a chunk may take several operations on the socket
(`async_read`), and between two of them a visit may cancel the read: on the server,
where two coroutines may read, a read gets either some bytes of the chunk
(`ReadPart`, `Part`) or what is left of it (`ReadCompletes`). `torn` says who has
some of its bytes. When the other one gets the rest, both have bytes that are no
chunk (`Torn`, `torn = "lost"`), which they take for a length or a body that is
refused, or wait on. The client has one reader, for which the cuts make no difference.

The client's worker begins with the hello (`SendHello`), whose write may fail; a
worker that is stopped by then never sets its timer, and its `ping_actor` stays.
The server's worker is there once it has read the hello (`greeted`, `ServerMay`).

Outside the run queue are the reads that complete or fail, the timers, the
visitor (`VisitorComes`), the stop by the share (`StopWorker`), the forwarder's
thread taking the socket (`HandOver`), the user data that the forwarders write
(`ClientForwards`, `ServerForwards`) and the loss of the connection (`Lose`).
A control message is written in one step: it fits a socket's buffer.

### ClientPool

Workers are counted: `idle`, `visited`, `ending`, and `nr` is `nr_workers_`.
`ready` is what is posted on `ioc_`, in order; the order in which a match answers
first the wait and then the provide is kept (`AnswerProvide` is a step of its own),
because it decides how many workers the forwarder's check (`FwdCheck`) still
counts that are about to be destroyed. `adding[n]` is the number of refills with
`n` workers to go, each suspended in a connect. `closing` is `closing_` and `closed_`: between
the two no `co_await` lets main in, and `WaitQueue` tells them apart. A
worker is what `ClientWorker` has in detail, its leak included: `Destroy` and
`RunResume` may leave it counted for ever. The sweep of a stop is one step.

The controller's `ping_actor` is `ping` and `armed`: it waits for a timer that is
set by every message of the controller and is at the maximum while a ping is
being written. `StopShare` is `tcp_share::try_stop`, `TryStop` the controller's; only
the first stop of a share is modelled. A second one (SIGINT after an error) sweeps the
forwarder's pipes and `workers_` once more, so it can only end more.

What the forwarder's threads do with a socket is here only as far as a process
waits for it: `connecting` (a `handle_socket` is connecting upstream, on a socket
of main's `ioc_`), `pipes` (a pipe runs) and `told` (the stop that
`post_try_stop` posts, or `handle_error` makes itself). `MainEnds` is the return of
`ioc.run()`: it needs every coroutine of the main thread and every connect to have
ended and the run queue to be empty. After it a lambda that the forwarder's thread
posts, or a connect it begins there, is never run. `run()` returns when the forwarder
and the pipes have ended as well (`Ended`), because it joins their threads.
`late` names what a stop was too late for: a worker that was added after it and a pipe
that was made after the sweep.

### ServerRegistry

One element of `Conns` is one connection to the control port, and, after a
client's hello, its controller; the share that client `k` lists under `i` is
`<<k, i>>`. `ctrls` and `shares` are the weak-pointer maps. `LiveShare` and
`LiveCtrl` say who holds whom. Handlers of the main thread are actions that wait
while a hello's loop is running (`MainFree`); the loop itself is one action per
share, because the forwarder threads (`FwdBind`, `FwdPublish`, `FwdFails`,
`FwdStopped`) run beside it. Worker connections are those of `ServerWorker`
reduced to six states. `QuietStops = TRUE` restricts the moments of a stop to
those in which nothing is under way in that controller (`Quiet(k, but)`: its hello is
done, its forwarders are published, but for the one that fails and thereby is
the stop, and none of its workers is on its way into `workers_` or to a visitor);
with `FALSE` a stop may come at any moment. It restricts nothing that comes after the
stop. A share that is closing lives as long as someone holds it and accepts
workers all the while: these are `late`, nobody stops them, and
`StopIsComplete` leaves them out. A hello may be handled on a socket that its 30 s deadline has
closed in between (`HelloLate`, `shut`), and a connection may be handled that was
accepted before the server stopped (`Accept` while `serving = "stopping"`).
A sweep is one step: the unsynchronised access to the maps
themselves (undefined behaviour) is not modelled beyond what it finds there.

### ServerController, ClientController, ControllerLink

`recv` and `send` say where `recv_msgs` and `send_msgs` are, their lambdas in
`to_send_` included (`"providing"`: the lambda is posted; `"queued"`: in `vq_` or
`q_`; `"answered"`, `"got"`, `"aborted"`: the handler was invoked). Unlike in
`ServerWorker` the order of the run queue is not kept: each coroutine goes on
when it likes, which allows every order the code can produce. The client's are
`ctl` (`controller_socket_send_recv_msgs`) and `ping`; `armed` is
`ping_timer_` set to less than its maximum. Each end sends one type of message but for
the server's hello, so messages are counted (`up`, `down`) and the first of
`down` is the hello. A read that has completed is handled even if
the controller was stopped in between (`"read"`).

A stop may come from the other thread: a share's error calls `try_stop` on a
forwarder thread (`ShareFails`, `StopGoesOn`), statement by statement, while the
coroutines go on. `Stop` and `Sigint` are the stops on the main thread, in one step.
`ddl` is the server's deadline for a message; it expires (`DdlExpires`) and no
action is waiting for it, because `run()` does not spawn `ddl_actor`: a client that is
gone without closing its connection is never noticed and keeps its uuid, share ids
and ports. So what the model says of stops leaves lost connections out.
`ServerRegistry` and `ClientPool` see of all this that a controller is running, stopping or gone.

### Forwarder and Relay

A direction `<<v, s>>` of visit `v` is what side `s` says, and the half that
carries it, `half_pipe(s, the other)`. `phase` follows a visit through
`handle_socket` (waiting for upstream, posted to the strand, in the map, running,
gone). Bytes are counted: `sent` by the party, `taken` by `async_read_some`,
`given` by `async_write`; a half holds `taken - given` of them and reads only when it holds none.
Every coroutine of `fwd_ioc_` may be as far as it likes, because several threads
run it; what runs on `str_pipes_` is one action. A half ends cleanly
(`EndsClean`: eof, a reset, not connected: it shuts down what it writes to) or
throws (`Throws`: it closes both sockets). What a party's break looks like to the
pipe is not determined, so both may follow it. `StopPipes` is the sweep, done once by `handle_error` (`"error"`) and
once by `post_try_stop` (`"told"`); `late` are the visits whose pipe was put in
the map after one.

`Relay` has no pipes and no halves: per direction a prefix has been delivered,
and its end may be told when all was delivered and the source has finished, or
when the visit has failed. Its fairness promises delivery and the end. Under
the mapping a visit fails when a party breaks, when the forwarder stops its pipe,
or when upstream has no socket for it; an error of a pipe with two sound parties
would be a step that `Relay` does not have.

### Framing and Channel

A message is its length and whether its type is expected. `Stream` are the
digits on the wire: `PutLen` and `ExtractLen` are `put_uint64` and
`extract_uint64` to the base 256 with 8 digits, here to any base and width (a shift
by `i` bytes divides by `Power[i]`). The
peer has written `sent` of them and a read completes with any number that is
there and fits. `state` is the `co_await` that `recv_msg` is in, `begin` where
its frame starts. The body's bytes can be mistaken for a length: a receiver that
is out of step reads one. The JSON parser is external and accepts exactly the
bytes of one body; an empty body is refused by it, a long one by the
check of the length, an unknown type by `unmarshal_msg`.

`Channel` delivers messages by number: in order, once, up to the first that must
be refused, and, by its fairness, every message that was sent in full.

## Runs

| run | question | result and bounds |
|---|---|---|
| `waitqueue` | all properties of the queue and the refinement | holds; 3 waits, 2 provides, 2 closes: one wait more than values, two threads in `close`, every match and abort race |
| `link` | takeover of the connection; end of stopped and of deserted workers | holds; 1 ping, which may be unsent, read up to any part of its length or body, being answered or answered when the visit comes; only the server is assumed to be fair |
| `link_dead` | "skip if worker died before visit" | violated |
| `link_race` | a visit to a sound worker reaches the client | violated |
| `link_leak` | a stopped client worker is released | violated |
| `controllers` | do pings and pongs take turns, is every ping answered, does a stop end both ends | holds; 2 pings, stops on either thread of either end |
| `registry_safety` | names are unique among the living | holds; 3 connections, 2 clients that want the same id, one of which lists it second, so that its hello may be rejected half-way; stops at any moment |
| `registry_live` | does a stopped controller end with all it has; does a stopped server end | holds for stops in quiet moments and whatever comes after them, but for late workers; one share id |
| `registry_race` | the same for stops at any moment | violated |
| `pool` | how far can the pool fall behind, is a dry one refilled, does a stopped process end | holds, the last but in five named ways. `OpenConfigs`: first filled to the mark of 3, below the mark of 4, not at all, and above the mark of 1; refills of 1 and of 2; at most 3 or 4 workers. `StopConfigs`, stopped at any moment: one worker that becomes two, and none. One lost; a visit may come while one refill is under way |
| `forwarder` | the relay's promise, the end after a stop | holds; a visit with a byte each way, and one that only comes and goes; longer streams are left to the theorem |
| `framing` | the channel's promise | holds; 3 messages, lengths 0 to 5 with a buffer of 2 and a limit of 4, digits of one bit, 3 of them; other sizes are left to the theorem |

What the passing runs show of the queue: `NoLostWakeup`, `OneShot`,
`NoLossNoDup`, `NoOvertaking`, `NoneLeftBehind`, `ClosedAnswersAll`,
`Rendezvouses`. Of the connection: `TakeoverIsLast` (no pong after the visit, no
ping after the confirmation), `CleanHandover` (whoever gets the socket reads user
data only), `HandoverExclusive` (no other reader or writer once confirmed),
`VisitFailsOnlyByRace` (a visit to a sound worker fails only when `recv_msgs`
has begun a message and not got all of it: it has a length without the body, or some
bytes of one of them), `DesertedWorkerEnds`
(a worker without its client, or stopped, is destroyed unless a visitor takes it first). Of the controllers: `PingsInTurn` (at most one ping is under way, so
`to_send_` never holds two messages), `EveryPingAnswered`, `StopEndsBoth` (but for
the client's `ping_actor`, see `PingLeaked`). Of the registry: `LiveIsRegistered`,
`StopIsComplete` and `ServerEnds`. Of the forwarder: `Relays` and `StopDrains`. Of the framing:
`Channels`. Of the pool: `PoolKeepsUp`, `NeverDry` and `StopEndsProcess`. The 2 in `PoolKeepsUp` is exact (with 1 it fails): a wait
can overtake a destruction, so that the check counts two workers that are gone
already. What it is short of is `Mark`, the lower of `worker_count_low` and
`worker_count_initial`, or nothing if there are no refills: a pool that was first filled with
fewer than `worker_count_low` is checked only when one of those is visited, and grows by what
that check adds. `NeverDry` therefore needs a low-water mark of 3 or more, and with a mark
of 2 TLC finds a share that stays without workers for good; the default is 8,
and nothing in the code refuses less, nor an initial or a refill count of 0, for which
the pool has no workers or stays dry.

`StopEndsProcess` says that `run()` returns but in five ways, each of which TLC shows
to be real when it is taken out of the property. Main waits for a worker that is never
destroyed (`WorkerLeaked`, the leak of run `link_leak`), for the controller's `ping_actor`
that is stopped while it writes a ping (`PingLeaked`, the same mistake in the
controller), or for a worker that was added after the stop, which nobody on the client
stops (`WorkerTooLate`; the server may keep it too, see `late` of
`ServerRegistry`). Or `join_all` waits for a forwarder that posts its wait on a main
thread that has ended (`WaitTooLate`; a connect that begins there comes with it), or
for a pipe that was made after the sweep and whose ends do not hang up (`PipeTooLate`).
`StopDrains` leaves out two kinds of visits: those
that upstream keeps waiting, and those whose pipe was made after the sweep
(`late`), which nobody stops as long as its parties are content.

Bounds. `maxWorkers` of each configuration, `MaxAdders` and `MaxLosses` cap the
pool: workers at a time, the refills under way when a visit comes, and the
workers lost or leaked. One worker more than the mark lets a refill
overlap with visits, and with `MaxAdders = 1` two refills overlap. Counts of 0 are
modelled, negative ones are not. The pools of `OpenConfigs` are left alone once they are stopped
(`CONSTRAINT StoppedIsSmall`): `PoolKeepsUp` says nothing of a stopped share and
`NeverDry` asks nothing of one any more, so no violation of either would pass through a
stop. What a stop has to wait for, a worker in every state, the forwarder, a
connect, a pipe, a refill, a ping, is there in the small pool as well.

`Load` is the bytes a party sends. `Base`, `Width`, `Buffer` and `MaxBody` scale 256, 8,
4096 and 8192 down and keep that the limit is twice the buffer and that
the length could be larger than the limit; lengths on
both sides of the buffer and of the limit occur at every position. `MaxPings` caps the ping timer (of a worker or of the controller), which is the only source of unboundedly
many messages; with controllers a second ping shows that the first was put away, with workers one is enough to
meet a visit at each of its steps; every other coroutine ends. `Waits`, `Provides`, `Closers` and
`Conns` are sets of calls and connections each made once. Runs allow deadlock
because each of these systems may come to rest.

Fairness. `io_context`s run what is ready, so handlers, lambdas and the second
statement of `close()` are weakly fair; armed timers expire; a connection that is
up delivers and reports that the peer closed; a connect succeeds or fails;
parties read what they are given. Nothing makes a server close a worker, or the ends
of a pipe hang up. `get_socket` of upstream is not fair, but in `ClientPool`, where
connects to the local service succeed or fail: a local service or a worker may
keep a visit waiting. Visitors, parties, stops, errors, new connections and the
loss of a connection are never forced.

### What the violated runs show

* `link_dead`: `get_socket` visits any worker it can lock. A worker that was
  stopped stays lockable until its last coroutine ends; its socket is closed,
  `s_.cancel()` throws, and the visitor is dropped.
* `link_race`: `visit()` cancels `recv_msgs`' read. If that was between length and
  body of a ping or within one of them, or `recv_msgs` resumes from a pong and starts one more read
  before `visit()` does, bytes of the stream are in the wrong hands and the visit
  fails on a sound connection. `VisitFailsOnlyByRace`, a theorem, says it is the only way.
* `link_leak`: `ping_actor` sets its timer to the maximum, writes, and waits again
  without looking at the flags; a stop during the write leaves it there for ever.
* `registry_race`: a forwarder that is published, or a share or worker that is
  added, after the sweep of a stop is never stopped, and keeps the names.

## Proofs

`WaitQueueProofs` proves, for every set of calls (only `CallsAssumption`: waits,
provides, closes and the answer constants are different things):

* `TypeCorrect`: `Spec => []TypeOK`.
* `LostWakeupFree`: `Spec => []NoLostWakeup`. The invariant is inductive with
  `TypeOK`: a lambda enqueues on one side only when the other is empty.
* `NobodyLeftBehind`: `Spec => []NoneLeftBehind`. Also inductive with `TypeOK`:
  `SetClosed` makes its caller the one who is about to drain, `PostDrain` turns
  that into a lambda in the queue, and the drain empties both queues, behind
  which a closed queue takes nobody in.
* `AnsweredOnce`: `Spec => []OneShot`. Not inductive: that a handler has been
  invoked at most once says nothing of who will invoke it next. `CallInv` adds
  `OnePlace` (a call is either one lambda still to run, or one entry of one of
  the queues, and nothing else twice) and `AnsweredWhenDone` (its handler has been
  invoked once if it is done, never before). Every step that invokes a handler
  takes its call out of the one place it is in. `CallsInvariant` proves
  `Spec => []CallInv` from one lemma per lambda.
* `ImplementsRendezvous`: `Spec => Rendezvouses`, the refinement. Each lambda
  maps to `Deliver`, to `Abort` or to a stutter. An abort needs the calls
  to be unanswered, which is `CallInv`, and the queue to be closed, which for a drain
  is `ClosersClose`: a drain is only ever posted by a caller that set `closed_`.

Who gets what, and in which order, rests on those invariants:

* `NothingLost`: `Spec => []NoLossNoDup`. The refinement pays for it: `Matched` says the
  same of the abstract answers, where it is kept by a rendezvous that is a single step, and
  `ImplementsRendezvous` carries it over to the queue (`RendezvousMatches`). What is
  left is that a call's results are its one answer, which is `CallInv`.
* `NobodyOvertakes`: `Spec => []NoOvertaking`. `OrderInv` ties the places of the calls
  to the order in which their lambdas were posted: a call is posted once and before
  it is queued or answered (`PostedOnce`), both queues are in that order (`Sorted`), whoever
  has run on an open queue and got nothing is queued (`OpenQueued`), who has been
  served was posted before who has not (`InOrder`), and the earlier wait got the
  earlier value (`FirstGetsFirst`). Without `OpenQueued` nothing keeps a call that
  has left the queues from being overtaken.

`WorkerLinkProofs` proves, for every `MaxPings` (`MaxPingsAssumption`: a natural
number), and from `ServerSpec`, which assumes less fairness than `Spec`:

* `TypeCorrect`: `[]TypeOK`.
* `LastMessages`: `[]TakeoverIsLast`. That the visit is the last control message does
  not carry over a step: what is in the run queue decides what is sent next.
  `ServerInv` says where the handlers are. `SendInPlace`: one handler, lambda or
  entry of the queue at most belongs to `send_msgs`. `VisitInPlace`: the same of `visit()`
  until the visit is sent. `VisitFollows`: the handler on which
  `visit()` goes on is posted right behind the visit itself, so when it is at the head,
  `send_msgs` has written the visit and has nothing else in its hands. There
  `visit()` closes `to_send_`, and `ClosedQueue` keeps `send_msgs` without a message
  from then on. `Silent` is the sum: once the visit is on the stream,
  the socket is gone, or the queue is closed, or the step that closes it is next.
  The client's half, `ClientInv`, is shorter: the confirmation is sent by a worker
  whose `visited_` is set, and `ping_actor` sends nothing then.
* `HandedOverClean`: `[]CleanHandover`. Each end moves its socket out only after it has
  read the other's last message (`ServerKnows`, `ClientKnows`), and
  behind that, by `LastMessages`, there is only user data.

`LinkInv`, the inductive invariant, was checked on the instance of `link` before it was
proved. A step is proved by its pieces: `Calm` and `ServerGoesOn` say what a piece
of a handler leaves alone, `ServerChain` puts two of them together, and there is one lemma
for each piece (`ServerStops` for `try_stop()`, `ServerThrows` for an exception) and one for each
group of handlers.

`WorkerReadsProofs` proves, from the same assumption, the two properties about
`recv_msgs` and `visit()`, which may both have a read of `s_` pending:

* `HandoverSafe`: `HandoverExclusive`. Once the visit is confirmed no read is pending,
  `recv_msgs` starts none and `send_msgs` writes nothing, so the forwarder's thread may
  move the socket out whenever it likes.
* `VisitFailsOnlyThen`: `[]VisitFailsOnlyByRace`. The race of run `link_race`, a message
  that `recv_msgs` has begun and not got all of, is the only way in which a visit
  to a sound worker fails, for every number of pings, every cut of the stream and every
  interleaving.

Neither property carries over a step, and neither follows from `LinkInv`, which does not say
what a pending read is about to get. `ReadsInv` does. `OneTurn`: `recv_msgs` and `visit()`
each go on in one place only, at a handler, at a pending read or in `to_send_`; without it a second
handler could start a second read. `ServerFlags` ties the flags and the socket to where
`visit()` is. `Phases` goes along the visit: until it is sent only `recv_msgs`
reads, in step with the stream's messages (`BeforeVisit`, `InStep`); while it waits for a length or
a body, what either of the two has got or will get is named (`AwaitsLength`, `AwaitsBody`),
first by who reads first, then by whose handler runs first (`Late`); once it is confirmed
`recv_msgs` has no turn left (`Taken`); when it has failed, the connection was not sound,
`recv_msgs` holds a length without its body, or bytes of one chunk went to both
(`Failed`). `Parts` is about the cuts: who reads on has a part of the next chunk, and once
parts of it went to both (`Scattered`) `visit()` gets nothing whole any more. `ClientWrites` is the other end:
the client sends whole messages, data only after the confirmation, and moves its
socket out only after that, so a length on the stream always has its body right behind it.

TLC checked `ReadsInv` with one ping (1.7 million states) and with three (7.2 million)
before it was proved. A step is proved by its pieces here too: `Quietly` and
`Mild` say what a piece leaves alone, `Pops` runs the head of the queue, `ReadStarts` starts
a read, and each coroutine's handlers come after the lemmas they share.

`ServerRegistryProofs` proves, for every set of connections, hellos and share ids,
with stops and errors at any moment (`RegistryAssumption`: `None` names nothing,
and the ids of a client's hello form a sequence without repetition):

* `TypeCorrect`: `Spec => []TypeOK`.
* `NamesAreUnique`: `Spec => []LiveIsRegistered`. Inductive with `TypeOK`. Only
  `ClientHello`, `AddShare` and `WorkerHello` bring somebody to life, and each has
  one lemma: the first two write the name they found free, which nobody alive
  can have had, and a worker is bound to a share that its name led to. For every other step
  `NobodyNew` suffices: who is alive after it was alive before, and the maps are
  the same. That the sweep of a stop is such a step is `StopHolds`.

`ControllerLinkProofs` proves, for every `MaxPings` (`MaxPingsAssumption`: a natural number):

* `TypeCorrect`: `Spec => []TypeOK`, the bounds of the streams included.
* `PingsTakeTurns`: `Spec => []PingsInTurn`. Not inductive: `ServerInv` adds that the
  pongs sent and those in hand (`InHand`: with `recv_msgs`, in `to_send_` or
  with `send_msgs`) are no more than the pings read, and `ClientInv` that the timer is
  armed only when nothing is unanswered. A pong that can be read
  then answers the one ping that is out.

`ForwarderProofs` proves, for every set of visits, every load and every buffer of
at least one byte (`ForwarderAssumption`):

* `TypeCorrect`: `Spec => []TypeOK`, the order and the bounds of a half's counters
  included. It needs `HalvesInv`: a half runs only in a pipe that runs and has shut
  down nothing, a half that has ended has shut down what it wrote to or has stopped
  the pipe. Without it nothing keeps a half from copying in a pipe that is gone.
* `RelaysSafely`: `Spec => Rel!Safety`, the safety part of `Relays`. A read, the
  loop and the strand stutter; a write is `Deliver`; a clean end is `End` when all was delivered,
  and `Fail` after a party broke; a sweep is the `Fail` of the pipes it stops.
  `HalvesInv` shows that the second half to end leaves nothing untold: its
  counterpart has shut down or stopped the pipe before.

`ClientPoolProofs` proves, for every set of configurations and all bounds
(`PoolAssumption`: the four numbers of a configuration are naturals, nothing else):

* `TypeCorrect`: `Spec => []TypeOK`. That `nr_workers_`, an `atomic<int>`, never
  goes below zero needs `Counted`: it counts everyone who is idle, visited, provided,
  about to resume or about to end.
* `KeepsUp`: `Spec => []PoolKeepsUp`. Not inductive: it speaks of a pool with nothing
  under way. `Supplied` says the same at any moment, with what is on its way added
  (`Promised`: the workers still to fill in, the forwarder that has yet to look, a
  check that is posted, a coroutine that has not added its first worker, `Started`). It is
  kept at `Mark`, which is never more than what the first filling adds. When the
  forwarder looks and finds enough, `nr_workers_` must be right, and it is but for
  the lost (`Known`) and for at most two workers that resume (`TwoSpent`). Two
  is the number because of who waits: while the share is open the forwarder has
  one wait at most, and when that wait runs no more than one worker resumes after
  it (`WaitInTurn`, `QueuedWait`), so a match makes it two.

TLC checked `PoolInv`, the inductive invariant, on `OpenConfigs` with all their
stops, 16.5 million states.

`FramingProofs` proves, for every base, number of digits, buffer, limit and set of
messages (`FramingAssumption`: a base of 2 or more, at least one digit and one byte of
buffer, and lengths that the digits can express):

* `TypeCorrect`: `Spec => []TypeOK`. What remains of a body never gets below zero and what
  the last read asks for fits into the buffer.
* `ReceivesInOrder`: `Spec => Chan!Safety`, the safety part of the refinement. Every
  read maps to a message received, refused, or a stutter, and bytes that are
  sent to messages that are sent in full.

`FramingInv` adds to `TypeOK` that the messages returned are the first ones (`InOrder`), that
this call began where the last of them ended (`InPlace`), and that what was fed and what
remains are the current body (`InMessage`). A step keeps `InPlace` only because the length it
decodes is the one that was sent, and that is not about the states but about the data: `LengthSurvives`
(`extract_uint64` undoes `put_uint64`, digit by digit, for every base), `Layout`
(in the concatenation of the frames, each length stands where the ones before it
end) and `EndsGrow`. These are inductions. The library's theorems for them take a predicate
as a parameter, which the provers cannot instantiate, so `Induct` and `Recursion` say
the same of sets and of functions as values; they rest on `WFMin`, that a set of naturals has a least
element. TLC checked `FramingInv` on the instance of `framing` before it was proved.

Model-checked only: all liveness (`NeverDry`, `StopEndsProcess`, `ServerEnds`, `StopDrains`,
`DesertedWorkerEnds` and their like, and the fairness part of `Relays`, `Rendezvouses`
and `Channels`), which is out of the prover's reach. Every invariant that a run checks is a theorem.

## Not modelled

Configuration, command line, file reading, JSON, logging, the file-descriptor
limit and the build: sequential code without state of its own. The contents of
messages beyond their type.

Undefined behaviour of unsynchronised access: `shares_`, `workers_` and
`tcp_shares_` are iterated on one thread and changed on another, and a socket may
be closed by the sweep or the other half while a coroutine uses it. The models
take each access as one step, in any order.

## Plan

1. Done: `WaitQueue` with `Rendezvous`, the worker connection, the registry.
2. Done: `ClientPool` with the controller's ping and the end of the process; the
   end of the server. Left: several shares that are filled one after the other,
   so that one is visited while another is being filled.
3. Done: `Forwarder` with `Relay`, `Framing` with `Channel`, the controllers' connection.
4. Proofs. Done: the queue, the takeover of a worker's connection, the names of the registry,
   the turns of the controllers, the forwarder's bytes, the safety part of `Relays`,
   the pool's count and supply, and who reads what while a worker is taken over, and the framing
   with its data. Left: nothing the provers reach.
