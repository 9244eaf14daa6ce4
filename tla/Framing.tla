------------------------------- MODULE Framing -------------------------------
(***************************************************************************)
(* send_msg and recv_msg (include/zrp/msg.hpp): a message is a big-endian  *)
(* length and a body, and the stream may be cut anywhere, so each read     *)
(* completes with as many bytes as have come and fit.                      *)
(*                                                                         *)
(* One caller receives messages in a loop.  A body longer than the buffer  *)
(* is read in pieces, what is left of it then in one read that waits for   *)
(* all of it.  The parser (external) accepts exactly the body of a message;*)
(* unmarshal_msg refuses those of a type that is not expected.             *)
(***************************************************************************)
EXTENDS Naturals, SequencesExt

CONSTANTS
  Base, Width,   \* a length is Width digits to the base Base: 8 bytes
  Buffer,        \* bytes in buf_payload: 4096
  MaxBody,       \* the longest body accepted: 8192
  Messages       \* sequences of messages, [len |-> bytes of body, known |-> type expected]

VARIABLES
  msgs,     \* the messages the peer sends
  sent,     \* how many bytes of them it has sent
  closed,   \* it has closed the connection
  state,    \* the await of recv_msg: "meta", "some" or "rest"; how it ended
  begin,    \* where in the stream this call of recv_msg began
  pos,      \* how much of the stream has been read
  remain,   \* remain
  fed,      \* how many bytes have been written to parser_
  out       \* which messages were returned, in that order

vars == <<msgs, sent, closed, state, begin, pos, remain, fed, out>>
peer == <<msgs, sent, closed>>

(* put_uint64<big> and extract_uint64<big>.  A shift divides by a power.   *)
Power[k \in 0..Width] == IF k = 0 THEN 1 ELSE Base * Power[k - 1]
PutLen(n) == [i \in 1..Width |-> (n \div Power[Width - i]) % Base]
ExtractLen(data) ==
  LET n[k \in 0..Width] == IF k = 0 THEN 0 ELSE n[k - 1] * Base + data[k] IN n[Width]

ASSUME FramingAssumption ==
  /\ Base \in Nat \ {0, 1} /\ Width \in Nat \ {0}
  /\ Buffer \in Nat \ {0} /\ MaxBody \in Nat
  /\ \A ms \in Messages : ms \in Seq([len : 0..(Power[Width] - 1), known : BOOLEAN])

(* The stream.  A body's bytes are like any others.                        *)
Frame(m) == PutLen(m.len) \o [i \in 1..m.len |-> Base - 1]
Frames(ms) == FlattenSeq([i \in DOMAIN ms |-> Frame(ms[i])])
Streams == [ms \in Messages |-> Frames(ms)]
Stream == Streams[msgs]
FrameEnds(ms) ==
  LET e[i \in 0..Len(ms)] == IF i = 0 THEN 0 ELSE e[i - 1] + Width + ms[i].len IN e
FrameEnd(i) == FrameEnds(msgs)[i]
BodyOf(i) == <<FrameEnd(i) - msgs[i].len, FrameEnd(i)>>

Init ==
  /\ msgs \in Messages /\ sent = 0 /\ closed = FALSE
  /\ state = "meta" /\ begin = 0 /\ pos = 0 /\ remain = 0 /\ fed = 0
  /\ out = <<>>

(* send_msg, as far as the stream has taken it.                            *)
WriteSome ==
  /\ ~closed
  /\ \E n \in sent + 1 .. Len(Stream) : sent' = n
  /\ UNCHANGED <<msgs, closed, state, begin, pos, remain, fed, out>>

PeerCloses ==
  /\ ~closed /\ closed' = TRUE
  /\ UNCHANGED <<msgs, sent, state, begin, pos, remain, fed, out>>

-----------------------------------------------------------------------------
(* A read completes with n bytes, at most as many as it asked for.         *)
Read(n, asked) == n <= asked /\ pos + n <= sent /\ pos' = pos + n

(* Which message was read, if the parser gets f bytes of a body, up to e.  *)
Parsed(f, e) == {i \in DOMAIN msgs : f > 0 /\ BodyOf(i) = <<e - f, e>>}

(* parser_.release() and unmarshal_msg; then the next call begins.         *)
Finish(f, e) ==
  IF \E i \in Parsed(f, e) : msgs[i].known
  THEN /\ \E i \in Parsed(f, e) : out' = Append(out, i)
       /\ state' = "meta" /\ begin' = e /\ remain' = 0 /\ fed' = 0
  ELSE /\ state' = "refused" /\ remain' = 0 /\ fed' = f
       /\ UNCHANGED <<out, begin>>

(* Mutant: all of the body is read in pieces.                              *)
GoOnInPieces(r, f, e) ==
  IF r = 0 THEN Finish(f, e)
  ELSE /\ state' = "some" /\ remain' = r /\ fed' = f /\ UNCHANGED <<out, begin>>

(* What follows when r bytes remain, f have been parsed and e read.        *)
GoOn(r, f, e) ==
  IF r = 0 THEN Finish(f, e)
  ELSE /\ state' = IF r > Buffer THEN "some" ELSE "rest"
       /\ remain' = r /\ fed' = f /\ UNCHANGED <<out, begin>>

ReadMeta ==
  /\ state = "meta"
  /\ \E n \in 1..Width : Read(n, begin + Width - pos)
  /\ IF pos' < begin + Width THEN UNCHANGED <<state, begin, remain, fed, out>>
     ELSE LET len == ExtractLen(SubSeq(Stream, begin + 1, begin + Width)) IN
            IF len > MaxBody
            THEN state' = "refused" /\ UNCHANGED <<begin, remain, fed, out>>
            ELSE GoOn(len, 0, pos')
  /\ UNCHANGED peer

ReadPiece ==
  /\ state = "some"
  /\ \E n \in 1..Buffer : Read(n, Buffer) /\ GoOn(remain - n, fed + n, pos')
  /\ UNCHANGED peer

(* The read that waits for all that remains.  Mutant: it does not wait.    *)
ReadRestSome ==
  /\ state = "rest"
  /\ \E n \in 1..remain : Read(n, remain) /\ Finish(fed + n, pos')
  /\ UNCHANGED peer

ReadRest ==
  /\ state = "rest"
  /\ \E n \in 1..remain : Read(n, begin + Width + fed + remain - pos)
  /\ IF pos' < begin + Width + fed + remain THEN UNCHANGED <<state, begin, remain, fed, out>>
     ELSE Finish(fed + remain, pos')
  /\ UNCHANGED peer

(* A read that still waits for bytes when the peer has closed.             *)
ReadFails ==
  /\ state \in {"meta", "some", "rest"} /\ closed /\ pos = sent
  /\ state' = "lost"
  /\ UNCHANGED <<peer, begin, pos, remain, fed, out>>

RecvMsg == ReadMeta \/ ReadPiece \/ ReadRest \/ ReadFails
Next == WriteSome \/ PeerCloses \/ RecvMsg

(* What has come is read.                                                  *)
Spec == Init /\ [][Next]_vars /\ WF_vars(RecvMsg)

-----------------------------------------------------------------------------
(* The types, and what is left of the body is never read into too little.  *)
TypeOK ==
  /\ msgs \in Messages /\ sent \in Nat /\ closed \in BOOLEAN
  /\ state \in {"meta", "some", "rest", "refused", "lost"}
  /\ begin \in Nat /\ pos \in begin..sent /\ remain \in 0..MaxBody /\ fed \in 0..MaxBody
  /\ out \in Seq(DOMAIN msgs)
  /\ state = "rest" => remain \in 1..Buffer

(* For lengths on either side of the buffer and of the limit, however the  *)
(* stream is cut, the caller gets the messages in order and each in full:  *)
(* recv_msg leaves the stream where the next message begins.               *)
Accepted(m) == m.known /\ m.len \in 1..MaxBody
Whole == {i \in DOMAIN msgs : FrameEnd(i) <= sent}
Chan == INSTANCE Channel WITH
  Good <- Accepted,
  received <- out,
  whole <- Cardinality(Whole),
  end <- IF state \in {"refused", "lost"} THEN state ELSE "no"
Channels == Chan!Spec
=============================================================================
