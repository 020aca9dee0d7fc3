------------------------------- MODULE Framing -------------------------------
(***************************************************************************)
(* One connection's receive path: a client that writes frames whenever it  *)
(* likes, a bufferevent that is fed the stream in pieces of any length     *)
(* (split and coalesced arbitrarily), NetGate::ReqCallback calling         *)
(* MsgProxy::Pack once for every piece, and handle_results answering the   *)
(* request being handled.  It asks whether Pack keeps its place in the     *)
(* stream, the README's claim about split and sticky packets.              *)
(***************************************************************************)
EXTENDS MsgProxy

CONSTANTS Sizes,        \* body sizes a client may use
          Types,        \* event types a client may use
          MaxFrames     \* bound: frames written on the connection

ASSUME FramingAssumption ==
  /\ Sizes \subseteq Nat
  /\ Types \subseteq EventTypes
  /\ MaxFrames \in Nat

VARIABLES
  frames,     \* the frames written so far
  written,    \* stream bytes written by the client
  fed,        \* stream bytes libevent moved to the bufferevent's input
  off,        \* stream bytes Pack took out of the input
  parser,     \* Session: stat_, req_buf_, event_type_
  packed,     \* how many frames became events
  alive,      \* FALSE once ReqCallback deleted the session
  refused     \* history: ... because Push refused its event

vars == <<frames, written, fed, off, parser, packed, alive, refused>>

Init ==
  /\ frames = <<>>
  /\ written = 0 /\ fed = 0 /\ off = 0
  /\ parser = NewParser
  /\ packed = 0
  /\ alive = TRUE /\ refused = FALSE

-----------------------------------------------------------------------------
(* The client writes a frame: header, then size bytes of body.  The bytes  *)
(* are in the socket from then on; ReqCallback takes them piecemeal.       *)
ClientWrite ==
  /\ Len(frames) < MaxFrames
  /\ \E size \in Sizes, type \in Types, magic \in BOOLEAN :
       frames' = Append(frames, [start |-> written, size |-> size,
                                 type |-> type, magic |-> magic])
  /\ written' = written + HeaderSize + frames'[Len(frames')].size
  /\ UNCHANGED <<fed, off, parser, packed, alive, refused>>

(* The frame being parsed, or the next one to parse. *)
Current == packed + 1

(* What ReqCallback makes of Pack's outcome: an exception deletes the      *)
(* session, a null event leaves it waiting for more, an event is pushed    *)
(* and the session is HANDLING.  Push fails when the pool's queue, which   *)
(* all connections share, is full: then the session is deleted as well.    *)
AfterPack(q) ==
  /\ off' = q.off
  /\ packed' = IF q.out = "event" THEN packed + 1 ELSE packed
  /\ \/ /\ q.out # "event"
        /\ parser' = q.p
        /\ alive' = (q.out # "throw")
        /\ UNCHANGED refused
     \/ /\ q.out = "event"
        /\ parser' = [q.p EXCEPT !.state = "HANDLING"]
        /\ UNCHANGED <<alive, refused>>
     \/ /\ q.out = "event"
        /\ parser' = q.p
        /\ alive' = FALSE /\ refused' = TRUE

(* libevent reads a piece from the socket and runs ReqCallback. *)
ReqCallback ==
  /\ alive
  /\ \E n \in (fed + 1)..written :
       /\ fed' = n
       /\ AfterPack(Pack(parser, off, n, frames))
  /\ UNCHANGED <<frames, written>>

(* handle_results writes the response and opens the session again. *)
HandleResult ==
  /\ alive /\ parser.state = "HANDLING"
  /\ parser' = [parser EXCEPT !.state = "WAITING_REQUEST"]
  /\ UNCHANGED <<frames, written, fed, off, packed, alive, refused>>

Next == ClientWrite \/ ReqCallback \/ HandleResult

(* The loop thread keeps running: what is readable is read, what is handled *)
(* is answered.  The client need not write.                                 *)
Spec == Init /\ [][Next]_vars
FairSpec == Spec /\ WF_vars(ReqCallback) /\ WF_vars(HandleResult)

-----------------------------------------------------------------------------
TypeOK ==
  /\ frames \in Seq(Frame)
  /\ written \in Nat /\ fed \in Nat /\ off \in Nat
  /\ parser \in Parser
  /\ packed \in Nat
  /\ alive \in BOOLEAN /\ refused \in BOOLEAN

(* Where frame k starts; one past the last frame, where the next will. *)
StartOf(k) == IF k <= Len(frames) THEN frames[k].start ELSE written

(* Pack never loses its place: however the stream was cut, between two     *)
(* requests exactly the bytes of the packed frames have been taken, and    *)
(* inside a request req_buf holds exactly the header, or the body, bytes   *)
(* of the current frame that were taken (msg_proxy.cpp:24-71).             *)
Aligned ==
  alive =>
    /\ parser.state \in {"WAITING_REQUEST", "HANDLING"} =>
         /\ off = StartOf(Current)
         /\ ~parser.req_buf.buf
    /\ parser.state = "PARSING_HEAD" =>
         /\ Current <= Len(frames)
         /\ off = frames[Current].start + parser.req_buf.last
         /\ parser.req_buf.total = HeaderSize
    /\ parser.state = "PARSING_BODY" =>
         /\ Current <= Len(frames)
         /\ off = frames[Current].start + HeaderSize + parser.req_buf.last
         /\ parser.req_buf.total = frames[Current].size
         /\ parser.event_type = frames[Current].type

(* A buffer is never written past its end: what is read fits in what was   *)
(* allocated, also when a header declares an empty body.                   *)
BufferFits ==
  parser.req_buf.last <= parser.req_buf.total

(* A session is dropped for one of three causes: the queue had no room for *)
(* its event; the frame Pack came to is malformed or not a request; or the *)
(* client wrote that frame before the last one was answered.  So a client  *)
(* that writes one request at a time, and waits, never loses its session   *)
(* to the way the network cuts it into pieces.  (One that does not wait    *)
(* may: two frames read together pass, and the second stays in the input;  *)
(* read one after the other, the second finds the session HANDLING.)       *)
DropsOnlyForCause ==
  ~alive =>
    \/ refused
    \/ /\ Current <= Len(frames)
       /\ \/ parser.state = "HANDLING"
          \/ ~frames[Current].magic
          \/ frames[Current].type \notin RequestTypes

(* Every frame is settled: it is packed and answered, or the session is    *)
(* dropped.  The README says of MessageProxy that it solves the usual      *)
(* problems of split and sticky packets: no request may be left lying.     *)
EveryFrameSettled ==
  \A k \in 1..MaxFrames :
    Len(frames) >= k ~>
      \/ packed >= k /\ (parser.state = "HANDLING" => packed > k)
      \/ ~alive

=============================================================================
