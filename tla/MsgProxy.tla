------------------------------ MODULE MsgProxy ------------------------------
(***************************************************************************)
(* The receive side of the wire protocol: class Buffer (session.h/.cpp),   *)
(* the parser state of class Session, and MsgProxy::Pack (msg_proxy.cpp),  *)
(* as operators on values.                                                 *)
(*                                                                         *)
(* Bytes are not represented one by one.  The bytes a client writes on a   *)
(* connection are numbered 0, 1, 2, ...; a frame records the number of its *)
(* first byte, and a buffer whose last `last' bytes were read up to byte   *)
(* `off' holds exactly the bytes off-last .. off-1.  What the header check *)
(* sees is therefore decided by the position at which the buffer starts: a *)
(* parser that has lost its place finds no frame there.                    *)
(***************************************************************************)
EXTENDS Integers, Sequences

CONSTANT HeaderSize          \* HEADER_SIZE, 10 bytes in the code

ASSUME HeaderSizeAssumption == HeaderSize \in Nat \ {0}

-----------------------------------------------------------------------------
(* Frames: what a client writes.  magic is whether the first four bytes are *)
(* HEADER_CONT; size is the length field and the number of body bytes.      *)

EventTypes == {"kPhoneReq", "kLoginReq", "kPhoneRes", "kLoginRes",
               "kCloseSession", "kUnknown"}

Frame == [start : Nat, size : Nat, type : EventTypes, magic : BOOLEAN]

(* The frames whose header lies at byte pos of the stream. *)
HeaderAt(frames, pos) == {i \in 1..Len(frames) : frames[i].start = pos}

-----------------------------------------------------------------------------
(* class Buffer.  buf is whether buf_ holds memory. *)

Buffer == [buf : BOOLEAN, total : Nat, last : Nat]

NewBuffer == [buf |-> FALSE, total |-> 0, last |-> 0]

Alloc(b, size) ==
  IF b.buf THEN b ELSE [buf |-> TRUE, total |-> size, last |-> 0]

Reset(b) == IF b.buf THEN [buf |-> FALSE, total |-> 0, last |-> 0] ELSE b

(* Mutants: last_ survives the reallocation; last_ counts down; a buffer   *)
(* is enough one byte late.                                                *)
ReallocKeepsLast(b, size) == [buf |-> TRUE, total |-> size, last |-> b.last]
DecrementLast(b, num) == [b EXCEPT !.last = @ - num]
IsMoreThanEnough(b) == b.last > b.total

Realloc(b, size) ==
  IF b.buf THEN [buf |-> TRUE, total |-> size, last |-> 0] ELSE Alloc(b, size)

IncrementLast(b, num) == [b EXCEPT !.last = @ + num]

IsEnough(b) == b.last = b.total

-----------------------------------------------------------------------------
(* The part of class Session that Pack reads and writes. *)

State == {"WAITING_REQUEST", "PARSING_HEAD", "PARSING_BODY", "HANDLING"}

Parser == [state : State, req_buf : Buffer, event_type : EventTypes]

NewParser == [state |-> "WAITING_REQUEST", req_buf |-> NewBuffer,
              event_type |-> "kUnknown"]

-----------------------------------------------------------------------------
(* MsgProxy::Pack(session), in the three stages of its body.  A stage maps *)
(* the triple of the session's parser p, the number off of stream bytes    *)
(* taken from the bufferevent so far, and the outcome out: "null" while    *)
(* nothing is decided (the final return nullptr), "throw" for any of its   *)
(* exceptions, "event" when a whole request was packed.  fed is the number *)
(* of stream bytes libevent has put in the bufferevent's input.            *)

(* The types with a case in Pack's switch. *)
RequestTypes == {"kPhoneReq", "kLoginReq"}

(* Mutants: a read that ignores the room left; a header expected at the    *)
(* start of every callback.                                                *)
ReadWholeInput(b, off, fed) == fed - off
PackBeginAlways(q) ==
  [q EXCEPT !.p.state = "PARSING_HEAD", !.p.req_buf = Realloc(@, HeaderSize)]

(* How many bytes bufferevent_read(bufev, buffer + last, total - last)     *)
(* moves: the room left, or what the input holds if that is less.          *)
ReadSize(b, off, fed) ==
  IF b.total - b.last <= fed - off THEN b.total - b.last ELSE fed - off

ReadInput(q, fed) ==
  LET curt == ReadSize(q.p.req_buf, q.off, fed)
  IN  [q EXCEPT !.p.req_buf = IncrementLast(@, curt), !.off = @ + curt]

PackBegin(q) ==
  IF q.p.state # "WAITING_REQUEST" THEN q
  ELSE [q EXCEPT !.p.state = "PARSING_HEAD",
                 !.p.req_buf = Alloc(@, HeaderSize)]

PackHead(q, fed, frames) ==
  LET r  == ReadInput(q, fed)
      hs == HeaderAt(frames, r.off - r.p.req_buf.last)
  IN  IF q.p.state # "PARSING_HEAD" THEN q
      ELSE IF ~IsEnough(r.p.req_buf) THEN r
      ELSE IF ~ \E i \in hs : frames[i].magic THEN [r EXCEPT !.out = "throw"]
      ELSE LET h == frames[CHOOSE i \in hs : TRUE]
           IN  [r EXCEPT !.p.event_type = h.type,
                         !.p.state = "PARSING_BODY",
                         !.p.req_buf = Realloc(@, h.size)]

PackBody(q, fed) ==
  LET r == ReadInput(q, fed)
  IN  IF ~(q.out = "null" /\ q.p.state = "PARSING_BODY" /\ fed > q.off) THEN q
      ELSE IF ~IsEnough(r.p.req_buf) THEN r
      ELSE IF r.p.event_type \notin RequestTypes
           THEN [r EXCEPT !.out = "throw"]
      ELSE [r EXCEPT !.p.req_buf = Reset(@), !.out = "event"]

Pack(p, off, fed, frames) ==
  LET q == [p |-> p, off |-> off, out |-> "null"]
  IN  IF p.state = "HANDLING" THEN [q EXCEPT !.out = "throw"]
      ELSE PackBody(PackHead(PackBegin(q), fed, frames), fed)

=============================================================================
