--------------------------- MODULE MsgProxyProofs ---------------------------
(***************************************************************************)
(* What MsgProxy::Pack makes of a session, for every header size, frame    *)
(* and cut of the stream: lemmas about the operators of MsgProxy, for the  *)
(* proofs about the modules that call Pack.                                *)
(***************************************************************************)
EXTENDS MsgProxy, TLAPS

(* The first byte after frame f. *)
EndOf(f) == f.start + HeaderSize + f.size

(* What Pack's stages pass on. *)
Stage == [p : Parser, off : Nat, out : {"null", "throw", "event"}]

(* Parser p, having taken o bytes, is inside the header, or the body, of   *)
(* frame c.                                                                *)
InHead(p, o, f) ==
  /\ p.state = "PARSING_HEAD" /\ p.req_buf.buf = TRUE
  /\ p.req_buf.total = HeaderSize
  /\ p.req_buf.last <= HeaderSize
  /\ o = f.start + p.req_buf.last

InBody(p, o, f) ==
  /\ p.state = "PARSING_BODY" /\ p.req_buf.buf = TRUE
  /\ p.req_buf.total = f.size
  /\ p.req_buf.last <= p.req_buf.total
  /\ o = f.start + HeaderSize + p.req_buf.last
  /\ p.event_type = f.type /\ f.magic = TRUE

(* A read takes as much as there is and fits: the buffer is full or the     *)
(* input used up, and the buffer still begins at the same stream byte.      *)
LEMMA ReadInputResult ==
  ASSUME NEW q \in Stage, NEW n \in Nat, q.off <= n,
         q.p.req_buf.last <= q.p.req_buf.total
  PROVE  LET r == ReadInput(q, n) IN
         /\ r \in Stage
         /\ r.out = q.out /\ r.p.state = q.p.state /\ r.p.event_type = q.p.event_type
         /\ r.p.req_buf.buf = q.p.req_buf.buf
         /\ r.p.req_buf.total = q.p.req_buf.total
         /\ r.p.req_buf.last <= r.p.req_buf.total
         /\ r.off <= n
         /\ r.off - r.p.req_buf.last = q.off - q.p.req_buf.last
         /\ r.p.req_buf.last < r.p.req_buf.total => r.off = n
         /\ r.off = q.off + (r.p.req_buf.last - q.p.req_buf.last)
<1> DEFINE curt == ReadSize(q.p.req_buf, q.off, n)
           b == [q.p.req_buf EXCEPT !.last = @ + curt]
           r == ReadInput(q, n)
<1>1. /\ q.off \in Nat /\ q.p \in Parser /\ q.p.req_buf \in Buffer
      /\ q.p.req_buf.last \in Nat /\ q.p.req_buf.total \in Nat
  BY DEF Stage, Parser, Buffer
<1>2. /\ curt \in Nat
      /\ curt <= q.p.req_buf.total - q.p.req_buf.last
      /\ curt <= n - q.off
      /\ curt = q.p.req_buf.total - q.p.req_buf.last \/ curt = n - q.off
  BY <1>1 DEF ReadSize
<1> HIDE DEF curt
<1>3. b \in Buffer /\ b.last = q.p.req_buf.last + curt
      /\ b.total = q.p.req_buf.total /\ b.buf = q.p.req_buf.buf
  BY <1>1, <1>2 DEF Buffer
<1>4. r = [q EXCEPT !.p.req_buf = b, !.off = @ + curt]
  BY DEF ReadInput, IncrementLast, curt
<1> HIDE DEF b, r
<1>5. r.p = [q.p EXCEPT !.req_buf = b] /\ r.off = q.off + curt /\ r.out = q.out
      /\ r = [p |-> r.p, off |-> r.off, out |-> r.out]
  BY <1>4 DEF Stage
<1>6. r.p \in Parser /\ r.p.req_buf = b /\ r.p.state = q.p.state
      /\ r.p.event_type = q.p.event_type
  BY <1>1, <1>3, <1>5 DEF Parser
<1>7. r \in Stage
  BY <1>1, <1>2, <1>5, <1>6 DEF Stage
<1>8. r.off - r.p.req_buf.last = q.off - q.p.req_buf.last
  BY <1>1, <1>2, <1>3, <1>5, <1>6
<1>9. r.p.req_buf.last <= r.p.req_buf.total /\ r.off <= n
      /\ (r.p.req_buf.last < r.p.req_buf.total => r.off = n)
      /\ r.off = q.off + (r.p.req_buf.last - q.p.req_buf.last)
  BY <1>1, <1>2, <1>3, <1>5, <1>6
<1> QED BY <1>3, <1>5, <1>6, <1>7, <1>8, <1>9 DEF r
-----------------------------------------------------------------------------
(* The three stages.  f is the frame being parsed. *)

(* What PackBody makes of q: it waits for more with the input used up,     *)
(* throws for a type that is no request's, or has taken the whole frame.   *)
BodyDone(q, r, n, f) ==
  /\ r \in Stage /\ f.start <= r.off /\ r.off <= n
  /\ r.p.req_buf.last <= r.p.req_buf.total
  /\ r.p.state = "PARSING_BODY"
  /\ r.out = "null" =>
       /\ InBody(r.p, r.off, f) /\ r.off = n
       /\ r = q \/ r.p.req_buf.last < r.p.req_buf.total
  /\ r.out = "throw" => f.type \notin RequestTypes
  /\ r.out = "event" => r.off = EndOf(f) /\ r.p.req_buf.buf = FALSE

(* A body is filled from the input and no further; Pack returns its event  *)
(* exactly when the last byte is there.                                    *)
LEMMA PackBodyResult ==
  ASSUME NEW f \in Frame, NEW n \in Nat,
         NEW q \in Stage, q.out = "null", q.off <= n, InBody(q.p, q.off, f)
  PROVE  BodyDone(q, PackBody(q, n), n, f)
<1> DEFINE s == ReadInput(q, n)
           r == PackBody(q, n)
<1> SUFFICES BodyDone(q, r, n, f)
  OBVIOUS
<1>1. /\ s \in Stage
      /\ s.out = q.out /\ s.p.state = q.p.state /\ s.p.event_type = q.p.event_type
      /\ s.p.req_buf.buf = q.p.req_buf.buf
      /\ s.p.req_buf.total = q.p.req_buf.total
      /\ s.p.req_buf.last <= s.p.req_buf.total
      /\ s.off <= n
      /\ s.p.req_buf.last < s.p.req_buf.total => s.off = n
      /\ s.off = q.off + (s.p.req_buf.last - q.p.req_buf.last)
  BY ReadInputResult DEF InBody
<1>2. r = IF ~(q.off < n) THEN q
          ELSE IF ~IsEnough(s.p.req_buf) THEN s
          ELSE IF s.p.event_type \notin RequestTypes THEN [s EXCEPT !.out = "throw"]
          ELSE [s EXCEPT !.p.req_buf = Reset(@), !.out = "event"]
  BY DEF PackBody, InBody, Stage
<1> HIDE DEF s, r
<1>3. /\ q.off \in Nat /\ q.p.req_buf.last \in Nat /\ q.p.req_buf.total \in Nat
      /\ s.off \in Nat /\ s.p.req_buf.last \in Nat /\ s.p.req_buf.total \in Nat
      /\ s.p \in Parser /\ s.p.req_buf \in Buffer
  BY <1>1 DEF Stage, Parser, Buffer
<1>4. f.start \in Nat /\ f.size \in Nat /\ HeaderSize \in Nat
  BY HeaderSizeAssumption DEF Frame
<1>5. q.off = f.start + HeaderSize + q.p.req_buf.last
  BY DEF InBody
<1>6. s.off = f.start + HeaderSize + s.p.req_buf.last
  <2> DEFINE from == q.off
             to == s.off
             old == q.p.req_buf.last
             new == s.p.req_buf.last
             base == f.start
  <2>1. to = from + (new - old)
    BY <1>1
  <2>2. /\ old \in Nat /\ new \in Nat /\ base \in Nat /\ HeaderSize \in Nat
        /\ from = base + HeaderSize + old
    BY <1>3, <1>4, <1>5
  <2> HIDE DEF from, to, old, new, base
  <2>3. to = base + HeaderSize + new
    BY <2>1, <2>2
  <2> QED BY <2>3 DEF to, base, new
<1>7. InBody(s.p, s.off, f)
  BY <1>1, <1>6 DEF InBody
<1>12. f.start <= s.off /\ f.start <= q.off
  BY <1>3, <1>4, <1>5, <1>6
<1>8. CASE ~(q.off < n)
  <2>1. r = q
    BY <1>2, <1>8
  <2>2. q.off = n
    BY <1>3, <1>8
  <2> QED BY <1>12, <2>1, <2>2 DEF BodyDone, InBody
<1>9. CASE q.off < n /\ ~IsEnough(s.p.req_buf)
  <2>1. r = s
    BY <1>2, <1>9
  <2>2. s.p.req_buf.last < s.p.req_buf.total
    BY <1>1, <1>3, <1>9 DEF IsEnough
  <2> QED BY <1>1, <1>7, <1>12, <2>1, <2>2 DEF BodyDone, InBody
<1>10. CASE q.off < n /\ IsEnough(s.p.req_buf) /\ s.p.event_type \notin RequestTypes
  <2>1. r = [s EXCEPT !.out = "throw"]
    BY <1>2, <1>10
  <2>2. r \in Stage /\ r.off = s.off /\ r.p = s.p /\ r.out = "throw"
    BY <2>1, <1>1 DEF Stage
  <2> QED BY <2>2, <1>1, <1>7, <1>10, <1>12 DEF BodyDone, InBody
<1>11. CASE q.off < n /\ IsEnough(s.p.req_buf) /\ s.p.event_type \in RequestTypes
  <2> DEFINE b == Reset(s.p.req_buf)
  <2>1. r = [s EXCEPT !.p.req_buf = b, !.out = "event"]
    BY <1>2, <1>11
  <2>2. b = [buf |-> FALSE, total |-> 0, last |-> 0]
    BY <1>7 DEF Reset, InBody
  <2>3. b \in Buffer /\ b.buf = FALSE /\ b.last <= b.total
    BY <2>2 DEF Buffer
  <2> HIDE DEF b
  <2>4. r.p = [s.p EXCEPT !.req_buf = b] /\ r.off = s.off /\ r.out = "event"
        /\ r = [p |-> r.p, off |-> r.off, out |-> r.out]
    BY <2>1, <1>1 DEF Stage
  <2>5. r.p \in Parser /\ r.p.req_buf = b /\ r.p.state = s.p.state
    BY <2>3, <2>4, <1>3 DEF Parser
  <2>6. s.p.req_buf.last = f.size
    BY <1>7, <1>11 DEF IsEnough, InBody
  <2>7. r.off = EndOf(f)
    BY <2>4, <2>6, <1>6 DEF EndOf
  <2>8. r \in Stage
    BY <2>4, <2>5, <1>3 DEF Stage
  <2> QED BY <2>3, <2>4, <2>5, <2>7, <2>8, <1>1, <1>7, <1>12 DEF BodyDone, InBody
<1> QED BY <1>8, <1>9, <1>10, <1>11

(* What PackHead makes of q: it waits for more with the input used up,     *)
(* throws for a header without the magic bytes, or is at the start of the  *)
(* body.                                                                   *)
HeadDone(r, n, f) ==
  /\ r \in Stage /\ f.start <= r.off /\ r.off <= n
  /\ r.p.req_buf.last <= r.p.req_buf.total
  /\ \/ /\ r.out = "null" /\ InHead(r.p, r.off, f) /\ r.off = n
        /\ r.p.req_buf.last < HeaderSize
     \/ r.out = "null" /\ InBody(r.p, r.off, f) /\ r.p.req_buf.last = 0
     \/ /\ r.out = "throw" /\ r.p.state = "PARSING_HEAD"
        /\ f.magic = FALSE

(* A header is filled from the input and no further; when it is whole, it  *)
(* is the frame's own, wherever the reads ended.                           *)
LEMMA PackHeadResult ==
  ASSUME NEW frames, NEW c, NEW f \in Frame, frames[c] = f,
         HeaderAt(frames, f.start) = {c}, NEW n \in Nat,
         NEW q \in Stage, q.out = "null", q.off <= n, InHead(q.p, q.off, f)
  PROVE  HeadDone(PackHead(q, n, frames), n, f)
<1> DEFINE s == ReadInput(q, n)
           hs == HeaderAt(frames, s.off - s.p.req_buf.last)
           h == frames[CHOOSE i \in hs : TRUE]
           r == PackHead(q, n, frames)
<1> SUFFICES HeadDone(r, n, f)
  OBVIOUS
<1>1. /\ s \in Stage
      /\ s.out = q.out /\ s.p.state = q.p.state
      /\ s.p.req_buf.buf = q.p.req_buf.buf
      /\ s.p.req_buf.total = q.p.req_buf.total
      /\ s.p.req_buf.last <= s.p.req_buf.total
      /\ s.off <= n
      /\ s.p.req_buf.last < s.p.req_buf.total => s.off = n
      /\ s.off = q.off + (s.p.req_buf.last - q.p.req_buf.last)
  BY ReadInputResult DEF InHead
<1>2. r = IF ~IsEnough(s.p.req_buf) THEN s
          ELSE IF ~ \E i \in hs : frames[i].magic THEN [s EXCEPT !.out = "throw"]
          ELSE [s EXCEPT !.p.event_type = h.type, !.p.state = "PARSING_BODY",
                         !.p.req_buf = Realloc(@, h.size)]
  BY DEF PackHead, InHead
<1>3. /\ q.off \in Nat /\ q.p.req_buf.last \in Nat
      /\ s.off \in Nat /\ s.p.req_buf.last \in Nat /\ s.p.req_buf.total \in Nat
      /\ s.p \in Parser /\ s.p.req_buf \in Buffer
  <2> HIDE DEF s
  <2> QED BY <1>1 DEF Stage, Parser, Buffer
<1>4. /\ f.start \in Nat /\ f.size \in Nat /\ HeaderSize \in Nat
      /\ f.type \in EventTypes /\ f.magic \in BOOLEAN
  BY HeaderSizeAssumption DEF Frame
<1>5. q.off = f.start + q.p.req_buf.last
  BY DEF InHead
<1>6. s.off = f.start + s.p.req_buf.last /\ s.off - s.p.req_buf.last = f.start
  <2> HIDE DEF s
  <2>1. s.off = f.start + s.p.req_buf.last
    BY <1>1, <1>3, <1>4, <1>5
  <2>2. s.off - s.p.req_buf.last = f.start
    BY <2>1, <1>3, <1>4
  <2> QED BY <2>1, <2>2
<1>7. hs = {c}
  BY <1>6
<1>8. h = f
  BY <1>7
<1> HIDE DEF s, hs, h, r
<1>9. InHead(s.p, s.off, f)
  BY <1>1, <1>6 DEF InHead
<1>13. f.start <= s.off
  BY <1>3, <1>4, <1>6
<1>10. CASE ~IsEnough(s.p.req_buf)
  <2>1. r = s
    BY <1>2, <1>10
  <2>2. s.p.req_buf.last < s.p.req_buf.total
    BY <1>1, <1>3, <1>10 DEF IsEnough
  <2> QED BY <1>1, <1>9, <1>13, <2>1, <2>2 DEF HeadDone, InHead
<1>11. CASE IsEnough(s.p.req_buf) /\ f.magic = FALSE
  <2>1. r = [s EXCEPT !.out = "throw"]
    BY <1>2, <1>7, <1>11
  <2>2. r \in Stage /\ r.off = s.off /\ r.p = s.p /\ r.out = "throw"
    BY <2>1, <1>1 DEF Stage
  <2> QED BY <2>2, <1>1, <1>9, <1>11, <1>13 DEF HeadDone, InHead
<1>12. CASE IsEnough(s.p.req_buf) /\ f.magic = TRUE
  <2> DEFINE b == Realloc(s.p.req_buf, f.size)
  <2>1. r = [s EXCEPT !.p.event_type = f.type, !.p.state = "PARSING_BODY",
                      !.p.req_buf = b]
    BY <1>2, <1>7, <1>8, <1>12
  <2>2. b = [buf |-> TRUE, total |-> f.size, last |-> 0]
    BY <1>9 DEF Realloc, InHead
  <2>3. b \in Buffer /\ b.buf = TRUE /\ b.last = 0 /\ b.total = f.size
    BY <2>2, <1>4 DEF Buffer
  <2> HIDE DEF b
  <2>4. /\ r.p = [s.p EXCEPT !.event_type = f.type,
                             !.state = "PARSING_BODY", !.req_buf = b]
        /\ r.off = s.off /\ r.out = s.out
        /\ r = [p |-> r.p, off |-> r.off, out |-> r.out]
    BY <2>1, <1>1 DEF Stage
  <2>5. /\ r.p \in Parser /\ r.p.req_buf = b /\ r.p.state = "PARSING_BODY"
        /\ r.p.event_type = f.type
    BY <2>3, <2>4, <1>3, <1>4 DEF Parser, State
  <2>6. s.p.req_buf.last = HeaderSize
    BY <1>9, <1>12 DEF IsEnough, InHead
  <2>7. r.off = f.start + HeaderSize + b.last
    BY <2>3, <2>4, <2>6, <1>4, <1>6
  <2>8. r \in Stage /\ r.out = "null"
    BY <2>4, <2>5, <1>1, <1>3 DEF Stage
  <2>9. InBody(r.p, r.off, f) /\ r.p.req_buf.last = 0
    BY <2>3, <2>5, <2>7, <1>4, <1>12 DEF InBody
  <2> QED BY <2>4, <2>8, <2>9, <1>1, <1>13 DEF HeadDone, InBody
<1> QED BY <1>4, <1>10, <1>11, <1>12
(* Between two calls of Pack a session that is not HANDLING is before frame *)
(* f, or has read part of its header, or of its body.                       *)
AtFrame(p, o, f) ==
  \/ p.state = "WAITING_REQUEST" /\ p.req_buf.buf = FALSE /\ o = f.start
  \/ InHead(p, o, f)
  \/ /\ InBody(p, o, f)
     /\ p.req_buf.last < p.req_buf.total \/ p.req_buf.last = 0

(* What a whole call of Pack makes of a session that is not HANDLING. *)
PackDone(r, n, f) ==
  /\ r \in Stage /\ f.start <= r.off /\ r.off <= n
  /\ r.p.req_buf.last <= r.p.req_buf.total
  /\ r.p.state \in {"PARSING_HEAD", "PARSING_BODY"}
  /\ r.out = "null" =>
       /\ r.off = n
       /\ \/ InHead(r.p, r.off, f) /\ r.p.req_buf.last < HeaderSize
          \/ /\ InBody(r.p, r.off, f)
             /\ r.p.req_buf.last < r.p.req_buf.total \/ r.p.req_buf.last = 0
  /\ r.out = "throw" =>
       f.magic = FALSE \/ f.type \notin RequestTypes
  /\ r.out = "event" => r.off = EndOf(f) /\ r.p.req_buf.buf = FALSE

(* A session whose buffer is a header's goes on to the header, and to the  *)
(* body if the header is complete.                                         *)
LEMMA PackFromHead ==
  ASSUME NEW frames, NEW c, NEW f \in Frame, frames[c] = f,
         HeaderAt(frames, f.start) = {c}, NEW n \in Nat,
         NEW q \in Stage, q.out = "null", q.off <= n, InHead(q.p, q.off, f)
  PROVE  PackDone(PackBody(PackHead(q, n, frames), n), n, f)
<1> DEFINE q2 == PackHead(q, n, frames)
           r == PackBody(q2, n)
<1>1. HeadDone(q2, n, f)
  BY PackHeadResult
<1> HIDE DEF q2
<1>2. CASE q2.p.state = "PARSING_HEAD" \/ q2.out # "null"
  <2>1. r = q2
    BY <1>2 DEF PackBody
  <2> HIDE DEF r
  <2>2. PackDone(r, n, f)
    BY <2>1, <1>1, <1>2 DEF HeadDone, PackDone, InHead, InBody
  <2> QED BY <2>2 DEF r, q2
<1>3. CASE q2.p.state = "PARSING_BODY" /\ q2.out = "null"
  <2>1. q2 \in Stage /\ q2.off <= n /\ InBody(q2.p, q2.off, f) /\ q2.p.req_buf.last = 0
    BY <1>1, <1>3 DEF HeadDone, InHead
  <2>2. BodyDone(q2, r, n, f)
    BY <1>3, <2>1, PackBodyResult
  <2> HIDE DEF r
  <2>3. PackDone(r, n, f)
    BY <2>1, <2>2 DEF BodyDone, PackDone
  <2> QED BY <2>3 DEF r, q2
<1> QED BY <1>1, <1>2, <1>3 DEF HeadDone, InHead, InBody

(* A stale result makes a session WAITING_REQUEST that is inside a request: *)
(* its buffer, a header's or a body's, is then filled up as a header.       *)
Misled(p, o, f) ==
  /\ p.state \in {"WAITING_REQUEST", "PARSING_HEAD"}
  /\ p.req_buf.buf = TRUE /\ p.req_buf.last <= p.req_buf.total
  /\ \/ p.req_buf.total = HeaderSize /\ o = f.start + p.req_buf.last
     \/ p.req_buf.total = f.size /\ o = f.start + HeaderSize + p.req_buf.last

(* One call of Pack on a session that keeps its place in the stream: it    *)
(* still keeps it, or it throws for cause, or it has packed one frame      *)
(* whole.                                                                  *)
LEMMA PackResult ==
  ASSUME NEW frames, NEW c, NEW f \in Frame, frames[c] = f,
         HeaderAt(frames, f.start) = {c}, NEW n \in Nat,
         NEW p \in Parser, NEW o \in Nat, o <= n, AtFrame(p, o, f)
  PROVE  PackDone(Pack(p, o, n, frames), n, f)
<1> DEFINE q == [p |-> p, off |-> o, out |-> "null"]
           q1 == PackBegin(q)
           q2 == PackHead(q1, n, frames)
           r == PackBody(q2, n)
<1>1. p.state \in State /\ p.state # "HANDLING"
  BY DEF Parser, AtFrame, InHead, InBody
<1>3. q \in Stage /\ q.p = p /\ q.off = o /\ q.out = "null"
  BY DEF Stage
<1>4. Pack(p, o, n, frames) = r
  BY <1>1 DEF Pack
<1> SUFFICES PackDone(r, n, f)
  BY <1>4
<1>5. /\ f.start \in Nat /\ f.size \in Nat
      /\ HeaderSize \in Nat /\ HeaderSize > 0
  BY HeaderSizeAssumption DEF Frame
<1> HIDE DEF q
<1>6. CASE p.state = "PARSING_BODY"
  <2>1. q1 = q
    BY <1>3, <1>6 DEF PackBegin
  <2>2. q2 = q
    BY <1>3, <1>6, <2>1 DEF PackHead
  <2>3. InBody(q.p, q.off, f) /\ (p.req_buf.last < p.req_buf.total \/ p.req_buf.last = 0)
    BY <1>3, <1>6 DEF AtFrame, InHead
  <2>4. BodyDone(q, r, n, f)
    <3>1. r = PackBody(q, n) /\ q.off <= n
      BY <1>3, <2>2
    <3> HIDE DEF q1, q2, r
    <3> QED BY <1>3, <2>3, <3>1, PackBodyResult
  <2> HIDE DEF q1, q2, r
  <2> QED BY <1>3, <2>3, <2>4 DEF BodyDone, PackDone
<1>7. CASE p.state \in {"WAITING_REQUEST", "PARSING_HEAD"}
  <2>1. q1 \in Stage /\ q1.out = "null" /\ q1.off = o /\ InHead(q1.p, q1.off, f)
    <3>1. CASE p.state = "PARSING_HEAD"
      <4>1. q1 = q
        BY <1>3, <3>1 DEF PackBegin
      <4> QED BY <1>3, <3>1, <4>1 DEF AtFrame, InBody
    <3>2. CASE p.state = "WAITING_REQUEST"
      <4> DEFINE b == Alloc(p.req_buf, HeaderSize)
      <4>1. p.req_buf.buf = FALSE /\ o = f.start
        BY <3>2 DEF AtFrame, InHead, InBody
      <4>2. b = [buf |-> TRUE, total |-> HeaderSize, last |-> 0]
        BY <4>1 DEF Alloc
      <4>3. b \in Buffer /\ b.buf = TRUE /\ b.total = HeaderSize /\ b.last = 0
        BY <4>2, <1>5 DEF Buffer
      <4>4. q1 = [q EXCEPT !.p.state = "PARSING_HEAD", !.p.req_buf = b]
        BY <1>3, <3>2 DEF PackBegin
      <4> HIDE DEF b, q1
      <4>5. /\ q1.p = [p EXCEPT !.state = "PARSING_HEAD", !.req_buf = b]
            /\ q1.off = o /\ q1.out = "null"
            /\ q1 = [p |-> q1.p, off |-> q1.off, out |-> q1.out]
        BY <1>3, <4>4 DEF Stage
      <4>6. q1.p \in Parser /\ q1.p.req_buf = b /\ q1.p.state = "PARSING_HEAD"
        BY <1>1, <4>3, <4>5 DEF Parser, State
      <4>7. q1 \in Stage
        BY <4>5, <4>6 DEF Stage
      <4> QED BY <1>5, <4>1, <4>3, <4>5, <4>6, <4>7 DEF InHead
    <3> QED BY <1>7, <3>1, <3>2
  <2> HIDE DEF q1
  <2> QED BY <2>1, PackFromHead
<1> QED BY <1>1, <1>6, <1>7 DEF State

(* What a call of Pack makes of a session that was misled: it goes on as    *)
(* it should, or finds no header where it looks, and throws.                *)
MisledDone(r, n, f) ==
  /\ r \in Stage /\ f.start <= r.off /\ r.off <= n
  /\ r.p.req_buf.last <= r.p.req_buf.total
  /\ r.p.state \in {"PARSING_HEAD", "PARSING_BODY"}
  /\ r.out = "null" => AtFrame(r.p, r.off, f) \/ Misled(r.p, r.off, f)
  /\ r.out = "event" => r.off = EndOf(f) /\ r.p.req_buf.buf = FALSE

(* One call of Pack on a session that a stale result misled: no read       *)
(* leaves its buffer, and what is packed ends where a frame ends.          *)
LEMMA PackOfMisled ==
  ASSUME NEW frames, NEW c, NEW f \in Frame, frames[c] = f,
         HeaderAt(frames, f.start) = {c},
         HeaderAt(frames, f.start + HeaderSize) = {}, NEW n \in Nat,
         NEW p \in Parser, NEW o \in Nat, o <= n, Misled(p, o, f)
  PROVE  MisledDone(Pack(p, o, n, frames), n, f)
<1> DEFINE q == [p |-> [p EXCEPT !.state = "PARSING_HEAD"], off |-> o, out |-> "null"]
           q2 == PackHead(q, n, frames)
           r == PackBody(q2, n)
<1>1. /\ f.start \in Nat /\ f.size \in Nat /\ HeaderSize \in Nat
      /\ p.req_buf \in Buffer /\ p.req_buf.last \in Nat /\ p.req_buf.total \in Nat
  BY HeaderSizeAssumption DEF Frame, Parser, Buffer
<1>2. /\ q \in Stage /\ q.off = o /\ q.out = "null" /\ q.p \in Parser
      /\ q.p.state = "PARSING_HEAD" /\ q.p.req_buf = p.req_buf
  BY DEF Stage, Parser, State
<1>3. Pack(p, o, n, frames) = r
  <2>1. Alloc(p.req_buf, HeaderSize) = p.req_buf
    BY DEF Alloc, Misled
  <2>2. PackBegin([p |-> p, off |-> o, out |-> "null"]) = q
    BY <2>1 DEF PackBegin, Misled, Parser
  <2> HIDE DEF q
  <2> QED BY <2>2 DEF Pack, Misled
<1> HIDE DEF q
<1> SUFFICES MisledDone(r, n, f)
  BY <1>3
<1>4. CASE p.req_buf.total = HeaderSize /\ o = f.start + p.req_buf.last
  <2>1. InHead(q.p, q.off, f)
    BY <1>2, <1>4 DEF InHead, Misled
  <2>2. PackDone(r, n, f)
    BY <1>2, <2>1, PackFromHead
  <2> HIDE DEF q2, r
  <2> QED BY <2>2 DEF PackDone, MisledDone, AtFrame
<1>5. CASE p.req_buf.total = f.size /\ o = f.start + HeaderSize + p.req_buf.last
  <2> DEFINE s == ReadInput(q, n)
  <2>1. /\ s \in Stage
        /\ s.out = q.out /\ s.p.state = q.p.state
        /\ s.p.req_buf.buf = q.p.req_buf.buf
        /\ s.p.req_buf.total = q.p.req_buf.total
        /\ s.p.req_buf.last <= s.p.req_buf.total
        /\ s.off <= n
        /\ s.off - s.p.req_buf.last = q.off - q.p.req_buf.last
        /\ s.off = q.off + (s.p.req_buf.last - q.p.req_buf.last)
    BY <1>2, ReadInputResult DEF Misled
  <2>2. q2 = IF ~IsEnough(s.p.req_buf) THEN s
             ELSE IF ~ \E i \in HeaderAt(frames, s.off - s.p.req_buf.last) : frames[i].magic
                  THEN [s EXCEPT !.out = "throw"]
             ELSE q2
    BY <1>2 DEF PackHead
  <2> HIDE DEF s, q2
  <2>3. s.p.req_buf.last \in Nat /\ s.p.req_buf.total \in Nat /\ s.off \in Nat
    BY <2>1 DEF Stage, Parser, Buffer
  <2>4. q.off - q.p.req_buf.last = f.start + HeaderSize
    BY <1>1, <1>2, <1>5
  <2>5. HeaderAt(frames, s.off - s.p.req_buf.last) = {}
    BY <2>1, <2>4
  <2>6. s.off = f.start + HeaderSize + s.p.req_buf.last
    BY <1>1, <1>2, <1>5, <2>1, <2>3
  <2>7. q2 \in Stage /\ q2.off = s.off /\ q2.p = s.p /\ q2.out \in {"null", "throw"}
    BY <1>2, <2>1, <2>2, <2>5 DEF Stage
  <2>8. r = q2
    BY <1>2, <2>1, <2>7 DEF PackBody
  <2>9. Misled(r.p, r.off, f)
    BY <1>2, <1>5, <2>1, <2>6, <2>7, <2>8 DEF Misled
  <2> HIDE DEF r
  <2>10. f.start <= r.off
    BY <1>1, <2>3, <2>6, <2>7, <2>8
  <2>11. r.out # "event"
    BY <2>7, <2>8
  <2> QED BY <1>2, <2>1, <2>7, <2>8, <2>9, <2>10, <2>11 DEF MisledDone
<1> QED BY <1>4, <1>5 DEF Misled

=============================================================================
