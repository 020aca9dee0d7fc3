--------------------------- MODULE FramingProofs ---------------------------
(***************************************************************************)
(* Pack keeps its place in the stream, for every header size, every set of *)
(* body sizes and types, any number of frames and every way of cutting the *)
(* stream.                                                                 *)
(*                                                                         *)
(* Aligned is not inductive.  It needs Layout (frames lie one after the    *)
(* other, so that a header is found at one place only), Positions (Pack is *)
(* never ahead of what was fed), and Partial (a request is only half read  *)
(* when the input is used up).                                             *)
(***************************************************************************)
EXTENDS Framing, MsgProxyProofs

(* The first byte after frame i. *)
EndOfFrame(i) == EndOf(frames[i])

(* Frames lie one after the other, without gaps, from byte 0 to written. *)
Layout ==
  /\ \A i \in 1..Len(frames) :
       /\ EndOfFrame(i) <= written
       /\ \A j \in 1..Len(frames) : i < j => EndOfFrame(i) <= frames[j].start
  /\ \A i \in 1..Len(frames) : StartOf(i + 1) = EndOfFrame(i)
  /\ StartOf(1) = 0

Positions == off <= fed /\ fed <= written /\ packed <= Len(frames)

(* Between two callbacks a request that is half read has used up the input, *)
(* and its header, once read, was a good one.                               *)
Partial ==
  alive =>
    /\ parser.state \in {"PARSING_HEAD", "PARSING_BODY"} =>
         parser.req_buf.buf /\ off = fed
    /\ parser.state = "PARSING_HEAD" => parser.req_buf.last < HeaderSize
    /\ parser.state = "PARSING_BODY" =>
         /\ frames[Current].magic = TRUE
         /\ parser.req_buf.last < parser.req_buf.total \/ parser.req_buf.last = 0

(* The inductive invariant. *)
FramingInv ==
  /\ TypeOK /\ Layout /\ Positions /\ Partial
  /\ Aligned /\ BufferFits /\ DropsOnlyForCause

-----------------------------------------------------------------------------
(* A new connection has an empty stream and a new parser. *)
LEMMA InitFraming == Init => FramingInv
<1> SUFFICES ASSUME Init PROVE FramingInv
  OBVIOUS
<1> USE DEF Init
<1>1. Len(frames) = 0
  OBVIOUS
<1>2. TypeOK
  <2>1. frames \in Seq(Frame) /\ written \in Nat /\ fed \in Nat /\ off \in Nat /\ packed \in Nat
    OBVIOUS
  <2>2. parser \in Parser
    BY DEF NewParser, Parser, State, Buffer, NewBuffer, EventTypes
  <2>3. alive \in BOOLEAN /\ refused \in BOOLEAN
    OBVIOUS
  <2> QED BY <2>1, <2>2, <2>3, Zenon DEF TypeOK
<1>3. Layout /\ Positions
  BY <1>1 DEF Layout, Positions, StartOf
<1>4. Partial /\ BufferFits /\ DropsOnlyForCause
  BY DEF Partial, BufferFits, DropsOnlyForCause, NewParser, NewBuffer
<1>5. Aligned
  BY <1>1 DEF Aligned, StartOf, Current, NewParser, NewBuffer
<1> QED BY <1>2, <1>3, <1>4, <1>5 DEF FramingInv

(* Appending a frame disturbs no earlier one. *)
LEMMA ClientWritePreserves ==
  ASSUME FramingInv, ClientWrite
  PROVE  FramingInv'
<1> USE DEF FramingInv
<1>1. PICK size \in Sizes, type \in Types, magic \in BOOLEAN :
        frames' = Append(frames, [start |-> written, size |-> size,
                                  type |-> type, magic |-> magic])
  BY DEF ClientWrite
<1>0. PICK n \in Nat : n = Len(frames)
  BY DEF TypeOK
<1> DEFINE f == [start |-> written, size |-> size, type |-> type, magic |-> magic]
<1>2. f \in Frame /\ frames \in Seq(Frame) /\ n = Len(frames)
  BY <1>0, FramingAssumption DEF Frame, TypeOK
<1>3. /\ frames' \in Seq(Frame) /\ Len(frames') = n + 1
      /\ frames'[n + 1] = f
      /\ \A i \in 1..n : frames'[i] = frames[i]
  BY <1>1, <1>2
<1>4. written' = written + HeaderSize + size
  BY <1>3 DEF ClientWrite
<1>5. UNCHANGED <<fed, off, parser, packed, alive, refused>>
  BY DEF ClientWrite
<1>6. size \in Nat /\ written \in Nat /\ HeaderSize \in Nat \ {0}
  BY FramingAssumption, HeaderSizeAssumption DEF TypeOK
<1>7. \A i \in 1..n : frames[i] \in Frame
  BY <1>2
<1>8. \A i \in 1..n : frames[i].start \in Nat /\ frames[i].size \in Nat
  BY <1>7 DEF Frame
<1>9. TypeOK'
  BY <1>3, <1>4, <1>5, <1>6 DEF TypeOK
<1> HIDE DEF f
<1>10. f.start = written /\ f.size = size
  BY DEF f
<1>11. \A i \in 1..n : EndOfFrame(i)' = EndOfFrame(i)
  BY <1>2, <1>3 DEF EndOfFrame, EndOf
<1>12. \A i \in 1..(n + 1) : StartOf(i)' = StartOf(i)
  BY <1>2, <1>3, <1>10 DEF StartOf
<1>13. EndOfFrame(n + 1)' = written' /\ StartOf(n + 2)' = written'
  BY <1>2, <1>3, <1>4, <1>10 DEF EndOfFrame, EndOf, StartOf
<1>14. Layout'
  <2>1. ASSUME NEW i \in 1..Len(frames')
        PROVE  /\ EndOfFrame(i)' <= written'
               /\ \A j \in 1..Len(frames') : i < j => EndOfFrame(i)' <= frames'[j].start
    <3>1. CASE i \in 1..n
      <4>1. EndOfFrame(i) <= written /\ EndOfFrame(i) \in Nat
        BY <3>1, <1>2, <1>6, <1>8 DEF Layout, EndOfFrame, EndOf
      <4>2. ASSUME NEW j \in 1..Len(frames'), i < j
            PROVE  EndOfFrame(i)' <= frames'[j].start
        <5>1. CASE j \in 1..n
          BY <5>1, <4>2, <3>1, <1>2, <1>3, <1>11 DEF Layout
        <5>2. CASE j = n + 1
          BY <5>2, <4>1, <3>1, <1>3, <1>10, <1>11
        <5> QED BY <5>1, <5>2, <1>2, <1>3
      <4> QED BY <4>1, <4>2, <3>1, <1>4, <1>6, <1>11
    <3>2. CASE i = n + 1
      BY <3>2, <1>2, <1>3, <1>4, <1>6, <1>13
    <3> QED BY <3>1, <3>2, <1>2, <1>3
  <2>2. ASSUME NEW i \in 1..Len(frames')
        PROVE  StartOf(i + 1)' = EndOfFrame(i)'
    <3>1. CASE i \in 1..n
      BY <3>1, <1>2, <1>11, <1>12 DEF Layout
    <3>2. CASE i = n + 1
      BY <3>2, <1>2, <1>13
    <3> QED BY <3>1, <3>2, <1>2, <1>3
  <2>3. StartOf(1)' = 0
    BY <1>2, <1>12 DEF Layout
  <2> QED BY <2>1, <2>2, <2>3 DEF Layout
<1>15. Positions'
  BY <1>2, <1>3, <1>4, <1>5, <1>6 DEF Positions, TypeOK
<1>16. Current' = Current /\ Current \in 1..(n + 1)
  BY <1>2, <1>5 DEF Current, Positions, TypeOK
<1>17. StartOf(Current)' = StartOf(Current)
  BY <1>12, <1>16 DEF Current
<1>18. Current <= n => frames'[Current] = frames[Current] /\ Current <= Len(frames')
  BY <1>2, <1>3, <1>16
<1>19. Aligned' /\ Partial'
  BY <1>2, <1>5, <1>16, <1>17, <1>18 DEF Aligned, Partial
<1>20. BufferFits' /\ DropsOnlyForCause'
  BY <1>2, <1>5, <1>16, <1>18 DEF BufferFits, DropsOnlyForCause
<1> QED BY <1>9, <1>14, <1>15, <1>19, <1>20
-----------------------------------------------------------------------------
(* The types of the fields of a frame that was written. *)
LEMMA FrameFields ==
  ASSUME TypeOK, NEW i \in 1..Len(frames)
  PROVE  /\ frames[i].start \in Nat /\ frames[i].size \in Nat
         /\ frames[i].type \in EventTypes /\ frames[i].magic \in BOOLEAN
<1>1. frames[i] \in Frame
  BY DEF TypeOK
<1> QED BY <1>1 DEF Frame

(* A header is found at its frame's first byte and nowhere else. *)
LEMMA HeaderIsUnique ==
  ASSUME TypeOK, Layout, NEW c \in 1..Len(frames)
  PROVE  HeaderAt(frames, frames[c].start) = {c}
<1>1. \A i \in 1..Len(frames) : frames[i].start \in Nat /\ frames[i].size \in Nat
  BY FrameFields
<1>2. ASSUME NEW i \in 1..Len(frames), NEW j \in 1..Len(frames), i < j
      PROVE  frames[i].start # frames[j].start
  <2>1. EndOfFrame(i) <= frames[j].start
    BY <1>2 DEF Layout
  <2> QED BY <1>1, <2>1, HeaderSizeAssumption DEF EndOfFrame, EndOf
<1>3. ASSUME NEW i \in 1..Len(frames), frames[i].start = frames[c].start
      PROVE  i = c
  BY <1>2, <1>3 DEF TypeOK
<1> QED BY <1>3 DEF HeaderAt

(* What one call of Pack does to a session that is not HANDLING. *)
LEMMA PackOutcome ==
  ASSUME FramingInv, alive, parser.state # "HANDLING",
         NEW n \in (fed + 1)..written
  PROVE  /\ Current \in 1..Len(frames)
         /\ PackDone(Pack(parser, off, n, frames), n, frames[Current])
<1> USE DEF FramingInv
<1> DEFINE c == Current
<1>1. /\ n \in Nat /\ off \in Nat /\ fed \in Nat /\ written \in Nat /\ packed \in Nat
      /\ off < n /\ n <= written /\ Len(frames) \in Nat /\ packed <= Len(frames)
      /\ parser \in Parser /\ parser.state \in State
  BY DEF TypeOK, Positions, Parser
<1>2. c \in 1..Len(frames)
  <2>1. CASE parser.state = "WAITING_REQUEST"
    <3>1. off = StartOf(c)
      BY <2>1 DEF Aligned
    <3>2. c # Len(frames) + 1
      BY <1>1, <3>1 DEF StartOf
    <3> QED BY <1>1, <3>2 DEF Current
  <2>2. CASE parser.state # "WAITING_REQUEST"
    BY <1>1, <2>2 DEF Aligned, State, Current
  <2> QED BY <2>1, <2>2
<1>3. frames[c] \in Frame
  BY <1>2 DEF TypeOK
<1>4. HeaderAt(frames, frames[c].start) = {c}
  BY <1>2, HeaderIsUnique
<1>5. AtFrame(parser, off, frames[c])
  <2>1. CASE parser.state = "WAITING_REQUEST"
    BY <1>1, <1>2, <2>1 DEF Aligned, StartOf, Parser, Buffer, AtFrame
  <2>2. CASE parser.state = "PARSING_HEAD"
    <3>1. parser.req_buf.last <= HeaderSize
      BY <2>2 DEF Aligned, BufferFits
    <3> QED BY <2>2, <3>1 DEF AtFrame, InHead, Aligned, Partial
  <2>3. CASE parser.state = "PARSING_BODY"
    BY <2>3 DEF AtFrame, InBody, Aligned, Partial, BufferFits
  <2> QED BY <1>1, <2>1, <2>2, <2>3 DEF State
<1> HIDE DEF c
<1>6. PackDone(Pack(parser, off, n, frames), n, frames[c])
  BY <1>1, <1>3, <1>4, <1>5, PackResult
<1> QED BY <1>2, <1>6 DEF c

(* ReqCallback: one call of Pack for what has arrived, then the event is   *)
(* pushed or the session deleted.                                          *)
LEMMA ReqCallbackPreserves ==
  ASSUME FramingInv, ReqCallback
  PROVE  FramingInv'
<1> USE DEF FramingInv
<1>1. PICK n \in (fed + 1)..written :
        fed' = n /\ AfterPack(Pack(parser, off, n, frames))
  BY DEF ReqCallback
<1>2. alive /\ frames' = frames /\ written' = written
  BY DEF ReqCallback
<1>3. /\ fed \in Nat /\ off \in Nat /\ written \in Nat /\ packed \in Nat /\ Len(frames) \in Nat
      /\ n \in Nat /\ off < n /\ n <= written /\ fed' = n
  BY <1>1 DEF TypeOK, Positions
<1>4. Layout'
  BY <1>2 DEF Layout, StartOf, EndOfFrame, EndOf
<1>5. CASE parser.state = "HANDLING"
  <2>1. /\ off' = off /\ parser' = parser /\ packed' = packed /\ alive' = FALSE
        /\ refused' = refused
    BY <1>1, <1>5 DEF AfterPack, Pack
  <2>2. TypeOK' /\ Positions' /\ BufferFits'
    <3>1. TypeOK'
      BY <1>2, <1>3, <2>1 DEF TypeOK
    <3>2. Positions'
      BY <1>2, <1>3, <2>1 DEF Positions
    <3>3. BufferFits'
      BY <2>1 DEF BufferFits
    <3> QED BY <3>1, <3>2, <3>3
  <2>3. Aligned' /\ Partial'
    BY <2>1 DEF Aligned, Partial
  <2>4. DropsOnlyForCause'
    <3>1. off = StartOf(Current) /\ Current' = Current /\ Current \in Nat
      BY <1>2, <1>3, <1>5, <2>1 DEF Aligned, Current
    <3>2. Current <= Len(frames)
      BY <1>3, <3>1 DEF StartOf
    <3> QED BY <1>2, <1>5, <2>1, <3>1, <3>2 DEF DropsOnlyForCause
  <2> QED BY <1>4, <2>2, <2>3, <2>4
<1>6. CASE parser.state # "HANDLING"
  <2>1. PICK c, r : /\ c = Current /\ r = Pack(parser, off, n, frames)
                    /\ c \in 1..Len(frames) /\ PackDone(r, n, frames[c])
    BY <1>2, <1>6, PackOutcome
  <2>2. AfterPack(r)
    BY <1>1, <2>1
  <2>3. /\ r \in Stage /\ r.off \in Nat /\ r.off <= n /\ r.p \in Parser
        /\ r.out \in {"null", "throw", "event"} /\ r.p.req_buf.last <= r.p.req_buf.total
    BY <2>1 DEF PackDone, Stage
  <2>4. c = packed + 1 /\ packed < Len(frames)
    BY <1>3, <2>1 DEF Current
  <2>5. CASE r.out = "null"
    <3>1. /\ off' = r.off /\ alive' = TRUE /\ parser' = r.p /\ packed' = packed
          /\ refused' = refused
      BY <2>2, <2>5 DEF AfterPack
    <3>2. Current' = c
      BY <2>4, <3>1 DEF Current
    <3>3. TypeOK' /\ Positions' /\ BufferFits'
      BY <1>2, <1>3, <2>3, <2>4, <3>1 DEF TypeOK, Positions, BufferFits
    <3>4. Aligned' /\ Partial'
      BY <1>2, <1>3, <2>1, <2>4, <2>5, <3>1, <3>2
         DEF PackDone, Aligned, Partial, InHead, InBody
    <3>5. DropsOnlyForCause'
      BY <3>1 DEF DropsOnlyForCause
    <3> QED BY <1>4, <3>3, <3>4, <3>5
  <2>6. CASE r.out = "throw"
    <3>1. /\ off' = r.off /\ alive' = FALSE /\ parser' = r.p /\ packed' = packed
          /\ refused' = refused
      BY <2>2, <2>6 DEF AfterPack
    <3>2. Current' = c
      BY <2>4, <3>1 DEF Current
    <3>3. TypeOK' /\ Positions' /\ BufferFits'
      BY <1>2, <1>3, <2>3, <2>4, <3>1 DEF TypeOK, Positions, BufferFits
    <3>4. Aligned' /\ Partial'
      BY <3>1 DEF Aligned, Partial
    <3>5. DropsOnlyForCause'
      BY <1>2, <2>1, <2>6, <3>1, <3>2 DEF DropsOnlyForCause, PackDone
    <3> QED BY <1>4, <3>3, <3>4, <3>5
  <2>7. CASE r.out = "event" /\ alive' = FALSE
    <3>1. /\ off' = r.off /\ alive' = FALSE /\ packed' = packed + 1 /\ parser' = r.p
          /\ refused' = TRUE
      BY <1>2, <2>2, <2>7 DEF AfterPack
    <3>2. TypeOK' /\ Positions' /\ BufferFits'
      <4>1. TypeOK'
        <5>1. frames' \in Seq(Frame) /\ written' \in Nat /\ fed' \in Nat /\ off' \in Nat
              /\ packed' \in Nat /\ parser' \in Parser
          BY <1>2, <1>3, <2>3, <3>1 DEF TypeOK
        <5>2. alive' \in BOOLEAN /\ refused' \in BOOLEAN
          BY <3>1
        <5> QED BY <5>1, <5>2, Zenon DEF TypeOK
      <4>2. Positions'
        BY <1>2, <1>3, <2>3, <2>4, <3>1 DEF Positions
      <4>3. BufferFits'
        BY <2>3, <3>1 DEF BufferFits
      <4> QED BY <4>1, <4>2, <4>3
    <3>3. Aligned' /\ Partial' /\ DropsOnlyForCause'
      BY <3>1 DEF Aligned, Partial, DropsOnlyForCause
    <3> QED BY <1>4, <3>2, <3>3
  <2>8. CASE r.out = "event" /\ alive' # FALSE
    <3>1. /\ off' = r.off /\ alive' = TRUE /\ packed' = packed + 1
          /\ parser' = [r.p EXCEPT !.state = "HANDLING"] /\ refused' = refused
      <4>1. alive = TRUE
        BY <1>2 DEF TypeOK
      <4> QED BY <2>2, <2>8, <4>1 DEF AfterPack
    <3>2. parser' \in Parser /\ parser'.state = "HANDLING" /\ parser'.req_buf = r.p.req_buf
      BY <2>3, <3>1 DEF Parser, State
    <3>3. TypeOK' /\ Positions' /\ BufferFits'
      BY <1>2, <1>3, <2>3, <2>4, <3>1, <3>2 DEF TypeOK, Positions, BufferFits
    <3>4. Current' = c + 1
      BY <1>3, <2>4, <3>1 DEF Current
    <3>5. StartOf(Current)' = StartOf(c + 1)
      BY <1>2, <3>4 DEF StartOf
    <3>6. r.off = StartOf(c + 1) /\ r.p.req_buf.buf = FALSE
      BY <2>1, <2>8 DEF PackDone, Layout, EndOfFrame
    <3>7. Aligned' /\ Partial'
      BY <3>1, <3>2, <3>5, <3>6 DEF Aligned, Partial
    <3>8. DropsOnlyForCause'
      BY <3>1 DEF DropsOnlyForCause
    <3> QED BY <1>4, <3>3, <3>7, <3>8
  <2> QED BY <2>3, <2>5, <2>6, <2>7, <2>8
<1> QED BY <1>5, <1>6

(* handle_results: the session waits for the next request. *)
LEMMA HandleResultPreserves ==
  ASSUME FramingInv, HandleResult
  PROVE  FramingInv'
<1> USE DEF FramingInv
<1>1. /\ UNCHANGED <<frames, written, fed, off, packed, alive, refused>>
      /\ parser' = [parser EXCEPT !.state = "WAITING_REQUEST"]
      /\ alive /\ parser.state = "HANDLING" /\ parser \in Parser
  BY DEF HandleResult, TypeOK
<1>2. /\ parser' \in Parser /\ parser'.state = "WAITING_REQUEST"
      /\ parser'.req_buf = parser.req_buf
  BY <1>1 DEF Parser, State
<1>3. TypeOK' /\ Positions' /\ BufferFits'
  BY <1>1, <1>2 DEF TypeOK, Positions, BufferFits
<1>4. Layout'
  BY <1>1 DEF Layout, StartOf, EndOfFrame, EndOf
<1>5. Aligned' /\ Partial'
  BY <1>1, <1>2 DEF Aligned, Partial, StartOf, Current
<1>6. DropsOnlyForCause'
  BY <1>1 DEF DropsOnlyForCause
<1> QED BY <1>3, <1>4, <1>5, <1>6

(* Every step preserves the invariant. *)
LEMMA NextFraming == FramingInv /\ [Next]_vars => FramingInv'
<1> SUFFICES ASSUME FramingInv, [Next]_vars PROVE FramingInv'
  OBVIOUS
<1>1. CASE UNCHANGED vars
  BY <1>1 DEF vars, FramingInv, TypeOK, Layout, Positions, Partial, Aligned,
     BufferFits, DropsOnlyForCause, StartOf, EndOfFrame, EndOf, Current
<1>2. CASE Next
  BY <1>2, ClientWritePreserves, ReqCallbackPreserves, HandleResultPreserves DEF Next
<1> QED BY <1>1, <1>2

(* For every header size, body sizes, types and way of cutting the stream, *)
(* the receive path (ReqCallback, Pack, handle_results) keeps its          *)
(* inductive invariant.                                                    *)
THEOREM FramingCorrect == Spec => []FramingInv
BY InitFraming, NextFraming, PTL DEF Spec

(* Type correctness of the receive path. *)
THEOREM FramingTypeOK == Spec => []TypeOK
BY FramingCorrect, PTL DEF FramingInv

(* However the stream is cut, Pack never loses its place in it. *)
THEOREM FramingAligned == Spec => []Aligned
BY FramingCorrect, PTL DEF FramingInv

(* No read goes past the end of the buffer it fills. *)
THEOREM FramingBufferFits == Spec => []BufferFits
BY FramingCorrect, PTL DEF FramingInv

(* A session is dropped because the queue was full, or for the frame Pack  *)
(* came to: a bad one, or one the client did not wait with.                *)
THEOREM FramingDropsOnlyForCause == Spec => []DropsOnlyForCause
BY FramingCorrect, PTL DEF FramingInv

=============================================================================
