--------------------------- MODULE NetGateProofs ---------------------------
(***************************************************************************)
(* Proofs about the request pipeline of NetGate, for any connections,      *)
(* addresses, threads, queue size and message sizes, and any client        *)
(* behaviour the model has.                                                *)
(*                                                                         *)
(* None of the gate's properties is inductive by itself.  That a deleted   *)
(* Session is used only after an abandoned request rests on what the       *)
(* answers say of the requests (Answers), which rests on Pack refusing a   *)
(* Session that is HANDLING (OneRequestInFlight) and on Pack's place in    *)
(* the stream (Stream, Parsing): GateInv is their conjunction.             *)
(***************************************************************************)
EXTENDS NetGate, MsgProxyProofs, FiniteSetTheorems, SequenceTheorems

(* Requests are of one length: request k + 1 begins at byte At(k). *)
At(k) == k * (HeaderSize + BodySize)

Unborn(c) == client[c] \in {"new", "connecting"}

(* A connection that was not accepted has no trace in the server; an active *)
(* event belongs to a connection in the state that made it active; the      *)
(* loop has results in hand only in handle_results.                         *)
Bookkeeping ==
  /\ \A c \in Conns : Unborn(c) =>
       /\ ctx[c] = Null /\ frames[c] = <<>> /\ replies[c] = <<>>
       /\ output[c] = <<>> /\ packed[c] = 0
       /\ written[c] = 0 /\ fed[c] = 0 /\ off[c] = 0
  /\ \A c \in Conns :
       /\ <<"accept", c>> \in ready => client[c] = "connecting"
       /\ <<"read", c>> \in ready \/ <<"write", c>> \in ready => ctx[c] # Null
  /\ pc = "pushed" => cur \in Addrs
  /\ pc # "results" => batch = <<>>
  /\ \A w \in Workers : handled[w] => worker[w] # Null

(* The stream of c: requests end to end, packed, taken, read and written    *)
(* up to places that follow each other.                                     *)
StreamOf(c) ==
  /\ \A i \in 1..Len(frames[c]) :
       /\ frames[c][i].start = At(i - 1) /\ frames[c][i].size = BodySize
       /\ frames[c][i].type = "kPhoneReq"
  /\ Len(frames[c]) <= MaxRequests
  /\ written[c] <= At(Len(frames[c]))
  /\ client[c] = "open" => written[c] = At(Len(frames[c]))
  /\ At(packed[c]) <= off[c] /\ off[c] <= fed[c] /\ fed[c] <= written[c]

Stream == \A c \in Conns : StreamOf(c)

(* c's request is in the pool, and set_state is still to come. *)
JustPushed(c) == pc = "pushed" /\ cur = ctx[c]

(* Pack is between two requests of c, or inside the next one.  A response   *)
(* written through a stale pointer may have set the Session back to         *)
(* WAITING_REQUEST in the middle of a request: then it is Misled, but still *)
(* does not pass the end of that request.                                   *)
ParsingOf(c) ==
  LET p == heap[ctx[c]].parser IN
  ctx[c] # Null =>
    /\ p.req_buf.last <= p.req_buf.total
    /\ \/ /\ p.req_buf.buf = FALSE /\ off[c] = At(packed[c])
          /\ JustPushed(c) \/ p.state \in {"WAITING_REQUEST", "HANDLING"}
       \/ /\ packed[c] < Len(frames[c]) /\ ~JustPushed(c)
          /\ \/ AtFrame(p, off[c], frames[c][packed[c] + 1])
             \/ fault /\ Misled(p, off[c], frames[c][packed[c] + 1])

Parsing == \A c \in Conns : ParsingOf(c)

(* An event is about a request that was packed, and no two are about the    *)
(* same one.                                                                *)
Travelling ==
  /\ \A p \in Places : LET e == EventAt(p) IN
       ~Unborn(e.conn) /\ 1 <= e.n /\ e.n <= packed[e.conn]
  /\ \A p, r \in Places :
       EventAt(p).conn = EventAt(r).conn /\ EventAt(p).n = EventAt(r).n => p = r

Busy(c) == heap[ctx[c]].parser.state = "HANDLING" \/ JustPushed(c)

(* The responses to c, with the one being made if c is busy, are those to   *)
(* its packed requests, in order; a connection with an event in the pool    *)
(* has a packed request that is not answered.                               *)
AnswersOf(c) ==
  /\ Len(replies[c]) + Len(output[c]) <= packed[c]
  /\ \A p \in Places : EventAt(p).conn = c =>
       Len(replies[c]) + Len(output[c]) < packed[c]
  /\ ctx[c] # Null /\ client[c] \notin {"eof", "reset"} =>
       /\ \A i \in 1..Len(output[c]) :
            output[c][i] = [conn |-> c, n |-> Len(replies[c]) + i]
       /\ Busy(c) => packed[c] = Len(replies[c]) + Len(output[c]) + 1
       /\ ~Busy(c) => packed[c] = Len(replies[c]) + Len(output[c])
       /\ \A p \in Places : EventAt(p).conn = c => EventAt(p).n = packed[c]

Answers == ~fault => \A c \in Conns : AnswersOf(c)

Abandoned == \E c \in Conns : Outstanding(c) /\ Closed(c)

(* ReqCallback is about to use a Session that it deleted because the queue  *)
(* was full: the request it had just packed is abandoned.                   *)
DroppedInPush == pc = "pushed" /\ ~Live(cur) => Abandoned

GateInv ==
  /\ TypeOK /\ Bookkeeping /\ Stream /\ CallbackOnLiveSession /\ Parsing
  /\ Travelling /\ StaleOnlyAfterClose
  /\ OneRequestInFlight /\ Answers /\ RepliesMatchRequests
  /\ DroppedInPush /\ FaultNeedsAbandonedRequest

(* What clients keep to that write one request at a time and leave between  *)
(* requests: the server never closes a connection on them.                  *)
CalmInv ==
  \A c \in Conns :
    /\ client[c] \in {"open", "stalled"} => ctx[c] # Null
    /\ client[c] \in {"eof", "reset"} => ~Outstanding(c)
    /\ Len(frames[c]) <= Len(replies[c]) + 1
    /\ \A i \in 1..Len(frames[c]) : frames[c][i].magic = TRUE

-----------------------------------------------------------------------------
(* Requests of one length lie at multiples of it. *)
LEMMA AtFacts ==
  /\ At(0) = 0
  /\ \A k \in Nat : At(k) \in Nat /\ At(k + 1) = At(k) + HeaderSize + BodySize
  /\ \A j, k \in Nat : j < k => At(j) + HeaderSize + BodySize <= At(k)
<1>1. HeaderSize \in Nat /\ BodySize \in Nat
  BY HeaderSizeAssumption, NetGateAssumption
<1>2. PICK l \in Nat : l = HeaderSize + BodySize
  BY <1>1
<1>3. \A k \in Nat : k * l \in Nat /\ (k + 1) * l = k * l + l
  BY SMT
<1>4. ASSUME NEW j \in Nat, NEW k \in Nat, j < k
      PROVE  j * l + l <= k * l
  <2>1. PICK d \in Nat : k = (j + 1) + d
    <3>1. k - (j + 1) \in Nat /\ k = (j + 1) + (k - (j + 1))
      BY <1>4
    <3> QED BY <3>1
  <2>2. k * l = (j + 1) * l + d * l
    BY <2>1
  <2>3. d * l \in Nat /\ (j + 1) * l = j * l + l /\ j * l \in Nat
    BY <1>3
  <2> QED BY <2>2, <2>3
<1>5. 0 * l = 0
  BY <1>2
<1> QED BY <1>1, <1>2, <1>3, <1>4, <1>5 DEF At

(* Requests keep their order, and no request begins where a body does. *)
LEMMA AtOrder ==
  ASSUME NEW j \in Nat, NEW k \in Nat
  PROVE  /\ At(j) < At(k) => j < k
         /\ At(j) <= At(k) => j <= k
         /\ At(j) = At(k) => j = k
         /\ j <= k => At(j) <= At(k)
         /\ At(j) # At(k) + HeaderSize
<1>1. HeaderSize \in Nat \ {0} /\ BodySize \in Nat \ {0}
  BY HeaderSizeAssumption, NetGateAssumption
<1>2. At(j) \in Nat /\ At(k) \in Nat
  BY AtFacts
<1>3. j < k => At(j) + HeaderSize + BodySize <= At(k)
  BY AtFacts
<1>4. k < j => At(k) + HeaderSize + BodySize <= At(j)
  BY AtFacts
<1>5. j < k \/ k < j \/ j = k
  OBVIOUS
<1> QED BY <1>1, <1>2, <1>3, <1>4, <1>5

(* Every assignment to a part of a Session leaves the rest of it alone. *)
LEMMA HeapUpdate ==
  ASSUME NEW h \in [Addrs -> SessionType], NEW a \in Addrs,
         NEW p \in Parser, NEW s \in State, NEW d \in Conns, NEW k \in 0..255
  PROVE  /\ [h EXCEPT ![a].parser = p] = [h EXCEPT ![a] = [@ EXCEPT !.parser = p]]
         /\ [h[a] EXCEPT !.parser = p] \in SessionType
         /\ [h[a] EXCEPT !.parser.state = s] \in SessionType
         /\ [h[a] EXCEPT !.parser.state = s].parser = [h[a].parser EXCEPT !.state = s]
         /\ [h[a].parser EXCEPT !.state = s] \in Parser
         /\ [h[a] EXCEPT !.data = d] \in SessionType
         /\ [h[a] EXCEPT !.count = k] \in SessionType
<1>1. h[a] \in SessionType /\ h[a].parser \in Parser
  BY DEF SessionType
<1>2. [h[a].parser EXCEPT !.state = s] \in Parser
  BY <1>1 DEF Parser
<1> QED BY <1>1, <1>2 DEF SessionType

-----------------------------------------------------------------------------
(* A callback's context is an address, and holds the connection's Session. *)
LEMMA CtxLive ==
  ASSUME TypeOK, CallbackOnLiveSession, NEW c \in Conns, ctx[c] # Null
  PROVE  /\ ctx[c] \in Addrs /\ heap[ctx[c]].conn = c /\ Live(ctx[c])
         /\ heap[ctx[c]] \in SessionType /\ heap[ctx[c]].parser \in Parser
<1>1. ctx[c] \in Addrs /\ heap[ctx[c]].conn = c
  BY DEF TypeOK, CallbackOnLiveSession
<1>2. heap[ctx[c]] \in SessionType
  BY <1>1 DEF TypeOK
<1> QED BY <1>1, <1>2, NetGateAssumption DEF SessionType, Live

(* A header is found at its frame's first byte, and none inside a frame. *)
LEMMA HeadersApart ==
  ASSUME TypeOK, Stream, NEW c \in Conns, NEW k \in Nat, k < Len(frames[c])
  PROVE  /\ frames[c][k + 1] \in Frame /\ k + 1 \in 1..Len(frames[c])
         /\ frames[c][k + 1].start = At(k) /\ frames[c][k + 1].size = BodySize
         /\ frames[c][k + 1].type = "kPhoneReq"
         /\ HeaderAt(frames[c], At(k)) = {k + 1}
         /\ HeaderAt(frames[c], At(k) + HeaderSize) = {}
<1>1. frames[c] \in Seq(Frame) /\ Len(frames[c]) \in Nat
  BY DEF TypeOK
<1>2. k + 1 \in 1..Len(frames[c]) /\ (k + 1) - 1 = k
  BY <1>1
<1>3. /\ frames[c][k + 1].start = At(k) /\ frames[c][k + 1].size = BodySize
      /\ frames[c][k + 1].type = "kPhoneReq"
  BY <1>2 DEF Stream, StreamOf
<1>4. ASSUME NEW i \in 1..Len(frames[c])
      PROVE  /\ frames[c][i].start = At(k) => i = k + 1
             /\ frames[c][i].start # At(k) + HeaderSize
  <2>1. i - 1 \in Nat /\ frames[c][i].start = At(i - 1)
    BY <1>1 DEF Stream, StreamOf
  <2>2. At(i - 1) = At(k) => i - 1 = k
    BY <2>1, AtOrder
  <2>3. At(i - 1) # At(k) + HeaderSize
    BY <2>1, AtOrder
  <2> QED BY <2>1, <2>2, <2>3
<1> QED BY <1>1, <1>2, <1>3, <1>4 DEF HeaderAt

(* What Pack makes of the bytes up to n of connection c. *)
Outcome(c, n, q) ==
  /\ q \in Stage /\ off[c] < n /\ packed[c] < Len(frames[c])
  /\ At(packed[c]) <= q.off /\ q.off <= n
  /\ q.p.req_buf.last <= q.p.req_buf.total
  /\ heap[ctx[c]].parser.state = "HANDLING" => q.out = "throw"
  /\ q.out = "null" =>
       /\ q.p.state \in {"PARSING_HEAD", "PARSING_BODY"}
       /\ \/ AtFrame(q.p, q.off, frames[c][packed[c] + 1])
          \/ fault /\ Misled(q.p, q.off, frames[c][packed[c] + 1])
  /\ q.out = "event" => q.off = At(packed[c] + 1) /\ q.p.req_buf.buf = FALSE
  /\ q.out = "throw" /\ ~fault =>
       \/ heap[ctx[c]].parser.state = "HANDLING"
       \/ frames[c][packed[c] + 1].magic = FALSE

(* Pack, called by ReqCallback, stays inside the next request or ends it. *)
LEMMA ReadOutcome ==
  ASSUME GateInv, pc = "callbacks", NEW c \in Conns, ctx[c] # Null,
         NEW n \in (fed[c] + 1)..written[c]
  PROVE  Outcome(c, n, Pack(heap[ctx[c]].parser, off[c], n, frames[c]))
<1> DEFINE p == heap[ctx[c]].parser
           o == off[c]
           k == packed[c]
           f == frames[c][k + 1]
           q == Pack(p, o, n, frames[c])
<1> SUFFICES Outcome(c, n, q)
  OBVIOUS
<1>1. p \in Parser /\ p.state \in State
  BY CtxLive DEF GateInv, Parser
<1>2. /\ o \in Nat /\ k \in Nat /\ n \in Nat /\ o < n /\ n <= written[c]
      /\ written[c] <= At(Len(frames[c])) /\ At(k) <= o /\ Len(frames[c]) \in Nat
  BY DEF GateInv, TypeOK, Stream, StreamOf
<1>3. k < Len(frames[c])
  <2>1. At(k) \in Nat /\ At(Len(frames[c])) \in Nat /\ written[c] \in Nat
    BY <1>2, AtFacts DEF GateInv, TypeOK
  <2> HIDE DEF k, o
  <2>2. At(k) < At(Len(frames[c]))
    BY <1>2, <2>1
  <2> QED BY <1>2, <2>2, AtOrder
<1>4. /\ f \in Frame /\ f.start = At(k) /\ f.size = BodySize /\ f.type = "kPhoneReq"
      /\ HeaderAt(frames[c], f.start) = {k + 1}
      /\ HeaderAt(frames[c], f.start + HeaderSize) = {}
  BY <1>2, <1>3, HeadersApart DEF GateInv
<1>5. EndOf(f) = At(k + 1)
  BY <1>2, <1>4, AtFacts, HeaderSizeAssumption, NetGateAssumption DEF EndOf
<1>6. /\ p.req_buf.last <= p.req_buf.total
      /\ \/ /\ p.req_buf.buf = FALSE /\ o = At(k)
            /\ p.state \in {"WAITING_REQUEST", "HANDLING"}
         \/ AtFrame(p, o, f)
         \/ fault /\ Misled(p, o, f)
  BY DEF GateInv, Parsing, ParsingOf, JustPushed
<1>7. f.type \in RequestTypes
  BY <1>4 DEF RequestTypes
<1> HIDE DEF p, o, k, f
<1>8. CASE p.state = "HANDLING"
  <2>1. q = [p |-> p, off |-> o, out |-> "throw"]
    BY <1>8 DEF Pack
  <2>2. q \in Stage /\ q.p = p /\ q.off = o /\ q.out = "throw"
    BY <1>1, <1>2, <2>1 DEF Stage
  <2> HIDE DEF q
  <2>3. q.off <= n
    BY <1>2, <2>2
  <2>4. Outcome(c, n, q)
    BY <1>2, <1>3, <1>6, <1>8, <2>2, <2>3 DEF Outcome, p, o, k
  <2> QED BY <2>4
<1>9. CASE AtFrame(p, o, f)
  <2>2. o <= n
    BY <1>2
  <2>3. PackDone(q, n, f)
    BY <1>1, <1>2, <1>4, <1>9, <2>2, PackResult DEF f
  <2>4. p.state # "HANDLING"
    BY <1>9 DEF AtFrame, InHead, InBody
  <2> HIDE DEF q
  <2>5. q.out = "null" => AtFrame(q.p, q.off, f)
    BY <2>3 DEF PackDone, AtFrame
  <2>6. Outcome(c, n, q)
    BY <1>2, <1>3, <1>4, <1>5, <1>7, <2>3, <2>4, <2>5
       DEF Outcome, PackDone, p, o, k, f
  <2> QED BY <2>6
<1>10. CASE fault /\ Misled(p, o, f)
  <2>1. o <= n
    BY <1>2
  <2>2. MisledDone(q, n, f)
    BY <1>1, <1>2, <1>4, <1>10, <2>1, PackOfMisled DEF f
  <2>3. p.state # "HANDLING"
    BY <1>10 DEF Misled
  <2> HIDE DEF q
  <2>4. Outcome(c, n, q)
    BY <1>2, <1>3, <1>4, <1>5, <1>10, <2>2, <2>3 DEF Outcome, MisledDone, p, o, k, f
  <2> QED BY <2>4
<1>11. p.state = "HANDLING" \/ AtFrame(p, o, f) \/ (fault /\ Misled(p, o, f))
  <2>1. p.state = "WAITING_REQUEST" /\ p.req_buf.buf = FALSE /\ o = At(k) => AtFrame(p, o, f)
    BY <1>4 DEF AtFrame
  <2> QED BY <1>6, <2>1
<1> QED BY <1>8, <1>9, <1>10, <1>11

-----------------------------------------------------------------------------
(* Where the events are.  Apart from Push, a step moves events from place  *)
(* to place, or uses one up: g tells where the event at p was before.      *)
Carries(g) ==
  /\ \A p \in Places' : g[p] \in Places /\ EventAt(p)' = EventAt(g[p])
  /\ \A p, r \in Places' : g[p] = g[r] => p = r

(* What is at a place is an event. *)
LEMMA PlaceTypes ==
  ASSUME TypeOK, NEW p \in Places
  PROVE  /\ EventAt(p) \in Event /\ EventAt(p).addr \in Addrs
         /\ EventAt(p).conn \in Conns /\ EventAt(p).n \in Nat
<1>1. EventAt(p) \in Event
  <2>1. CASE p \in {<<"waiting", i>> : i \in 1..Len(waiting)}
    BY <2>1 DEF TypeOK, EventAt
  <2>2. CASE p \in {<<"worker", w>> : w \in {v \in Workers : worker[v] # Null}}
    BY <2>2 DEF TypeOK, EventAt
  <2>3. CASE p \in {<<"results", i>> : i \in 1..Len(results)}
    BY <2>3 DEF TypeOK, EventAt
  <2>4. CASE p \in {<<"batch", i>> : i \in 1..Len(batch)}
    BY <2>4 DEF TypeOK, EventAt
  <2> QED BY <2>1, <2>2, <2>3, <2>4 DEF Places
<1> QED BY <1>1 DEF Event

(* A step that leaves the queues alone leaves every event where it is. *)
LEMMA SamePlaces ==
  ASSUME UNCHANGED <<waiting, worker, results, batch>>
  PROVE  \E g : Carries(g)
<1>1. Places' = Places /\ \A p : EventAt(p)' = EventAt(p)
  BY DEF Places, EventAt
<1> WITNESS [p \in Places' |-> p]
<1> QED BY <1>1 DEF Carries

(* What every step respects: a connection is opened once and closed once,  *)
(* a Session stays its connection's, requests are not unwritten, and an     *)
(* answer does not reach a closed connection.                               *)
Regular ==
  /\ \A c \in Conns :
       /\ Unborn(c)' => Unborn(c)
       /\ packed[c] <= packed'[c]
       /\ ctx[c] = Null /\ ~Unborn(c) => ctx'[c] = Null /\ replies'[c] = replies[c]
       /\ Len(frames[c]) <= Len(frames'[c])
  /\ \A a \in Addrs, c \in Conns :
       /\ heap[a].conn = c => heap'[a].conn = c \/ ctx'[c] = Null
       /\ heap'[a].conn = c => heap[a].conn = c \/ Unborn(c)

(* A regular step keeps what is said of the events in the pool. *)
LEMMA RegularKeeps ==
  ASSUME TypeOK, Travelling, StaleOnlyAfterClose, TypeOK', Regular,
         NEW g, Carries(g)
  PROVE  Travelling' /\ StaleOnlyAfterClose'
<1>1. ASSUME NEW p \in Places'
      PROVE  /\ client'[EventAt(p)'.conn] \notin {"new", "connecting"}
             /\ 1 <= EventAt(p)'.n
             /\ EventAt(p)'.n <= packed'[EventAt(p)'.conn]
             /\ \/ heap'[EventAt(p)'.addr].conn = EventAt(p)'.conn
                \/ ctx'[EventAt(p)'.conn] = Null
  <2>1. PICK e : /\ e = EventAt(g[p]) /\ e = EventAt(p)'
                 /\ g[p] \in Places
    BY <1>1 DEF Carries
  <2>2. e.addr \in Addrs /\ e.conn \in Conns /\ e.n \in Nat
    BY <2>1, PlaceTypes
  <2>3. /\ ~Unborn(e.conn) /\ 1 <= e.n /\ e.n <= packed[e.conn]
        /\ heap[e.addr].conn = e.conn \/ ctx[e.conn] = Null
    BY <2>1 DEF Travelling, StaleOnlyAfterClose
  <2>4. ~Unborn(e.conn)'
    BY <2>2, <2>3 DEF Regular
  <2>5. packed[e.conn] <= packed'[e.conn] /\ packed[e.conn] \in Nat /\ packed'[e.conn] \in Nat
    BY <2>2 DEF Regular, TypeOK
  <2>6. heap'[e.addr].conn = e.conn \/ ctx'[e.conn] = Null
    BY <2>2, <2>3 DEF Regular
  <2>7. e.n <= packed'[e.conn]
    BY <2>2, <2>3, <2>5
  <2> QED BY <2>1, <2>3, <2>4, <2>6, <2>7 DEF Unborn
<1>2. ASSUME NEW p \in Places', NEW r \in Places',
             EventAt(p)'.conn = EventAt(r)'.conn, EventAt(p)'.n = EventAt(r)'.n
      PROVE  p = r
  BY <1>2 DEF Carries, Travelling
<1> QED BY <1>1, <1>2 DEF Travelling, StaleOnlyAfterClose, Unborn

(* A request that was abandoned stays abandoned: nothing reopens c. *)
LEMMA AbandonedStays ==
  ASSUME TypeOK, TypeOK', Regular, Abandoned
  PROVE  Abandoned'
<1>1. PICK c \in Conns : Outstanding(c) /\ Closed(c)
  BY DEF Abandoned
<1>2. ctx[c] = Null /\ ~Unborn(c)
  BY <1>1 DEF Closed, Unborn
<1>3. ctx'[c] = Null /\ replies'[c] = replies[c] /\ ~Unborn(c)'
      /\ Len(frames[c]) <= Len(frames'[c])
  BY <1>2 DEF Regular
<1>4. /\ Len(frames[c]) \in Nat /\ Len(frames'[c]) \in Nat /\ Len(replies[c]) \in Nat
  <2>1. frames[c] \in Seq(Frame) /\ frames'[c] \in Seq(Frame) /\ replies[c] \in Seq(Reply)
    BY DEF TypeOK
  <2> QED BY <2>1
<1>5. Outstanding(c)' /\ Closed(c)'
  BY <1>1, <1>3, <1>4 DEF Outstanding, Closed, Unborn
<1> QED BY <1>5 DEF Abandoned

(* What one event shows of its Session, and that a step keeps showing it. *)
Claimed(e) ==
  heap[e.addr].parser.state = "HANDLING" \/ (pc = "pushed" /\ cur = e.addr)

(* A step that keeps the claims of the events keeps one of each c. *)
LEMMA InFlightKept ==
  ASSUME TypeOK, Travelling, OneRequestInFlight, Regular, fault => fault',
         NEW g, Carries(g),
         ~fault' => \A p \in Places', e \in Event :
           /\ e = EventAt(p)' /\ Claimed(e)
           /\ heap[e.addr].conn = e.conn /\ heap'[e.addr].conn = e.conn
           => Claimed(e)'
  PROVE  OneRequestInFlight'
<1> SUFFICES ASSUME ~fault' PROVE OneRequestInFlight'
  BY DEF OneRequestInFlight
<1>1. /\ \A p, r \in Places : EventAt(p).conn = EventAt(r).conn => p = r
      /\ \A p \in Places : heap[EventAt(p).addr].conn = EventAt(p).conn => Claimed(EventAt(p))
  BY DEF OneRequestInFlight, Claimed
<1>2. \A p, r \in Places' : EventAt(p)'.conn = EventAt(r)'.conn => p = r
  BY <1>1 DEF Carries
<1>3. ASSUME NEW p \in Places', heap'[EventAt(p)'.addr].conn = EventAt(p)'.conn
      PROVE  \/ heap'[EventAt(p)'.addr].parser.state = "HANDLING"
             \/ (pc' = "pushed" /\ cur' = EventAt(p)'.addr)
  <2>1. PICK e : e = EventAt(g[p]) /\ e = EventAt(p)' /\ g[p] \in Places
    BY DEF Carries
  <2>2. e \in Event /\ e.addr \in Addrs /\ e.conn \in Conns /\ ~Unborn(e.conn)
    BY <2>1, PlaceTypes DEF Travelling
  <2>3. heap[e.addr].conn = e.conn
    BY <1>3, <2>1, <2>2 DEF Regular
  <2>4. Claimed(e)
    BY <1>1, <2>1, <2>3 DEF Claimed
  <2>5. Claimed(e)'
    BY <1>3, <2>1, <2>2, <2>3, <2>4
  <2> QED BY <2>1, <2>5 DEF Claimed
<1> QED BY <1>2, <1>3 DEF OneRequestInFlight

-----------------------------------------------------------------------------
(* A step that does not touch a connection keeps what is said of it. *)
SameStream(c) ==
  /\ frames'[c] = frames[c] /\ written'[c] = written[c] /\ packed'[c] = packed[c]
  /\ off'[c] = off[c] /\ fed'[c] = fed[c]
  /\ client'[c] = "open" => client[c] = "open"

(* What is said of a stream holds while the stream does not change. *)
LEMMA StreamKept ==
  ASSUME NEW c, StreamOf(c), SameStream(c)
  PROVE  StreamOf(c)'
BY DEF StreamOf, SameStream

SameParser(c) ==
  ctx'[c] # Null =>
    /\ ctx'[c] = ctx[c] /\ heap'[ctx[c]].parser = heap[ctx[c]].parser
    /\ frames'[c] = frames[c] /\ packed'[c] = packed[c] /\ off'[c] = off[c]
    /\ JustPushed(c)' <=> JustPushed(c)

(* What is said of a parser holds while it and its input do not change. *)
LEMMA ParsingKept ==
  ASSUME NEW c, ParsingOf(c), SameParser(c), fault => fault'
  PROVE  ParsingOf(c)'
BY DEF ParsingOf, SameParser

SameAnswers(c) ==
  /\ replies'[c] = replies[c] /\ packed'[c] = packed[c]
  /\ output'[c] \in {output[c], <<>>}
  /\ ctx'[c] # Null /\ client'[c] \notin {"eof", "reset"} =>
       /\ ctx'[c] = ctx[c] /\ client[c] \notin {"eof", "reset"}
       /\ output'[c] = output[c]
       /\ Busy(c)' <=> Busy(c)

(* c has no new event. *)
OldEventsOf(c) ==
  \A p \in Places' : EventAt(p)'.conn = c => \E r \in Places : EventAt(r) = EventAt(p)'

(* What is said of the answers to c holds while c gets no new event. *)
LEMMA AnswersKeptOf ==
  ASSUME TypeOK, NEW c \in Conns, AnswersOf(c), SameAnswers(c), OldEventsOf(c)
  PROVE  AnswersOf(c)'
<1>1. /\ Len(replies[c]) \in Nat /\ Len(output[c]) \in Nat /\ packed[c] \in Nat
  BY DEF TypeOK
<1>2. PICK k \in Nat : /\ k = Len(output'[c]) /\ k <= Len(output[c])
                      /\ Len(replies'[c]) = Len(replies[c]) /\ packed'[c] = packed[c]
  <2>1. Len(<<>>) = 0
    OBVIOUS
  <2> QED BY <1>1, <2>1 DEF SameAnswers
<1>3. Len(replies'[c]) + Len(output'[c]) <= packed'[c]
  <2>1. Len(replies[c]) + Len(output[c]) <= packed[c]
    BY DEF AnswersOf
  <2>2. \A r, l, m \in Nat : k <= l /\ r + l <= m => r + k <= m
    OBVIOUS
  <2>3. Len(replies[c]) + k <= packed[c]
    BY <1>1, <1>2, <2>1, <2>2
  <2> QED BY <1>2, <2>3
<1>4. ASSUME NEW p \in Places', EventAt(p)'.conn = c
      PROVE  Len(replies'[c]) + Len(output'[c]) < packed'[c]
  <2>1. \E r \in Places : EventAt(r).conn = c
    BY <1>4 DEF OldEventsOf
  <2>2. Len(replies[c]) + Len(output[c]) < packed[c]
    BY <2>1 DEF AnswersOf
  <2>3. \A r, l, m \in Nat : k <= l /\ r + l < m => r + k < m
    OBVIOUS
  <2>4. Len(replies[c]) + k < packed[c]
    BY <1>1, <1>2, <2>2, <2>3
  <2> QED BY <1>2, <2>4
<1>5. ASSUME ctx'[c] # Null, client'[c] \notin {"eof", "reset"}
      PROVE  /\ \A i \in 1..Len(output'[c]) :
                  output'[c][i] = [conn |-> c, n |-> Len(replies'[c]) + i]
             /\ Busy(c)' => packed'[c] = Len(replies'[c]) + Len(output'[c]) + 1
             /\ ~Busy(c)' => packed'[c] = Len(replies'[c]) + Len(output'[c])
             /\ \A p \in Places' : EventAt(p)'.conn = c => EventAt(p)'.n = packed'[c]
  <2>1. /\ ctx[c] # Null /\ client[c] \notin {"eof", "reset"}
        /\ output'[c] = output[c] /\ replies'[c] = replies[c] /\ packed'[c] = packed[c]
        /\ Busy(c)' <=> Busy(c)
    BY <1>5 DEF SameAnswers
  <2>2. /\ \A i \in 1..Len(output[c]) :
             output[c][i] = [conn |-> c, n |-> Len(replies[c]) + i]
        /\ Busy(c) => packed[c] = Len(replies[c]) + Len(output[c]) + 1
        /\ ~Busy(c) => packed[c] = Len(replies[c]) + Len(output[c])
        /\ \A p \in Places : EventAt(p).conn = c => EventAt(p).n = packed[c]
    BY <2>1 DEF AnswersOf
  <2>3. \A p \in Places' : EventAt(p)'.conn = c => EventAt(p)'.n = packed'[c]
    BY <2>1, <2>2 DEF OldEventsOf
  <2> QED BY <2>1, <2>2, <2>3
<1> QED BY <1>3, <1>4, <1>5 DEF AnswersOf

(* The same for a step that only moves events. *)
LEMMA AnswersKept ==
  ASSUME TypeOK, NEW c \in Conns, AnswersOf(c), SameAnswers(c), NEW g, Carries(g)
  PROVE  AnswersOf(c)'
<1>1. OldEventsOf(c)
  BY DEF Carries, OldEventsOf
<1> QED BY <1>1, AnswersKeptOf

-----------------------------------------------------------------------------
(* Steps that leave the Sessions, the streams and the answers alone: a     *)
(* client connects or closes, the loop polls, drags or sleeps, a worker    *)
(* takes or publishes.                                                     *)
LEMMA StillStep ==
  ASSUME GateInv, TypeOK', Bookkeeping', NEW g, Carries(g),
         UNCHANGED <<heap, ctx, frames, written, replies, packed, off, fed,
                     output, fault, cur>>,
         pc' = "pushed" <=> pc = "pushed",
         \A c \in Conns :
           /\ Unborn(c)' => Unborn(c)
           /\ client'[c] = "open" => client[c] = "open"
           /\ client[c] \in {"eof", "reset"} => client'[c] \in {"eof", "reset"}
  PROVE  GateInv'
<1>1. Regular
  <2>1. \A c \in Conns : packed[c] \in Nat /\ Len(frames[c]) \in Nat
    BY DEF GateInv, TypeOK
  <2> QED BY <2>1 DEF Regular
<1>2. Travelling' /\ StaleOnlyAfterClose'
  BY <1>1, RegularKeeps DEF GateInv
<1>3. OneRequestInFlight'
  <2>1. \A e \in Event : Claimed(e) => Claimed(e)'
    BY DEF Claimed
  <2> QED BY <1>1, <2>1, InFlightKept DEF GateInv
<1>4. Stream'
  BY StreamKept DEF GateInv, Stream, SameStream
<1>5. \A c : JustPushed(c)' <=> JustPushed(c)
  BY DEF JustPushed
<1>6. Parsing'
  BY <1>5, ParsingKept DEF GateInv, Parsing, SameParser
<1>7. Answers'
  <2>1. \A c \in Conns : SameAnswers(c)
    BY <1>5 DEF SameAnswers, Busy
  <2> QED BY <2>1, AnswersKept DEF GateInv, Answers
<1>8. CallbackOnLiveSession'
  BY DEF GateInv, CallbackOnLiveSession, Live
<1>9. RepliesMatchRequests'
  BY DEF GateInv, RepliesMatchRequests
<1>10. DroppedInPush' /\ FaultNeedsAbandonedRequest'
  <2>1. Abandoned => Abandoned'
    BY <1>1, AbandonedStays DEF GateInv
  <2> QED BY <2>1 DEF GateInv, DroppedInPush, FaultNeedsAbandonedRequest, Abandoned, Live
<1> QED BY <1>2, <1>3, <1>4, <1>6, <1>7, <1>8, <1>9, <1>10 DEF GateInv

(* A client connects. *)
LEMMA ClientConnectPreserves ==
  ASSUME GateInv, NEW c \in Conns, ClientConnect(c)
  PROVE  GateInv'
<1>1. TypeOK'
  BY DEF GateInv, TypeOK, ClientConnect, ClientState, bevVars, loopVars, poolVars
<1>2. Bookkeeping'
  BY DEF GateInv, TypeOK, Bookkeeping, Unborn, ClientConnect, bevVars, loopVars, poolVars
<1>3. PICK g : Carries(g)
  BY SamePlaces DEF ClientConnect, loopVars, poolVars
<1> QED BY <1>1, <1>2, <1>3, StillStep
   DEF GateInv, TypeOK, Unborn, ClientConnect, bevVars, loopVars, poolVars

(* A client closes its end: the server does not know yet. *)
LEMMA ClientClosePreserves ==
  ASSUME GateInv, NEW c \in Conns, NEW how \in {"eof", "reset"}, ClientClose(c, how)
  PROVE  GateInv'
<1>1. TypeOK'
  BY DEF GateInv, TypeOK, ClientClose, ClientState, bevVars, loopVars, poolVars
<1>2. Bookkeeping'
  BY DEF GateInv, TypeOK, Bookkeeping, Unborn, ClientClose, bevVars, loopVars, poolVars
<1>3. PICK g : Carries(g)
  BY SamePlaces DEF ClientClose, loopVars, poolVars
<1> QED BY <1>1, <1>2, <1>3, StillStep
   DEF GateInv, TypeOK, Unborn, ClientClose, bevVars, loopVars, poolVars

(* Poll: the active events are those of connections in the right state. *)
LEMMA PollPreserves ==
  ASSUME GateInv, Poll
  PROVE  GateInv'
<1>1. TypeOK'
  BY DEF GateInv, TypeOK, Poll, netVars, bevVars, poolVars
<1>2. Bookkeeping'
  <2>1. ASSUME NEW c \in Conns
        PROVE  /\ <<"accept", c>> \in ready' => client'[c] = "connecting"
               /\ <<"read", c>> \in ready' \/ <<"write", c>> \in ready' => ctx'[c] # Null
    BY DEF Poll, Accepting, Readable, Writable, netVars, bevVars
  <2> QED BY <2>1 DEF GateInv, Bookkeeping, Unborn, Poll, netVars, bevVars, poolVars
<1>3. PICK g : Carries(g)
  BY SamePlaces DEF Poll, poolVars
<1> QED BY <1>1, <1>2, <1>3, StillStep DEF Unborn, Poll, netVars, bevVars, poolVars

(* The loop sleeps: nothing but its place changes. *)
LEMMA SleepPreserves ==
  ASSUME GateInv, Sleep
  PROVE  GateInv'
<1>1. TypeOK'
  BY DEF GateInv, TypeOK, Sleep, netVars, bevVars, poolVars
<1>2. Bookkeeping'
  BY DEF GateInv, Bookkeeping, Unborn, Sleep, netVars, bevVars, poolVars
<1>3. PICK g : Carries(g)
  BY SamePlaces DEF Sleep, poolVars
<1> QED BY <1>1, <1>2, <1>3, StillStep DEF Unborn, Sleep, netVars, bevVars, poolVars

(* Drag: what was in results_queue_ is in the batch. *)
LEMMA DragPreserves ==
  ASSUME GateInv, Drag
  PROVE  GateInv'
<1>1. TypeOK'
  BY DEF GateInv, TypeOK, Drag, netVars, bevVars
<1>2. Bookkeeping'
  BY DEF GateInv, Bookkeeping, Unborn, Drag, netVars, bevVars
<1>3. PICK g : Carries(g)
  <2> DEFINE g == [p \in Places' |-> IF p[1] = "batch" THEN <<"results", p[2]>> ELSE p]
  <2>1. /\ batch = <<>> /\ batch' = results /\ results' = <<>>
        /\ UNCHANGED <<waiting, worker>> /\ Len(results') = 0
    BY DEF Drag, GateInv, Bookkeeping
  <2>2. ASSUME NEW p \in Places'
        PROVE  g[p] \in Places /\ EventAt(p)' = EventAt(g[p])
    <3>1. CASE p \in {<<"waiting", i>> : i \in 1..Len(waiting)}
      BY <2>1, <3>1 DEF Places, EventAt
    <3>2. CASE p \in {<<"worker", w>> : w \in {v \in Workers : worker[v] # Null}}
      BY <2>1, <3>2 DEF Places, EventAt
    <3>3. CASE p \in {<<"batch", i>> : i \in 1..Len(results)}
      BY <2>1, <3>3 DEF Places, EventAt
    <3>4. \/ p \in {<<"waiting", i>> : i \in 1..Len(waiting)}
          \/ p \in {<<"worker", w>> : w \in {v \in Workers : worker[v] # Null}}
          \/ p \in {<<"batch", i>> : i \in 1..Len(results)}
      BY <2>1 DEF Places
    <3> HIDE DEF g
    <3> QED BY <3>1, <3>2, <3>3, <3>4
  <2>3. ASSUME NEW p \in Places', NEW r \in Places', g[p] = g[r]
        PROVE  p = r
    BY <2>1, <2>3 DEF Places
  <2> QED BY <2>2, <2>3 DEF Carries
<1> QED BY <1>1, <1>2, <1>3, StillStep DEF Unborn, Drag, netVars, bevVars

(* Take: the event at the head of the queue is the worker's. *)
LEMMA TakePreserves ==
  ASSUME GateInv, NEW w \in Workers, Take(w)
  PROVE  GateInv'
<1>1. /\ worker[w] = Null /\ waiting # <<>> /\ waiting \in Seq(Event)
      /\ worker' = [worker EXCEPT ![w] = Head(waiting)] /\ waiting' = Tail(waiting)
      /\ UNCHANGED <<batch, results, handled>>
      /\ worker \in [Workers -> Event \cup {Null}]
  BY DEF GateInv, TypeOK, Take, loopVars
<1>2. /\ Head(waiting) \in Event /\ Head(waiting) = waiting[1] /\ Tail(waiting) \in Seq(Event)
      /\ Len(waiting) \in Nat /\ Len(waiting) > 0
      /\ Len(waiting') = Len(waiting) - 1
      /\ \A i \in 1..Len(waiting') : waiting'[i] = waiting[i + 1]
  BY <1>1
<1>3. TypeOK'
  BY <1>1, <1>2 DEF GateInv, TypeOK, Take, netVars, bevVars, loopVars
<1>4. Bookkeeping'
  BY <1>1, <1>2, NetGateAssumption
     DEF GateInv, TypeOK, Bookkeeping, Unborn, Take, netVars, bevVars, loopVars
<1>5. PICK g : Carries(g)
  <2> DEFINE g == [p \in Places' |-> IF p = <<"worker", w>> THEN <<"waiting", 1>>
                     ELSE IF p[1] = "waiting" THEN <<"waiting", p[2] + 1>> ELSE p]
  <2>1. /\ worker'[w] = waiting[1] /\ worker'[w] # Null
        /\ \A v \in Workers : v # w => worker'[v] = worker[v]
    BY <1>1, <1>2, NetGateAssumption
  <2>2. ASSUME NEW p \in Places'
        PROVE  \/ /\ p = <<"worker", w>> /\ g[p] = <<"waiting", 1>>
               \/ \E i \in 1..Len(waiting') :
                    p = <<"waiting", i>> /\ g[p] = <<"waiting", i + 1>>
               \/ \E v \in Workers : /\ v # w /\ worker[v] # Null
                                     /\ p = <<"worker", v>> /\ g[p] = p
               \/ \E i \in 1..Len(results) : p = <<"results", i>> /\ g[p] = p
               \/ \E i \in 1..Len(batch) : p = <<"batch", i>> /\ g[p] = p
    <3>1. CASE p \in {<<"waiting", i>> : i \in 1..Len(waiting')}
      BY <3>1
    <3>2. CASE p \in {<<"worker", v>> : v \in {v \in Workers : worker'[v] # Null}}
      BY <3>2, <2>1
    <3>3. CASE p \in {<<"results", i>> : i \in 1..Len(results)}
      BY <3>3
    <3>4. CASE p \in {<<"batch", i>> : i \in 1..Len(batch)}
      BY <3>4
    <3>5. \/ p \in {<<"waiting", i>> : i \in 1..Len(waiting')}
          \/ p \in {<<"worker", v>> : v \in {v \in Workers : worker'[v] # Null}}
          \/ p \in {<<"results", i>> : i \in 1..Len(results)}
          \/ p \in {<<"batch", i>> : i \in 1..Len(batch)}
      BY <1>1 DEF Places
    <3> HIDE DEF g
    <3> QED BY <3>1, <3>2, <3>3, <3>4, <3>5
  <2> HIDE DEF g
  <2>3. ASSUME NEW p \in Places'
        PROVE  g[p] \in Places /\ EventAt(p)' = EventAt(g[p])
    <3>1. CASE p = <<"worker", w>> /\ g[p] = <<"waiting", 1>>
      BY <1>2, <2>1, <3>1 DEF Places, EventAt
    <3>2. CASE \E i \in 1..Len(waiting') :
                 p = <<"waiting", i>> /\ g[p] = <<"waiting", i + 1>>
      BY <1>2, <3>2 DEF Places, EventAt
    <3>3. CASE \E v \in Workers : /\ v # w /\ worker[v] # Null
                                  /\ p = <<"worker", v>> /\ g[p] = p
      BY <2>1, <3>3 DEF Places, EventAt
    <3>4. CASE \E i \in 1..Len(results) : p = <<"results", i>> /\ g[p] = p
      BY <1>1, <3>4 DEF Places, EventAt
    <3>5. CASE \E i \in 1..Len(batch) : p = <<"batch", i>> /\ g[p] = p
      BY <1>1, <3>5 DEF Places, EventAt
    <3> QED BY <2>2, <3>1, <3>2, <3>3, <3>4, <3>5
  <2>4. ASSUME NEW p \in Places', NEW r \in Places', g[p] = g[r]
        PROVE  p = r
    BY <1>2, <2>2, <2>4
  <2> QED BY <2>3, <2>4 DEF Carries
<1> QED BY <1>3, <1>4, <1>5, StillStep DEF Unborn, Take, netVars, bevVars, loopVars

(* Publish: the worker's event is the last result. *)
LEMMA PublishPreserves ==
  ASSUME GateInv, NEW w \in Workers, Publish(w)
  PROVE  GateInv'
<1>1. /\ worker[w] # Null /\ results \in Seq(Event)
      /\ worker' = [worker EXCEPT ![w] = Null] /\ results' = Append(results, worker[w])
      /\ handled' = [handled EXCEPT ![w] = FALSE]
      /\ UNCHANGED <<batch, waiting>>
      /\ worker \in [Workers -> Event \cup {Null}]
  BY DEF GateInv, TypeOK, Bookkeeping, Publish, loopVars
<1>2. /\ worker[w] \in Event /\ results' \in Seq(Event)
      /\ Len(results) \in Nat /\ Len(results') = Len(results) + 1
      /\ results'[Len(results) + 1] = worker[w]
      /\ \A i \in 1..Len(results) : results'[i] = results[i]
  BY <1>1
<1>3. TypeOK'
  BY <1>1, <1>2 DEF GateInv, TypeOK, Publish, netVars, bevVars, loopVars
<1>4. Bookkeeping'
  BY <1>1, <1>2
     DEF GateInv, TypeOK, Bookkeeping, Unborn, Publish, netVars, bevVars, loopVars
<1>5. PICK g : Carries(g)
  <2> DEFINE g == [p \in Places' |-> IF p = <<"results", Len(results) + 1>>
                                     THEN <<"worker", w>> ELSE p]
  <2>1. worker'[w] = Null /\ \A v \in Workers : v # w => worker'[v] = worker[v]
    BY <1>1
  <2>2. ASSUME NEW p \in Places'
        PROVE  \/ p = <<"results", Len(results) + 1>> /\ g[p] = <<"worker", w>>
               \/ \E i \in 1..Len(waiting) : p = <<"waiting", i>> /\ g[p] = p
               \/ \E v \in Workers : /\ v # w /\ worker[v] # Null
                                     /\ p = <<"worker", v>> /\ g[p] = p
               \/ \E i \in 1..Len(results) : p = <<"results", i>> /\ g[p] = p
               \/ \E i \in 1..Len(batch) : p = <<"batch", i>> /\ g[p] = p
    <3>1. CASE p \in {<<"waiting", i>> : i \in 1..Len(waiting)}
      BY <3>1
    <3>2. CASE p \in {<<"worker", v>> : v \in {v \in Workers : worker'[v] # Null}}
      BY <3>2, <2>1
    <3>3. CASE p \in {<<"results", i>> : i \in 1..Len(results')}
      BY <1>2, <3>3
    <3>4. CASE p \in {<<"batch", i>> : i \in 1..Len(batch)}
      BY <3>4
    <3>5. \/ p \in {<<"waiting", i>> : i \in 1..Len(waiting)}
          \/ p \in {<<"worker", v>> : v \in {v \in Workers : worker'[v] # Null}}
          \/ p \in {<<"results", i>> : i \in 1..Len(results')}
          \/ p \in {<<"batch", i>> : i \in 1..Len(batch)}
      BY <1>1 DEF Places
    <3> HIDE DEF g
    <3> QED BY <3>1, <3>2, <3>3, <3>4, <3>5
  <2> HIDE DEF g
  <2>3. ASSUME NEW p \in Places'
        PROVE  g[p] \in Places /\ EventAt(p)' = EventAt(g[p])
    <3>1. CASE p = <<"results", Len(results) + 1>> /\ g[p] = <<"worker", w>>
      BY <1>1, <1>2, <3>1 DEF Places, EventAt
    <3>2. CASE \E i \in 1..Len(waiting) : p = <<"waiting", i>> /\ g[p] = p
      BY <1>1, <3>2 DEF Places, EventAt
    <3>3. CASE \E v \in Workers : /\ v # w /\ worker[v] # Null
                                  /\ p = <<"worker", v>> /\ g[p] = p
      BY <2>1, <3>3 DEF Places, EventAt
    <3>4. CASE \E i \in 1..Len(results) : p = <<"results", i>> /\ g[p] = p
      BY <1>2, <3>4 DEF Places, EventAt
    <3>5. CASE \E i \in 1..Len(batch) : p = <<"batch", i>> /\ g[p] = p
      BY <1>1, <3>5 DEF Places, EventAt
    <3> QED BY <2>2, <3>1, <3>2, <3>3, <3>4, <3>5
  <2>4. ASSUME NEW p \in Places', NEW r \in Places', g[p] = g[r]
        PROVE  p = r
    BY <1>2, <2>2, <2>4
  <2> QED BY <2>3, <2>4 DEF Carries
<1> QED BY <1>3, <1>4, <1>5, StillStep DEF Unborn, Publish, netVars, bevVars, loopVars

-----------------------------------------------------------------------------
(* Never more requests are packed than were written. *)
LEMMA PackedWritten ==
  ASSUME TypeOK, Stream, NEW c \in Conns
  PROVE  /\ packed[c] \in Nat /\ Len(frames[c]) \in Nat /\ packed[c] <= Len(frames[c])
         /\ off[c] < written[c] => packed[c] < Len(frames[c])
<1>1. /\ packed[c] \in Nat /\ Len(frames[c]) \in Nat
      /\ off[c] \in Nat /\ fed[c] \in Nat /\ written[c] \in Nat
  BY DEF TypeOK
<1>2. /\ At(packed[c]) <= off[c] /\ off[c] <= fed[c] /\ fed[c] <= written[c]
      /\ written[c] <= At(Len(frames[c]))
  BY DEF Stream, StreamOf
<1>3. At(packed[c]) \in Nat /\ At(Len(frames[c])) \in Nat
  BY <1>1, AtFacts
<1>4. /\ At(packed[c]) <= At(Len(frames[c]))
      /\ off[c] < written[c] => At(packed[c]) < At(Len(frames[c]))
  BY <1>1, <1>2, <1>3
<1> QED BY <1>1, <1>4, AtOrder

(* An event whose Session is gone is about a request that was abandoned. *)
LEMMA StaleIsAbandoned ==
  ASSUME GateInv, ~fault, NEW p \in Places,
         heap[EventAt(p).addr].conn # EventAt(p).conn
  PROVE  Abandoned
<1>1. PICK c \in Conns : c = EventAt(p).conn
  BY PlaceTypes DEF GateInv
<1>2. ctx[c] = Null /\ ~Unborn(c)
  BY <1>1 DEF GateInv, StaleOnlyAfterClose, Travelling
<1>3. Len(replies[c]) + Len(output[c]) < packed[c]
  BY <1>1 DEF GateInv, Answers, AnswersOf
<1>4. packed[c] \in Nat /\ Len(frames[c]) \in Nat /\ packed[c] <= Len(frames[c])
  BY PackedWritten DEF GateInv
<1>5. Len(replies[c]) \in Nat /\ Len(output[c]) \in Nat
  BY DEF GateInv, TypeOK
<1>6. Len(replies[c]) < Len(frames[c])
  <2>1. \A r, o, k, l \in Nat : r + o < k /\ k <= l => r < l
    OBVIOUS
  <2> QED BY <1>3, <1>4, <1>5, <2>1
<1> QED BY <1>2, <1>4, <1>5, <1>6 DEF Abandoned, Outstanding, Closed, Unborn

(* A new request lies behind the others. *)
LEMMA ClientWritePreserves ==
  ASSUME GateInv, NEW c \in Conns, NEW magic \in BOOLEAN, NEW stall \in BOOLEAN,
         ClientWrite(c, magic, stall)
  PROVE  GateInv'
<1> DEFINE f == [start |-> written[c], size |-> BodySize,
                 type |-> "kPhoneReq", magic |-> magic]
           add == IF stall THEN 1 ELSE HeaderSize + BodySize
<1>1. /\ client[c] = "open" /\ Len(frames[c]) < MaxRequests
      /\ frames' = [frames EXCEPT ![c] = Append(@, f)]
      /\ written' = [written EXCEPT ![c] = @ + add]
      /\ client' = [client EXCEPT ![c] = IF stall THEN "stalled" ELSE @]
      /\ UNCHANGED <<replies, ctx, fed, off, packed, output, heap, pc, ready, cur,
                     batch, waiting, worker, handled, results, fault, crashed>>
  BY DEF ClientWrite, bevVars, loopVars, poolVars
<1>2. /\ HeaderSize \in Nat \ {0} /\ BodySize \in Nat \ {0} /\ MaxRequests \in Nat
      /\ written[c] \in Nat /\ frames[c] \in Seq(Frame) /\ Len(frames[c]) \in Nat
  BY HeaderSizeAssumption, NetGateAssumption DEF GateInv, TypeOK
<1>3. f \in Frame /\ f.start = written[c] /\ f.size = BodySize /\ f.type = "kPhoneReq"
  BY <1>2 DEF Frame, EventTypes
<1>4. /\ add \in Nat /\ add >= 1 /\ add <= HeaderSize + BodySize
      /\ ~stall => add = HeaderSize + BodySize
  BY <1>2
<1> HIDE DEF f, add
<1>5. /\ frames'[c] = Append(frames[c], f) /\ frames'[c] \in Seq(Frame)
      /\ Len(frames'[c]) = Len(frames[c]) + 1
      /\ frames'[c][Len(frames[c]) + 1] = f
      /\ \A i \in 1..Len(frames[c]) : frames'[c][i] = frames[c][i]
      /\ written'[c] = written[c] + add
      /\ \A d \in Conns : d # c => /\ frames'[d] = frames[d] /\ written'[d] = written[d]
                                   /\ client'[d] = client[d]
      /\ client'[c] = IF stall THEN "stalled" ELSE "open"
  <2>1. /\ frames \in [Conns -> Seq(Frame)] /\ written \in [Conns -> Nat]
        /\ client \in [Conns -> ClientState]
    BY DEF GateInv, TypeOK
  <2> QED BY <1>1, <1>2, <1>3, <2>1
<1>6. TypeOK'
  <2>1. frames' \in [Conns -> Seq(Frame)]
    BY <1>1, <1>3 DEF GateInv, TypeOK
  <2>2. written' \in [Conns -> Nat]
    BY <1>1, <1>4 DEF GateInv, TypeOK
  <2>3. client' \in [Conns -> ClientState]
    BY <1>1 DEF GateInv, TypeOK, ClientState
  <2> QED BY <1>1, <2>1, <2>2, <2>3 DEF GateInv, TypeOK
<1>7. \A d \in Conns : Unborn(d)' <=> Unborn(d)
  BY <1>1, <1>5 DEF Unborn
<1>8. Bookkeeping'
  <2>1. ~Unborn(c)
    BY <1>1 DEF Unborn
  <2>2. ASSUME NEW d \in Conns, Unborn(d)'
        PROVE  frames'[d] = <<>> /\ written'[d] = 0
    BY <1>5, <1>7, <2>1, <2>2 DEF GateInv, Bookkeeping
  <2>3. \A d \in Conns : <<"accept", d>> \in ready' => client'[d] = "connecting"
    BY <1>1, <1>5 DEF GateInv, Bookkeeping
  <2> QED BY <1>1, <1>7, <2>2, <2>3 DEF GateInv, Bookkeeping
<1>9. Regular
  <2>1. \A d \in Conns : packed[d] \in Nat /\ Len(frames[d]) \in Nat
    BY DEF GateInv, TypeOK
  <2>2. \A d \in Conns : Len(frames[d]) <= Len(frames'[d])
    BY <1>2, <1>5, <2>1
  <2> QED BY <1>1, <1>7, <2>1, <2>2 DEF Regular
<1>10. PICK g : Carries(g)
  BY <1>1, SamePlaces
<1>11. Travelling' /\ StaleOnlyAfterClose'
  BY <1>6, <1>9, <1>10, RegularKeeps DEF GateInv
<1>12. OneRequestInFlight'
  <2>1. \A e \in Event : Claimed(e) => Claimed(e)'
    BY <1>1 DEF Claimed
  <2> QED BY <1>1, <1>9, <1>10, <2>1, InFlightKept DEF GateInv
<1>13. Stream'
  <2>1. ASSUME NEW d \in Conns, d # c PROVE StreamOf(d)'
    BY <1>1, <1>5, <2>1, StreamKept DEF GateInv, Stream, SameStream
  <2>2. StreamOf(c)'
    <3>1. written[c] = At(Len(frames[c]))
      BY <1>1 DEF GateInv, Stream, StreamOf
    <3>2. /\ At(Len(frames[c]) + 1) = At(Len(frames[c])) + HeaderSize + BodySize
          /\ At(Len(frames[c])) \in Nat
      BY <1>2, AtFacts
    <3>3. ASSUME NEW i \in 1..Len(frames'[c])
          PROVE  /\ frames'[c][i].start = At(i - 1) /\ frames'[c][i].size = BodySize
                 /\ frames'[c][i].type = "kPhoneReq"
      <4>1. CASE i \in 1..Len(frames[c])
        BY <1>5, <4>1 DEF GateInv, Stream, StreamOf
      <4>2. CASE i = Len(frames[c]) + 1
        <5>1. i - 1 = Len(frames[c])
          BY <1>2, <4>2
        <5> QED BY <1>3, <1>5, <3>1, <4>2, <5>1
      <4> QED BY <1>2, <1>5, <3>3, <4>1, <4>2
    <3>4. written'[c] <= At(Len(frames'[c])) /\ (~stall => written'[c] = At(Len(frames'[c])))
      <4>1. /\ At(Len(frames'[c])) = written[c] + HeaderSize + BodySize
            /\ written'[c] = written[c] + add
        BY <1>5, <3>1, <3>2
      <4>2. written'[c] <= At(Len(frames'[c]))
        BY <1>2, <1>4, <4>1
      <4>3. add = HeaderSize + BodySize => written'[c] = At(Len(frames'[c]))
        BY <1>2, <4>1
      <4> QED BY <1>4, <4>2, <4>3
    <3>5. /\ At(packed[c]) <= off[c] /\ off[c] <= fed[c] /\ fed[c] <= written[c]
          /\ fed[c] \in Nat
      BY DEF GateInv, TypeOK, Stream, StreamOf
    <3>6. fed'[c] <= written'[c]
      BY <1>1, <1>2, <1>4, <1>5, <3>5
    <3>7. Len(frames'[c]) <= MaxRequests
      BY <1>1, <1>2, <1>5
    <3> QED BY <1>1, <1>5, <3>3, <3>4, <3>5, <3>6, <3>7 DEF StreamOf
  <2> QED BY <2>1, <2>2 DEF Stream
<1>14. \A d : JustPushed(d)' <=> JustPushed(d)
  BY <1>1 DEF JustPushed
<1>15. Parsing'
  <2>1. ASSUME NEW d \in Conns, d # c PROVE ParsingOf(d)'
    BY <1>1, <1>5, <1>14, <2>1, ParsingKept DEF GateInv, Parsing, SameParser
  <2>2. ParsingOf(c)'
    <3>1. packed[c] < Len(frames[c]) =>
            packed'[c] < Len(frames'[c]) /\ frames'[c][packed'[c] + 1] = frames[c][packed[c] + 1]
      <4>1. packed[c] \in Nat
        BY DEF GateInv, TypeOK
      <4>2. packed[c] < Len(frames[c]) => packed[c] + 1 \in 1..Len(frames[c])
        BY <1>2, <4>1
      <4> QED BY <1>1, <1>2, <1>5, <4>1, <4>2
    <3> QED BY <1>1, <1>14, <3>1 DEF GateInv, Parsing, ParsingOf
  <2> QED BY <2>1, <2>2 DEF Parsing
<1>16. Answers'
  <2>1. \A d \in Conns : SameAnswers(d)
    BY <1>1, <1>5, <1>14 DEF SameAnswers, Busy
  <2> QED BY <1>1, <1>10, <2>1, AnswersKept DEF GateInv, Answers
<1>17. CallbackOnLiveSession' /\ RepliesMatchRequests'
  BY <1>1 DEF GateInv, CallbackOnLiveSession, Live, RepliesMatchRequests
<1>18. DroppedInPush' /\ FaultNeedsAbandonedRequest'
  <2>1. Abandoned => Abandoned'
    BY <1>6, <1>9, AbandonedStays DEF GateInv
  <2> QED BY <1>1, <2>1 DEF GateInv, DroppedInPush, FaultNeedsAbandonedRequest, Abandoned, Live
<1> QED BY <1>6, <1>8, <1>11, <1>12, <1>13, <1>15, <1>16, <1>17, <1>18 DEF GateInv

(* A worker stores into the Session its event points to. *)
LEMMA HandlePreserves ==
  ASSUME GateInv, NEW w \in Workers, Handle(w)
  PROVE  GateInv'
<1>1. PICK e \in Event : e = worker[w] /\ e.addr \in Addrs /\ e.conn \in Conns
  BY DEF GateInv, TypeOK, Handle, Event
<1>2. <<"worker", w>> \in Places /\ EventAt(<<"worker", w>>) = e
  BY <1>1 DEF Handle, Places, EventAt
<1>3. /\ handled' = [handled EXCEPT ![w] = TRUE] /\ worker[w] # Null
      /\ UNCHANGED <<client, frames, written, replies, ctx, fed, off, packed, output,
                     pc, ready, cur, batch, waiting, worker, results>>
  BY DEF Handle, netVars, bevVars, loopVars
<1>4. \/ /\ Live(e.addr) /\ heap' = [heap EXCEPT ![e.addr].data = e.conn]
         /\ fault' = (fault \/ heap[e.addr].conn # e.conn) /\ crashed' = crashed
      \/ ~Live(e.addr) /\ heap' = heap /\ fault' = TRUE /\ crashed' \in BOOLEAN
  BY <1>1 DEF Handle, UseAfterDelete
<1>5. /\ heap' \in [Addrs -> SessionType]
      /\ \A a \in Addrs : heap'[a].conn = heap[a].conn /\ heap'[a].parser = heap[a].parser
  <2>1. heap \in [Addrs -> SessionType]
    BY DEF GateInv, TypeOK
  <2> QED BY <1>1, <1>4, <2>1 DEF SessionType
<1>6. fault \in BOOLEAN /\ fault' \in BOOLEAN /\ crashed' \in BOOLEAN /\ (fault => fault')
  BY <1>4 DEF GateInv, TypeOK
<1>7. TypeOK'
  BY <1>3, <1>5, <1>6 DEF GateInv, TypeOK
<1>8. \A c \in Conns : Unborn(c)' <=> Unborn(c)
  BY <1>3 DEF Unborn
<1>9. Bookkeeping'
  <2>1. \A v \in Workers : handled'[v] => worker'[v] # Null
    BY <1>3 DEF GateInv, TypeOK, Bookkeeping
  <2> QED BY <1>3, <1>8, <2>1 DEF GateInv, Bookkeeping
<1>10. Regular
  <2>1. \A c \in Conns : packed[c] \in Nat /\ Len(frames[c]) \in Nat
    BY DEF GateInv, TypeOK
  <2> QED BY <1>3, <1>5, <1>8, <2>1 DEF Regular
<1>11. PICK g : Carries(g)
  BY <1>3, SamePlaces
<1>12. Travelling' /\ StaleOnlyAfterClose'
  BY <1>7, <1>10, <1>11, RegularKeeps DEF GateInv
<1>13. OneRequestInFlight'
  <2>1. \A d \in Event : Claimed(d) => Claimed(d)'
    BY <1>3, <1>5 DEF Claimed, Event
  <2> QED BY <1>6, <1>10, <1>11, <2>1, InFlightKept DEF GateInv
<1>14. Stream'
  BY <1>3, StreamKept DEF GateInv, Stream, SameStream
<1>15. \A c : JustPushed(c)' <=> JustPushed(c)
  BY <1>3 DEF JustPushed
<1>16. \A c \in Conns : ctx[c] # Null => ctx[c] \in Addrs
  BY DEF GateInv, TypeOK
<1>17. Parsing'
  <2>1. \A c \in Conns : SameParser(c)
    BY <1>3, <1>5, <1>15, <1>16 DEF SameParser
  <2> QED BY <1>6, <2>1, ParsingKept DEF GateInv, Parsing
<1>18. Answers'
  <2>1. \A c \in Conns : SameAnswers(c)
    BY <1>3, <1>5, <1>15, <1>16 DEF SameAnswers, Busy
  <2> QED BY <1>6, <1>11, <2>1, AnswersKept DEF GateInv, Answers
<1>19. CallbackOnLiveSession'
  <2>1. \A a \in Addrs : Live(a)' <=> Live(a)
    BY <1>5 DEF Live
  <2> QED BY <1>3, <1>5, <1>16, <2>1 DEF GateInv, CallbackOnLiveSession
<1>20. RepliesMatchRequests'
  <2>1. SUFFICES ASSUME ~fault' PROVE RepliesMatchRequests'
    BY DEF RepliesMatchRequests
  <2>2. ~fault /\ heap[e.addr].conn = e.conn /\ heap' = [heap EXCEPT ![e.addr].data = e.conn]
    BY <1>4, <1>6, <2>1
  <2>3. \A a \in Addrs : heap[a].data \in {Null, heap[a].conn}
    BY <2>2 DEF GateInv, RepliesMatchRequests
  <2>4. ASSUME NEW a \in Addrs PROVE heap'[a].data \in {Null, heap'[a].conn}
    <3>1. heap \in [Addrs -> SessionType]
      BY DEF GateInv, TypeOK
    <3>2. CASE a = e.addr
      <4>1. heap[a] \in SessionType /\ heap' = [heap EXCEPT ![a] = [@ EXCEPT !.data = e.conn]]
        BY <2>2, <3>1, <3>2
      <4>2. heap'[a].data = e.conn
        BY <3>1, <4>1 DEF SessionType
      <4> QED BY <1>5, <2>2, <3>2, <4>2
    <3>3. CASE a # e.addr
      BY <1>1, <2>2, <2>3, <3>1, <3>3
    <3> QED BY <3>2, <3>3
  <2> QED BY <1>3, <2>2, <2>4 DEF GateInv, RepliesMatchRequests
<1>21. Abandoned => Abandoned'
  BY <1>7, <1>10, AbandonedStays DEF GateInv
<1>22. FaultNeedsAbandonedRequest'
  <2>1. ASSUME fault' PROVE Abandoned'
    <3>1. CASE fault
      BY <1>21, <3>1 DEF GateInv, FaultNeedsAbandonedRequest, Abandoned
    <3>2. CASE ~fault
      <4>1. heap[e.addr].conn # e.conn
        BY <1>1, <1>4, <2>1, <3>2, NetGateAssumption DEF Live
      <4> QED BY <1>2, <1>21, <3>2, <4>1, StaleIsAbandoned
    <3> QED BY <3>1, <3>2
  <2> QED BY <2>1 DEF FaultNeedsAbandonedRequest, Abandoned
<1>23. DroppedInPush'
  <2>1. pc = "pushed" => cur \in Addrs
    BY DEF GateInv, Bookkeeping
  <2> QED BY <1>3, <1>5, <1>21, <2>1 DEF GateInv, DroppedInPush, Live
<1> QED BY <1>7, <1>9, <1>12, <1>13, <1>14, <1>17, <1>18, <1>19, <1>20, <1>22, <1>23 DEF GateInv

(* A new Session, at an address that held none. *)
LEMMA ListenerCallbackPreserves ==
  ASSUME GateInv, NEW c \in Conns, NEW a \in Addrs, ListenerCallback(c, a)
  PROVE  GateInv'
<1>1. /\ pc = "callbacks" /\ <<"accept", c>> \in ready /\ ~Live(a)
      /\ heap' = [heap EXCEPT ![a] = NewSession(c)]
      /\ ctx' = [ctx EXCEPT ![c] = a] /\ client' = [client EXCEPT ![c] = "open"]
      /\ ready' = ready \ {<<"accept", c>>}
      /\ UNCHANGED <<frames, written, replies, fed, off, packed, output, pc, cur,
                     batch, waiting, worker, handled, results, fault, crashed>>
  BY DEF ListenerCallback, Callback, poolVars
<1>2. /\ client[c] = "connecting" /\ Unborn(c) /\ ctx[c] = Null /\ frames[c] = <<>>
      /\ replies[c] = <<>> /\ output[c] = <<>> /\ packed[c] = 0
      /\ written[c] = 0 /\ fed[c] = 0 /\ off[c] = 0
  BY <1>1 DEF GateInv, Bookkeeping, Unborn
<1>3. /\ NewSession(c) \in SessionType /\ NewSession(c).conn = c
      /\ NewSession(c).data = Null /\ NewSession(c).parser = NewParser
      /\ NewParser.state = "WAITING_REQUEST" /\ NewParser.req_buf.buf = FALSE
      /\ NewParser.req_buf.last = 0 /\ NewParser.req_buf.total = 0
  <2>1. NewParser \in Parser
    BY DEF NewParser, Parser, State, Buffer, NewBuffer, EventTypes
  <2>2. NewSession(c) = [conn |-> c, parser |-> NewParser, count |-> 0, data |-> Null]
    BY DEF NewSession, NoSession
  <2>3. NewSession(c) \in SessionType
    BY <2>1, <2>2 DEF SessionType
  <2>4. /\ NewSession(c).conn = c /\ NewSession(c).data = Null
        /\ NewSession(c).parser = NewParser
    BY <2>2
  <2>5. /\ NewParser.state = "WAITING_REQUEST" /\ NewParser.req_buf.buf = FALSE
        /\ NewParser.req_buf.last = 0 /\ NewParser.req_buf.total = 0
    BY DEF NewParser, NewBuffer
  <2> QED BY <2>3, <2>4, <2>5
<1>4. /\ heap \in [Addrs -> SessionType] /\ ctx \in [Conns -> Addrs \cup {Null}]
      /\ client \in [Conns -> ClientState]
  BY DEF GateInv, TypeOK
<1>5. /\ heap'[a] = NewSession(c) /\ \A b \in Addrs : b # a => heap'[b] = heap[b]
      /\ ctx'[c] = a /\ \A d \in Conns : d # c => ctx'[d] = ctx[d] /\ client'[d] = client[d]
      /\ client'[c] = "open"
  BY <1>1, <1>4
<1>6. TypeOK'
  BY <1>1, <1>3 DEF GateInv, TypeOK, ClientState
<1>7. \A d \in Conns : Unborn(d)' <=> (Unborn(d) /\ d # c)
  BY <1>5 DEF Unborn
<1>8. a # Null /\ c # Null /\ heap[a].conn = Null
  BY <1>1, NetGateAssumption DEF Live
<1>9. Bookkeeping'
  BY <1>1, <1>5, <1>7, <1>8 DEF GateInv, Bookkeeping
<1>10. CallbackOnLiveSession'
  <2>1. ASSUME NEW d \in Conns, ctx'[d] # Null PROVE heap'[ctx'[d]].conn = d
    <3>1. CASE d = c
      BY <1>3, <1>5, <3>1
    <3>2. CASE d # c
      <4>1. ctx[d] \in Addrs /\ heap[ctx[d]].conn = d /\ ctx'[d] = ctx[d]
        BY <1>4, <1>5, <2>1, <3>2 DEF GateInv, CallbackOnLiveSession
      <4>2. ctx[d] # a
        BY <1>8, <4>1, NetGateAssumption
      <4> QED BY <1>5, <4>1, <4>2
    <3> QED BY <3>1, <3>2
  <2>2. ASSUME NEW b \in Addrs, heap'[b].conn # Null PROVE ctx'[heap'[b].conn] = b
    <3>1. CASE b = a
      BY <1>3, <1>5, <3>1
    <3>2. CASE b # a
      <4>1. heap'[b] = heap[b] /\ heap[b].conn \in Conns /\ ctx[heap[b].conn] = b
        BY <1>4, <1>5, <2>2, <3>2 DEF GateInv, CallbackOnLiveSession, Live, SessionType
      <4>2. heap[b].conn # c
        BY <1>2, <4>1, NetGateAssumption
      <4> QED BY <1>5, <4>1, <4>2
    <3> QED BY <3>1, <3>2
  <2> QED BY <2>1, <2>2 DEF CallbackOnLiveSession, Live
<1>11. Regular
  <2>1. \A d \in Conns : packed[d] \in Nat /\ Len(frames[d]) \in Nat
    BY DEF GateInv, TypeOK
  <2>2. ASSUME NEW b \in Addrs, NEW d \in Conns
        PROVE  /\ heap[b].conn = d => heap'[b].conn = d
               /\ heap'[b].conn = d => heap[b].conn = d \/ Unborn(d)
    BY <1>2, <1>3, <1>5, <1>8, NetGateAssumption
  <2> QED BY <1>1, <1>2, <1>5, <1>7, <2>1, <2>2 DEF Regular
<1>12. PICK g : Carries(g)
  BY <1>1, SamePlaces
<1>13. Travelling' /\ StaleOnlyAfterClose'
  BY <1>6, <1>11, <1>12, RegularKeeps DEF GateInv
<1>14. OneRequestInFlight'
  <2>1. ASSUME NEW e \in Event, heap[e.addr].conn = e.conn, Claimed(e)
        PROVE  Claimed(e)'
    <3>1. e.addr \in Addrs /\ e.conn # Null
      BY NetGateAssumption DEF Event
    <3>2. e.addr # a
      BY <1>8, <2>1, <3>1
    <3> QED BY <1>1, <1>5, <2>1, <3>1, <3>2 DEF Claimed
  <2> QED BY <1>1, <1>11, <1>12, <2>1, InFlightKept DEF GateInv
<1>15. Stream'
  <2>1. ASSUME NEW d \in Conns, d # c PROVE StreamOf(d)'
    BY <1>1, <1>5, <2>1, StreamKept DEF GateInv, Stream, SameStream
  <2>2. StreamOf(c)'
    <3>1. written[c] = At(Len(frames[c]))
      BY <1>2, AtFacts
    <3> QED BY <1>1, <3>1 DEF GateInv, Stream, StreamOf
  <2> QED BY <2>1, <2>2 DEF Stream
<1>16. \A d : ~JustPushed(d)' /\ ~JustPushed(d)
  BY <1>1 DEF JustPushed
<1>17. ASSUME NEW d \in Conns, d # c
       PROVE  SameParser(d) /\ SameAnswers(d)
  <2>1. ctx[d] # Null => ctx[d] \in Addrs /\ ctx[d] # a
    BY <1>4, <1>8, NetGateAssumption DEF GateInv, CallbackOnLiveSession
  <2> QED BY <1>1, <1>5, <1>16, <1>17, <2>1 DEF SameParser, SameAnswers, Busy
<1>18. Parsing'
  <2>1. ASSUME NEW d \in Conns, d # c PROVE ParsingOf(d)'
    BY <1>1, <1>17, <2>1, ParsingKept DEF GateInv, Parsing
  <2>2. ParsingOf(c)'
    <3>1. heap'[ctx'[c]].parser = NewParser
      BY <1>3, <1>5
    <3>2. off'[c] = At(packed'[c])
      BY <1>1, <1>2, AtFacts
    <3>3. NewParser.req_buf.last <= NewParser.req_buf.total
      BY <1>3
    <3> QED BY <1>3, <3>1, <3>2, <3>3 DEF ParsingOf
  <2> QED BY <2>1, <2>2 DEF Parsing
<1>19. Answers'
  <2>1. SUFFICES ASSUME ~fault' PROVE \A d \in Conns : AnswersOf(d)'
    BY DEF Answers
  <2>2. ASSUME NEW d \in Conns, d # c PROVE AnswersOf(d)'
    BY <1>1, <1>12, <1>17, <2>1, <2>2, AnswersKept DEF GateInv, Answers
  <2>3. AnswersOf(c)'
    <3>1. \A p \in Places' : EventAt(p)'.conn # c
      <4>1. \A p \in Places : EventAt(p).conn # c
        BY <1>2 DEF GateInv, Travelling
      <4> QED BY <1>12, <4>1 DEF Carries
    <3>2. ~Busy(c)'
      BY <1>3, <1>5, <1>16 DEF Busy
    <3>3. Len(replies'[c]) = 0 /\ Len(output'[c]) = 0 /\ packed'[c] = 0
      BY <1>1, <1>2
    <3> QED BY <3>1, <3>2, <3>3 DEF AnswersOf
  <2> QED BY <2>2, <2>3
<1>20. RepliesMatchRequests'
  BY <1>1, <1>3, <1>5 DEF GateInv, RepliesMatchRequests
<1>21. DroppedInPush' /\ FaultNeedsAbandonedRequest'
  <2>1. Abandoned => Abandoned'
    BY <1>6, <1>11, AbandonedStays DEF GateInv
  <2> QED BY <1>1, <2>1 DEF GateInv, DroppedInPush, FaultNeedsAbandonedRequest, Abandoned
<1> QED BY <1>6, <1>9, <1>10, <1>13, <1>14, <1>15, <1>18, <1>19, <1>20, <1>21 DEF GateInv

-----------------------------------------------------------------------------
(* Deleting the Session of connection c. *)
LEMMA DeleteFacts ==
  ASSUME GateInv, NEW c \in Conns, ctx[c] # Null, DeleteSession(ctx[c])
  PROVE  /\ heap' \in [Addrs -> SessionType] /\ ctx' \in [Conns -> Addrs \cup {Null}]
         /\ output' \in [Conns -> Seq(Reply)]
         /\ ready' = ready \ {<<"read", c>>, <<"write", c>>}
         /\ heap'[ctx[c]].conn = Null /\ heap'[ctx[c]].data = Null
         /\ \A a \in Addrs : a # ctx[c] => heap'[a] = heap[a]
         /\ ctx'[c] = Null /\ output'[c] = <<>>
         /\ \A d \in Conns : d # c => /\ ctx'[d] = ctx[d] /\ output'[d] = output[d]
                                      /\ ctx[d] # ctx[c]
<1>1. ctx[c] \in Addrs /\ heap[ctx[c]].conn = c
  BY CtxLive DEF GateInv
<1>2. /\ heap' = [heap EXCEPT ![ctx[c]] = NoSession] /\ ctx' = [ctx EXCEPT ![c] = Null]
      /\ output' = [output EXCEPT ![c] = <<>>]
      /\ ready' = ready \ {<<"read", c>>, <<"write", c>>}
  BY <1>1 DEF DeleteSession
<1>3. NoSession \in SessionType /\ NoSession.conn = Null /\ NoSession.data = Null
  <2>1. NewParser \in Parser
    BY DEF NewParser, Parser, State, Buffer, NewBuffer, EventTypes
  <2>2. NoSession = [conn |-> Null, parser |-> NewParser, count |-> 0, data |-> Null]
    BY DEF NoSession
  <2> QED BY <2>1, <2>2 DEF SessionType
<1>4. /\ heap \in [Addrs -> SessionType] /\ ctx \in [Conns -> Addrs \cup {Null}]
      /\ output \in [Conns -> Seq(Reply)]
  BY DEF GateInv, TypeOK
<1>5. \A d \in Conns : d # c => ctx[d] # ctx[c]
  BY <1>1 DEF GateInv, CallbackOnLiveSession
<1> QED BY <1>1, <1>2, <1>3, <1>4, <1>5

(* What deleting the Session of c keeps: events of c turn stale. *)
LEMMA DeletePreserves ==
  ASSUME GateInv, NEW c \in Conns, ctx[c] # Null, DeleteSession(ctx[c]), TypeOK',
         UNCHANGED <<client, frames, replies, waiting, worker, results, batch>>,
         packed'[c] >= packed[c],
         \A d \in Conns : d # c => packed'[d] = packed[d] /\ off'[d] = off[d],
         fault => fault',
         pc = "callbacks", pc' = "callbacks" \/ (pc' = "pushed" /\ cur' = ctx[c])
  PROVE  /\ CallbackOnLiveSession' /\ Parsing' /\ Travelling' /\ StaleOnlyAfterClose'
         /\ OneRequestInFlight' /\ Answers' /\ RepliesMatchRequests'
         /\ Abandoned => Abandoned'
<1>1. ctx[c] \in Addrs /\ heap[ctx[c]].conn = c /\ c # Null
  BY CtxLive, NetGateAssumption DEF GateInv
<1>2. /\ heap'[ctx[c]].conn = Null /\ heap'[ctx[c]].data = Null
      /\ \A a \in Addrs : a # ctx[c] => heap'[a] = heap[a]
      /\ ctx'[c] = Null /\ output'[c] = <<>>
      /\ \A d \in Conns : d # c => /\ ctx'[d] = ctx[d] /\ output'[d] = output[d]
                                   /\ ctx[d] # ctx[c]
  BY DeleteFacts
<1>3. /\ \A d \in Conns : packed[d] \in Nat /\ Len(frames[d]) \in Nat
      /\ packed'[c] \in Nat
      /\ \A d \in Conns : ctx[d] # Null => ctx[d] \in Addrs
      /\ \A a \in Addrs : heap[a].conn \in Conns \cup {Null}
  BY DEF GateInv, TypeOK, SessionType
<1>4. \A d \in Conns : Unborn(d)' <=> Unborn(d)
  BY DEF Unborn
<1>5. ~Unborn(c)
  BY DEF GateInv, Bookkeeping
<1>6. Regular
  <2>1. \A d \in Conns : packed[d] <= packed'[d]
    BY <1>3
  <2>2. ASSUME NEW a \in Addrs, NEW d \in Conns
        PROVE  /\ heap[a].conn = d => heap'[a].conn = d \/ ctx'[d] = Null
               /\ heap'[a].conn = d => heap[a].conn = d
    BY <1>1, <1>2, NetGateAssumption
  <2> QED BY <1>2, <1>3, <1>4, <2>1, <2>2 DEF Regular
<1>7. PICK g : Carries(g)
  BY SamePlaces
<1>8. Travelling' /\ StaleOnlyAfterClose'
  BY <1>6, <1>7, RegularKeeps DEF GateInv
<1>9. Abandoned => Abandoned'
  BY <1>6, AbandonedStays DEF GateInv
<1>10. CallbackOnLiveSession'
  <2>1. ASSUME NEW d \in Conns, ctx'[d] # Null PROVE heap'[ctx'[d]].conn = d
    BY <1>2, <1>3, <2>1 DEF GateInv, CallbackOnLiveSession
  <2>2. ASSUME NEW a \in Addrs, heap'[a].conn # Null PROVE ctx'[heap'[a].conn] = a
    <3>1. a # ctx[c] /\ heap'[a] = heap[a] /\ heap[a].conn \in Conns /\ ctx[heap[a].conn] = a
      BY <1>2, <1>3, <2>2 DEF GateInv, CallbackOnLiveSession, Live
    <3>2. heap[a].conn # c
      BY <3>1
    <3> QED BY <1>2, <3>1, <3>2
  <2> QED BY <2>1, <2>2 DEF CallbackOnLiveSession, Live
<1>11. OneRequestInFlight'
  <2>1. ASSUME NEW e \in Event, heap'[e.addr].conn = e.conn, Claimed(e)
        PROVE  Claimed(e)'
    <3>1. e.addr \in Addrs /\ e.conn # Null
      BY NetGateAssumption DEF Event
    <3>2. e.addr # ctx[c]
      BY <1>2, <2>1, <3>1
    <3> QED BY <1>2, <2>1, <3>1, <3>2 DEF Claimed
  <2> QED BY <1>6, <1>7, <2>1, InFlightKept DEF GateInv
<1>12. \A d \in Conns : d # c /\ ctx[d] # Null => ~JustPushed(d)' /\ ~JustPushed(d)
  BY <1>2 DEF JustPushed
<1>13. ASSUME NEW d \in Conns, d # c
       PROVE  SameParser(d) /\ SameAnswers(d)
  BY <1>2, <1>3, <1>12, <1>13 DEF SameParser, SameAnswers, Busy
<1>14. Parsing'
  <2>1. ASSUME NEW d \in Conns, d # c PROVE ParsingOf(d)'
    BY <1>13, <2>1, ParsingKept DEF GateInv, Parsing
  <2>2. ParsingOf(c)'
    BY <1>2 DEF ParsingOf
  <2> QED BY <2>1, <2>2 DEF Parsing
<1>15. Answers'
  <2>1. SUFFICES ASSUME ~fault' PROVE \A d \in Conns : AnswersOf(d)'
    BY DEF Answers
  <2>2. ASSUME NEW d \in Conns, d # c PROVE AnswersOf(d)'
    BY <1>7, <1>13, <2>1, <2>2, AnswersKept DEF GateInv, Answers
  <2>3. AnswersOf(c)'
    <3>1. AnswersOf(c)
      BY <2>1 DEF GateInv, Answers
    <3>2. /\ Len(replies[c]) \in Nat /\ Len(output[c]) \in Nat
          /\ Len(output'[c]) = 0 /\ replies'[c] = replies[c]
      BY <1>2 DEF GateInv, TypeOK
    <3>3. \A r, o, k, l \in Nat : /\ r + o <= k /\ k <= l => r + 0 <= l
                                  /\ r + o < k /\ k <= l => r + 0 < l
      OBVIOUS
    <3>4. Len(replies[c]) + 0 <= packed'[c]
      BY <1>3, <3>1, <3>2, <3>3 DEF AnswersOf
    <3>5. ASSUME NEW p \in Places', EventAt(p)'.conn = c
          PROVE  Len(replies[c]) + 0 < packed'[c]
      <4>1. g[p] \in Places /\ EventAt(g[p]).conn = c
        BY <1>7, <3>5 DEF Carries
      <4>2. Len(replies[c]) + Len(output[c]) < packed[c]
        BY <3>1, <4>1 DEF AnswersOf
      <4> QED BY <1>3, <3>2, <3>3, <4>2
    <3> QED BY <1>2, <3>2, <3>4, <3>5 DEF AnswersOf
  <2> QED BY <2>2, <2>3
<1>16. RepliesMatchRequests'
  <2>1. SUFFICES ASSUME ~fault' PROVE RepliesMatchRequests'
    BY DEF RepliesMatchRequests
  <2>2. \A a \in Addrs : heap'[a].data \in {Null, heap'[a].conn}
    BY <1>2, <2>1 DEF GateInv, RepliesMatchRequests
  <2> QED BY <2>1, <2>2 DEF GateInv, RepliesMatchRequests
<1> QED BY <1>8, <1>9, <1>10, <1>11, <1>14, <1>15, <1>16

(* End of file, or an error: the Session of c is deleted. *)
LEMMA ErrCallbackPreserves ==
  ASSUME GateInv, NEW c \in Conns, ErrCallback(c)
  PROVE  GateInv'
<1>1. /\ pc = "callbacks" /\ ctx[c] # Null /\ DeleteSession(ctx[c])
      /\ UNCHANGED <<client, frames, written, replies, fed, off, packed, pc, cur, batch,
                     waiting, worker, handled, results, fault, crashed>>
  BY DEF GateInv, Bookkeeping, ErrCallback, Callback, netVars, poolVars
<1>2. /\ heap' \in [Addrs -> SessionType] /\ ctx' \in [Conns -> Addrs \cup {Null}]
      /\ output' \in [Conns -> Seq(Reply)]
      /\ ready' = ready \ {<<"read", c>>, <<"write", c>>}
      /\ ctx'[c] = Null /\ output'[c] = <<>>
      /\ \A d \in Conns : d # c => ctx'[d] = ctx[d] /\ output'[d] = output[d]
  BY <1>1, DeleteFacts
<1>3. TypeOK'
  BY <1>1, <1>2 DEF GateInv, TypeOK
<1>4. Bookkeeping'
  <2>1. \A d \in Conns : Unborn(d)' <=> Unborn(d)
    BY <1>1 DEF Unborn
  <2> QED BY <1>1, <1>2, <2>1 DEF GateInv, Bookkeeping
<1>5. Stream'
  BY <1>1, StreamKept DEF GateInv, Stream, SameStream
<1>6. packed'[c] >= packed[c]
  BY <1>1 DEF GateInv, TypeOK
<1>7. /\ CallbackOnLiveSession' /\ Parsing' /\ Travelling' /\ StaleOnlyAfterClose'
      /\ OneRequestInFlight' /\ Answers' /\ RepliesMatchRequests'
      /\ Abandoned => Abandoned'
  BY <1>1, <1>3, <1>6, DeletePreserves
<1>8. DroppedInPush' /\ FaultNeedsAbandonedRequest'
  BY <1>1, <1>7 DEF GateInv, DroppedInPush, FaultNeedsAbandonedRequest, Abandoned
<1> QED BY <1>3, <1>4, <1>5, <1>7, <1>8 DEF GateInv

-----------------------------------------------------------------------------
(* ReqCallback: a piece of the stream is read, and Pack is called. *)

(* Reading up to n and taking up to q.off keeps the stream's places. *)
LEMMA ReadStream ==
  ASSUME GateInv, NEW c \in Conns, NEW n \in (fed[c] + 1)..written[c], NEW q,
         Outcome(c, n, q),
         fed' = [fed EXCEPT ![c] = n], off' = [off EXCEPT ![c] = q.off],
         UNCHANGED <<client, frames, written>>,
         \A d \in Conns : d # c => packed'[d] = packed[d],
         At(packed'[c]) <= q.off
  PROVE  /\ fed' \in [Conns -> Nat] /\ off' \in [Conns -> Nat]
         /\ fed'[c] = n /\ off'[c] = q.off
         /\ \A d \in Conns : d # c => fed'[d] = fed[d] /\ off'[d] = off[d]
         /\ Stream'
<1>1. /\ fed \in [Conns -> Nat] /\ off \in [Conns -> Nat] /\ n \in Nat /\ q.off \in Nat
      /\ n <= written[c] /\ q.off <= n
  <2>1. fed \in [Conns -> Nat] /\ off \in [Conns -> Nat] /\ written \in [Conns -> Nat]
    BY DEF GateInv, TypeOK
  <2>2. q.off \in Nat /\ q.off <= n
    BY DEF Outcome, Stage
  <2> QED BY <2>1, <2>2
<1>2. /\ fed'[c] = n /\ off'[c] = q.off
      /\ \A d \in Conns : d # c => fed'[d] = fed[d] /\ off'[d] = off[d]
  BY <1>1
<1>3. ASSUME NEW d \in Conns, d # c PROVE StreamOf(d)'
  BY <1>2, <1>3, StreamKept DEF GateInv, Stream, SameStream
<1>4. StreamOf(c)'
  BY <1>1, <1>2 DEF GateInv, Stream, StreamOf
<1> QED BY <1>1, <1>2, <1>3, <1>4 DEF Stream

(* A read can only be of a request that is not answered. *)
LEMMA ReadIsOutstanding ==
  ASSUME GateInv, ~fault, NEW c \in Conns, packed[c] < Len(frames[c])
  PROVE  Len(replies[c]) < Len(frames[c])
<1>1. Len(replies[c]) + Len(output[c]) <= packed[c]
  BY DEF GateInv, Answers, AnswersOf
<1>2. /\ Len(replies[c]) \in Nat /\ Len(output[c]) \in Nat /\ packed[c] \in Nat
      /\ Len(frames[c]) \in Nat
  BY DEF GateInv, TypeOK
<1>3. \A r, o, k, l \in Nat : r + o <= k /\ k < l => r < l
  OBVIOUS
<1> QED BY <1>1, <1>2, <1>3

(* Pack threw: the client broke the protocol, and its request is abandoned. *)
LEMMA ReadThrowPreserves ==
  ASSUME GateInv, NEW c \in Conns, ctx[c] # Null, pc = "callbacks",
         NEW n \in (fed[c] + 1)..written[c], NEW q, Outcome(c, n, q),
         fed' = [fed EXCEPT ![c] = n], off' = [off EXCEPT ![c] = q.off],
         DeleteSession(ctx[c]), fault' = TRUE, crashed' \in BOOLEAN,
         UNCHANGED <<client, frames, written, replies, packed, pc, cur, batch,
                     waiting, worker, handled, results>>
  PROVE  GateInv'
<1>1. /\ heap' \in [Addrs -> SessionType] /\ ctx' \in [Conns -> Addrs \cup {Null}]
      /\ output' \in [Conns -> Seq(Reply)]
      /\ ready' = ready \ {<<"read", c>>, <<"write", c>>}
      /\ ctx'[c] = Null /\ output'[c] = <<>>
      /\ \A d \in Conns : d # c => ctx'[d] = ctx[d] /\ output'[d] = output[d]
  BY DeleteFacts
<1>2. At(packed'[c]) <= q.off /\ packed[c] < Len(frames[c])
  BY DEF Outcome
<1>3. /\ fed' \in [Conns -> Nat] /\ off' \in [Conns -> Nat] /\ Stream'
      /\ \A d \in Conns : d # c => fed'[d] = fed[d] /\ off'[d] = off[d]
  BY <1>2, ReadStream
<1>4. TypeOK'
  BY <1>1, <1>3 DEF GateInv, TypeOK
<1>5. ~Unborn(c) /\ \A d \in Conns : Unborn(d)' <=> Unborn(d)
  BY DEF GateInv, Bookkeeping, Unborn
<1>6. Bookkeeping'
  <2>1. \A d \in Conns : Unborn(d)' => d # c
    BY <1>5
  <2> QED BY <1>1, <1>3, <1>5, <2>1 DEF GateInv, Bookkeeping
<1>7. packed'[c] >= packed[c]
  BY DEF GateInv, TypeOK
<1>8. /\ CallbackOnLiveSession' /\ Parsing' /\ Travelling' /\ StaleOnlyAfterClose'
      /\ OneRequestInFlight' /\ Answers' /\ RepliesMatchRequests'
      /\ Abandoned => Abandoned'
  BY <1>3, <1>4, <1>7, DeletePreserves
<1>9. Abandoned'
  <2>1. CASE fault
    BY <1>8, <2>1 DEF GateInv, FaultNeedsAbandonedRequest, Abandoned
  <2>2. CASE ~fault
    <3>1. Len(replies[c]) < Len(frames[c])
      BY <1>2, <2>2, ReadIsOutstanding
    <3>2. Len(replies[c]) \in Nat /\ Len(frames[c]) \in Nat
      BY DEF GateInv, TypeOK
    <3> QED BY <1>1, <1>5, <3>1, <3>2 DEF Abandoned, Outstanding, Closed, Unborn
  <2> QED BY <2>1, <2>2
<1>10. DroppedInPush' /\ FaultNeedsAbandonedRequest'
  BY <1>9 DEF DroppedInPush, FaultNeedsAbandonedRequest, Abandoned
<1> QED BY <1>3, <1>4, <1>6, <1>8, <1>10 DEF GateInv

(* The queue was full: the Session is deleted, and set_state still to come. *)
LEMMA ReadOverflowPreserves ==
  ASSUME GateInv, NEW c \in Conns, ctx[c] # Null, pc = "callbacks",
         NEW n \in (fed[c] + 1)..written[c], NEW q, Outcome(c, n, q), q.out = "event",
         fed' = [fed EXCEPT ![c] = n], off' = [off EXCEPT ![c] = q.off],
         packed' = [packed EXCEPT ![c] = @ + 1], pc' = "pushed", cur' = ctx[c],
         DeleteSession(ctx[c]),
         UNCHANGED <<client, frames, written, replies, batch,
                     waiting, worker, handled, results, fault, crashed>>
  PROVE  GateInv'
<1>1. /\ heap' \in [Addrs -> SessionType] /\ ctx' \in [Conns -> Addrs \cup {Null}]
      /\ output' \in [Conns -> Seq(Reply)]
      /\ ready' = ready \ {<<"read", c>>, <<"write", c>>}
      /\ ctx'[c] = Null /\ output'[c] = <<>>
      /\ \A d \in Conns : d # c => ctx'[d] = ctx[d] /\ output'[d] = output[d]
  BY DeleteFacts
<1>2. /\ packed \in [Conns -> Nat] /\ packed' \in [Conns -> Nat]
      /\ packed'[c] = packed[c] + 1
      /\ \A d \in Conns : d # c => packed'[d] = packed[d]
  BY DEF GateInv, TypeOK
<1>3. /\ At(packed'[c]) <= q.off /\ packed[c] < Len(frames[c])
  <2>1. q.off = At(packed[c] + 1) /\ packed[c] < Len(frames[c]) /\ q.off \in Nat
    BY DEF Outcome, Stage
  <2> QED BY <1>2, <2>1
<1>4. /\ fed' \in [Conns -> Nat] /\ off' \in [Conns -> Nat] /\ Stream'
      /\ \A d \in Conns : d # c => fed'[d] = fed[d] /\ off'[d] = off[d]
  BY <1>2, <1>3, ReadStream
<1>5. ctx[c] \in Addrs
  BY CtxLive DEF GateInv
<1>6. TypeOK'
  BY <1>1, <1>2, <1>4, <1>5 DEF GateInv, TypeOK
<1>7. ~Unborn(c) /\ \A d \in Conns : Unborn(d)' <=> Unborn(d)
  BY DEF GateInv, Bookkeeping, Unborn
<1>8. Bookkeeping'
  <2>1. \A d \in Conns : Unborn(d)' => d # c
    BY <1>7
  <2>2. ASSUME NEW d \in Conns, Unborn(d)'
        PROVE  /\ ctx'[d] = Null /\ frames'[d] = <<>> /\ replies'[d] = <<>>
               /\ output'[d] = <<>> /\ packed'[d] = 0
               /\ written'[d] = 0 /\ fed'[d] = 0 /\ off'[d] = 0
    BY <1>1, <1>2, <1>4, <1>7, <2>1, <2>2 DEF GateInv, Bookkeeping
  <2>3. ASSUME NEW d \in Conns
        PROVE  /\ <<"accept", d>> \in ready' => client'[d] = "connecting"
               /\ <<"read", d>> \in ready' \/ <<"write", d>> \in ready' => ctx'[d] # Null
    BY <1>1 DEF GateInv, Bookkeeping
  <2>4. /\ cur' \in Addrs /\ batch' = <<>>
        /\ \A w \in Workers : handled'[w] => worker'[w] # Null
    BY <1>5 DEF GateInv, Bookkeeping
  <2> QED BY <2>2, <2>3, <2>4 DEF Bookkeeping
<1>9. packed'[c] >= packed[c]
  BY <1>2
<1>10. /\ CallbackOnLiveSession' /\ Parsing' /\ Travelling' /\ StaleOnlyAfterClose'
       /\ OneRequestInFlight' /\ Answers' /\ RepliesMatchRequests'
       /\ Abandoned => Abandoned'
  BY <1>2, <1>4, <1>6, <1>9, DeletePreserves
<1>11. Abandoned'
  <2>1. CASE fault
    BY <1>10, <2>1 DEF GateInv, FaultNeedsAbandonedRequest, Abandoned
  <2>2. CASE ~fault
    <3>1. Len(replies[c]) < Len(frames[c])
      BY <1>3, <2>2, ReadIsOutstanding
    <3>2. Len(replies[c]) \in Nat /\ Len(frames[c]) \in Nat
      BY DEF GateInv, TypeOK
    <3> QED BY <1>1, <1>7, <3>1, <3>2 DEF Abandoned, Outstanding, Closed, Unborn
  <2> QED BY <2>1, <2>2
<1>12. DroppedInPush' /\ FaultNeedsAbandonedRequest'
  BY <1>11 DEF DroppedInPush, FaultNeedsAbandonedRequest, Abandoned
<1> QED BY <1>4, <1>6, <1>8, <1>10, <1>12 DEF GateInv

(* Parsing goes on with the next piece: the Session is not HANDLING, and no *)
(* event points to it.                                                      *)
LEMMA ReadNullPreserves ==
  ASSUME GateInv, NEW c \in Conns, ctx[c] # Null, pc = "callbacks",
         NEW n \in (fed[c] + 1)..written[c], NEW q, Outcome(c, n, q), q.out = "null",
         fed' = [fed EXCEPT ![c] = n], off' = [off EXCEPT ![c] = q.off],
         heap' = [heap EXCEPT ![ctx[c]].parser = q.p],
         ready' = ready \ {<<"read", c>>},
         UNCHANGED <<client, frames, written, replies, ctx, packed, output, pc, cur,
                     batch, waiting, worker, handled, results, fault, crashed>>
  PROVE  GateInv'
<1> DEFINE a == ctx[c]
<1>1. a \in Addrs /\ heap[a].conn = c /\ heap[a] \in SessionType
  BY CtxLive DEF GateInv
<1>2. /\ q.p \in Parser /\ heap[a].parser.state # "HANDLING"
      /\ q.p.state \in {"PARSING_HEAD", "PARSING_BODY"}
      /\ At(packed'[c]) <= q.off
  BY DEF Outcome, Stage
<1>3. /\ heap' \in [Addrs -> SessionType] /\ heap'[a].parser = q.p
      /\ \A b \in Addrs : heap'[b].conn = heap[b].conn /\ heap'[b].data = heap[b].data
      /\ \A b \in Addrs : b # a => heap'[b] = heap[b]
  <2>1. heap \in [Addrs -> SessionType]
    BY DEF GateInv, TypeOK
  <2> QED BY <1>1, <1>2, <2>1 DEF SessionType
<1>4. /\ fed' \in [Conns -> Nat] /\ off' \in [Conns -> Nat] /\ Stream'
      /\ off'[c] = q.off
      /\ \A d \in Conns : d # c => fed'[d] = fed[d] /\ off'[d] = off[d]
  BY <1>2, ReadStream
<1> HIDE DEF a
<1>5. TypeOK'
  BY <1>3, <1>4 DEF GateInv, TypeOK
<1>6. ~Unborn(c) /\ \A d \in Conns : Unborn(d)' <=> Unborn(d)
  BY DEF GateInv, Bookkeeping, Unborn
<1>7. Bookkeeping'
  <2>1. \A d \in Conns : Unborn(d)' => d # c
    BY <1>6
  <2> QED BY <1>4, <1>6, <2>1 DEF GateInv, Bookkeeping
<1>8. Regular
  <2>1. \A d \in Conns : packed[d] \in Nat /\ Len(frames[d]) \in Nat
    BY DEF GateInv, TypeOK
  <2> QED BY <1>3, <1>6, <2>1 DEF Regular
<1>9. PICK g : Carries(g)
  BY SamePlaces
<1>10. Travelling' /\ StaleOnlyAfterClose'
  BY <1>5, <1>8, <1>9, RegularKeeps DEF GateInv
<1>11. OneRequestInFlight'
  <2>1. ASSUME NEW e \in Event, Claimed(e) PROVE Claimed(e)'
    <3>1. e.addr \in Addrs
      BY DEF Event
    <3>2. e.addr # a
      BY <1>2, <2>1 DEF Claimed
    <3> QED BY <1>3, <2>1, <3>1, <3>2 DEF Claimed
  <2> QED BY <1>8, <1>9, <2>1, InFlightKept DEF GateInv
<1>12. \A d : ~JustPushed(d)' /\ ~JustPushed(d)
  BY DEF JustPushed
<1>13. \A d \in Conns : ctx[d] # Null => ctx[d] \in Addrs /\ (d # c => ctx[d] # a)
  BY <1>1 DEF GateInv, TypeOK, CallbackOnLiveSession
<1>14. Parsing'
  <2>1. ASSUME NEW d \in Conns, d # c PROVE ParsingOf(d)'
    <3>1. SameParser(d)
      BY <1>3, <1>4, <1>12, <1>13, <2>1 DEF SameParser
    <3> QED BY <3>1, ParsingKept DEF GateInv, Parsing
  <2>2. ParsingOf(c)'
    <3>1. heap'[ctx'[c]].parser = q.p
      BY <1>3 DEF a
    <3> QED BY <1>4, <1>12, <3>1 DEF Outcome, ParsingOf
  <2> QED BY <2>1, <2>2 DEF Parsing
<1>15. Answers'
  <2>1. ASSUME NEW d \in Conns PROVE SameAnswers(d)
    <3>1. CASE d = c
      <4>1. ~Busy(c) /\ ~Busy(c)'
        BY <1>2, <1>3, <1>12 DEF Busy, a
      <4> QED BY <3>1, <4>1 DEF SameAnswers
    <3>2. CASE d # c
      BY <1>3, <1>12, <1>13, <3>2 DEF SameAnswers, Busy
    <3> QED BY <3>1, <3>2
  <2> QED BY <1>9, <2>1, AnswersKept DEF GateInv, Answers
<1>16. CallbackOnLiveSession'
  <2>1. \A b \in Addrs : Live(b)' <=> Live(b)
    BY <1>3 DEF Live
  <2> QED BY <1>3, <1>13, <2>1 DEF GateInv, CallbackOnLiveSession
<1>17. RepliesMatchRequests'
  BY <1>3 DEF GateInv, RepliesMatchRequests
<1>18. DroppedInPush' /\ FaultNeedsAbandonedRequest'
  <2>1. Abandoned => Abandoned'
    BY <1>5, <1>8, AbandonedStays DEF GateInv
  <2> QED BY <2>1 DEF GateInv, DroppedInPush, FaultNeedsAbandonedRequest, Abandoned
<1> QED BY <1>4, <1>5, <1>7, <1>10, <1>11, <1>14, <1>15, <1>16, <1>17, <1>18 DEF GateInv

(* Push: the new event is the last of the queue, the others stay. *)
LEMMA PushPlaces ==
  ASSUME TypeOK, NEW e \in Event, waiting' = Append(waiting, e),
         UNCHANGED <<worker, results, batch>>
  PROVE  \E z : \A p \in Places' : \/ p = z /\ EventAt(p)' = e
                                   \/ p \in Places /\ EventAt(p)' = EventAt(p)
<1>1. /\ Len(waiting) \in Nat /\ Len(waiting') = Len(waiting) + 1
      /\ waiting'[Len(waiting) + 1] = e
      /\ \A i \in 1..Len(waiting) : waiting'[i] = waiting[i]
  BY DEF TypeOK
<1> DEFINE z == <<"waiting", Len(waiting) + 1>>
<1>2. ASSUME NEW p \in Places'
      PROVE  \/ p = z /\ EventAt(p)' = e
             \/ p \in Places /\ EventAt(p)' = EventAt(p)
  <2>1. CASE p \in {<<"waiting", i>> : i \in 1..Len(waiting')}
    <3>1. PICK i \in 1..Len(waiting') : p = <<"waiting", i>>
      BY <2>1
    <3>2. CASE i = Len(waiting) + 1
      BY <1>1, <3>1, <3>2 DEF EventAt
    <3>3. CASE i \in 1..Len(waiting)
      BY <1>1, <3>1, <3>3 DEF Places, EventAt
    <3> QED BY <1>1, <3>2, <3>3
  <2>2. CASE p \in {<<"worker", v>> : v \in {v \in Workers : worker[v] # Null}}
    BY <2>2 DEF Places, EventAt
  <2>3. CASE p \in {<<"results", i>> : i \in 1..Len(results)}
    BY <2>3 DEF Places, EventAt
  <2>4. CASE p \in {<<"batch", i>> : i \in 1..Len(batch)}
    BY <2>4 DEF Places, EventAt
  <2>5. \/ p \in {<<"waiting", i>> : i \in 1..Len(waiting')}
        \/ p \in {<<"worker", v>> : v \in {v \in Workers : worker[v] # Null}}
        \/ p \in {<<"results", i>> : i \in 1..Len(results)}
        \/ p \in {<<"batch", i>> : i \in 1..Len(batch)}
    BY DEF Places
  <2> HIDE DEF z
  <2> QED BY <2>1, <2>2, <2>3, <2>4, <2>5
<1> HIDE DEF z
<1> QED BY <1>2

(* A Session that is not HANDLING has no event in the pool, unless a       *)
(* deleted Session was used.                                               *)
LEMMA IdleHasNoEvent ==
  ASSUME GateInv, ~fault, pc # "pushed", NEW c \in Conns, ctx[c] # Null,
         heap[ctx[c]].parser.state # "HANDLING", NEW p \in Places
  PROVE  EventAt(p).conn # c
<1> SUFFICES ASSUME EventAt(p).conn = c PROVE FALSE
  OBVIOUS
<1>1. EventAt(p).addr \in Addrs
  BY PlaceTypes DEF GateInv
<1>2. heap[EventAt(p).addr].conn = c
  BY DEF GateInv, StaleOnlyAfterClose
<1>3. EventAt(p).addr = ctx[c]
  BY <1>1, <1>2, NetGateAssumption DEF GateInv, CallbackOnLiveSession, Live
<1> QED BY <1>2, <1>3 DEF GateInv, OneRequestInFlight

(* A request was packed and pushed: its connection had none in the pool. *)
LEMMA ReadPushPreserves ==
  ASSUME GateInv, NEW c \in Conns, ctx[c] # Null, pc = "callbacks",
         NEW n \in (fed[c] + 1)..written[c], NEW q, Outcome(c, n, q), q.out = "event",
         fed' = [fed EXCEPT ![c] = n], off' = [off EXCEPT ![c] = q.off],
         packed' = [packed EXCEPT ![c] = @ + 1], pc' = "pushed", cur' = ctx[c],
         waiting' = Append(waiting, [addr |-> ctx[c], conn |-> c, n |-> packed'[c]]),
         heap' = [heap EXCEPT ![ctx[c]].parser = q.p],
         ready' = ready \ {<<"read", c>>},
         UNCHANGED <<client, frames, written, replies, ctx, output, batch,
                     worker, handled, results, fault, crashed>>
  PROVE  GateInv'
<1> DEFINE a == ctx[c]
           e == [addr |-> ctx[c], conn |-> c, n |-> packed'[c]]
<1>1. a \in Addrs /\ heap[a].conn = c /\ heap[a] \in SessionType
  BY CtxLive DEF GateInv
<1>2. /\ q.p \in Parser /\ heap[a].parser.state # "HANDLING"
      /\ q.off = At(packed[c] + 1) /\ q.p.req_buf.buf = FALSE
      /\ q.p.req_buf.last <= q.p.req_buf.total /\ q.off \in Nat
  BY DEF Outcome, Stage
<1>3. /\ heap' \in [Addrs -> SessionType] /\ heap'[a].parser = q.p
      /\ \A b \in Addrs : heap'[b].conn = heap[b].conn /\ heap'[b].data = heap[b].data
      /\ \A b \in Addrs : b # a => heap'[b] = heap[b]
  <2>1. heap \in [Addrs -> SessionType]
    BY DEF GateInv, TypeOK
  <2> QED BY <1>1, <1>2, <2>1 DEF SessionType
<1>4. /\ packed \in [Conns -> Nat] /\ packed' \in [Conns -> Nat]
      /\ packed'[c] = packed[c] + 1
      /\ \A d \in Conns : d # c => packed'[d] = packed[d]
      /\ \A d \in Conns : packed[d] <= packed'[d]
  <2>1. /\ packed \in [Conns -> Nat] /\ packed' \in [Conns -> Nat]
        /\ packed'[c] = packed[c] + 1
        /\ \A d \in Conns : d # c => packed'[d] = packed[d]
    BY DEF GateInv, TypeOK
  <2>2. \A d \in Conns : packed[d] \in Nat
    BY <2>1
  <2> QED BY <2>1, <2>2
<1>5. At(packed'[c]) <= q.off
  BY <1>2, <1>4
<1>6. /\ fed' \in [Conns -> Nat] /\ off' \in [Conns -> Nat] /\ Stream'
      /\ off'[c] = q.off
      /\ \A d \in Conns : d # c => fed'[d] = fed[d] /\ off'[d] = off[d]
  BY <1>4, <1>5, ReadStream
<1>7. e \in Event /\ e.addr = a /\ e.conn = c /\ e.n = packed'[c]
  BY <1>1, <1>4 DEF Event
<1>8. waiting' = Append(waiting, e)
  OBVIOUS
<1> HIDE DEF a, e
<1>9. TypeOK'
  <2>1. waiting' \in Seq(Event) /\ cur' \in Addrs
    BY <1>1, <1>7, <1>8 DEF GateInv, TypeOK, a
  <2> QED BY <1>3, <1>4, <1>6, <2>1 DEF GateInv, TypeOK
<1>10. ~Unborn(c) /\ \A d \in Conns : Unborn(d)' <=> Unborn(d)
  BY DEF GateInv, Bookkeeping, Unborn
<1>11. Bookkeeping'
  <2>1. \A d \in Conns : Unborn(d)' => d # c
    BY <1>10
  <2>2. ASSUME NEW d \in Conns, Unborn(d)'
        PROVE  /\ ctx'[d] = Null /\ frames'[d] = <<>> /\ replies'[d] = <<>>
               /\ output'[d] = <<>> /\ packed'[d] = 0
               /\ written'[d] = 0 /\ fed'[d] = 0 /\ off'[d] = 0
    BY <1>4, <1>6, <1>10, <2>1, <2>2 DEF GateInv, Bookkeeping
  <2>3. ASSUME NEW d \in Conns
        PROVE  /\ <<"accept", d>> \in ready' => client'[d] = "connecting"
               /\ <<"read", d>> \in ready' \/ <<"write", d>> \in ready' => ctx'[d] # Null
    BY DEF GateInv, Bookkeeping
  <2>4. /\ cur' \in Addrs /\ batch' = <<>>
        /\ \A w \in Workers : handled'[w] => worker'[w] # Null
    BY <1>1 DEF GateInv, Bookkeeping, a
  <2> QED BY <2>2, <2>3, <2>4 DEF Bookkeeping
<1>12. Regular
  <2>1. \A d \in Conns : Len(frames[d]) \in Nat
    BY DEF GateInv, TypeOK
  <2> QED BY <1>3, <1>4, <1>10, <2>1 DEF Regular
<1>13. PICK z : \A p \in Places' : \/ p = z /\ EventAt(p)' = e
                                   \/ p \in Places /\ EventAt(p)' = EventAt(p)
  BY <1>7, <1>8, PushPlaces DEF GateInv
<1>14. ~fault => \A p \in Places : EventAt(p).conn # c
  BY <1>2, IdleHasNoEvent DEF a
<1>15. Travelling' /\ StaleOnlyAfterClose'
  <2>1. ASSUME NEW p \in Places, NEW f \in Event, f = EventAt(p)
        PROVE  /\ client'[f.conn] \notin {"new", "connecting"}
               /\ 1 <= f.n /\ f.n <= packed'[f.conn]
               /\ heap'[f.addr].conn = f.conn \/ ctx'[f.conn] = Null
               /\ f.conn = c => f.n # e.n
    <3>1. /\ f.addr \in Addrs /\ f.conn \in Conns /\ f.n \in Nat
      BY <2>1, PlaceTypes DEF GateInv
    <3>2. /\ ~Unborn(f.conn) /\ 1 <= f.n /\ f.n <= packed[f.conn]
          /\ heap[f.addr].conn = f.conn \/ ctx[f.conn] = Null
      BY <2>1 DEF GateInv, Travelling, StaleOnlyAfterClose
    <3>3. packed[f.conn] \in Nat /\ packed'[f.conn] \in Nat /\ packed[f.conn] <= packed'[f.conn]
      BY <1>4, <3>1
    <3>4. f.n <= packed'[f.conn]
      BY <3>1, <3>2, <3>3
    <3>5. f.conn = c => f.n # e.n
      BY <1>4, <1>7, <3>1, <3>2, <3>3
    <3> QED BY <1>3, <3>1, <3>2, <3>4, <3>5 DEF Unborn
  <2>2. /\ client'[e.conn] \notin {"new", "connecting"}
        /\ 1 <= e.n /\ e.n <= packed'[e.conn]
        /\ heap'[e.addr].conn = e.conn
    <3>1. 1 <= e.n /\ e.n <= packed'[e.conn]
      BY <1>4, <1>7
    <3> QED BY <1>1, <1>3, <1>7, <1>10, <3>1 DEF Unborn
  <2>3. \A p \in Places : EventAt(p) \in Event
    BY PlaceTypes DEF GateInv
  <2>4. ASSUME NEW p \in Places'
        PROVE  /\ client'[EventAt(p)'.conn] \notin {"new", "connecting"}
               /\ 1 <= EventAt(p)'.n /\ EventAt(p)'.n <= packed'[EventAt(p)'.conn]
               /\ \/ heap'[EventAt(p)'.addr].conn = EventAt(p)'.conn
                  \/ ctx'[EventAt(p)'.conn] = Null
    BY <1>13, <2>1, <2>2, <2>3
  <2>5. ASSUME NEW p \in Places', NEW r \in Places',
               EventAt(p)'.conn = EventAt(r)'.conn, EventAt(p)'.n = EventAt(r)'.n
        PROVE  p = r
    <3>1. \A s \in Places : EventAt(s).conn = c => EventAt(s).n # e.n
      BY <2>1, <2>3
    <3>2. CASE p \in Places /\ r \in Places /\ EventAt(p)' = EventAt(p) /\ EventAt(r)' = EventAt(r)
      BY <2>5, <3>2 DEF GateInv, Travelling
    <3> QED BY <1>7, <1>13, <2>5, <3>1, <3>2
  <2> QED BY <2>4, <2>5 DEF Travelling, StaleOnlyAfterClose, Unborn
<1>16. OneRequestInFlight'
  <2> SUFFICES ASSUME ~fault' PROVE OneRequestInFlight'
    BY DEF OneRequestInFlight
  <2>1. \A p \in Places : EventAt(p).conn # c /\ EventAt(p) \in Event
    BY <1>14, PlaceTypes DEF GateInv
  <2>2. ASSUME NEW p \in Places', NEW r \in Places', EventAt(p)'.conn = EventAt(r)'.conn
        PROVE  p = r
    <3>1. CASE p \in Places /\ r \in Places /\ EventAt(p)' = EventAt(p) /\ EventAt(r)' = EventAt(r)
      BY <2>2, <3>1 DEF GateInv, OneRequestInFlight
    <3> QED BY <1>7, <1>13, <2>1, <2>2, <3>1
  <2>3. ASSUME NEW p \in Places', heap'[EventAt(p)'.addr].conn = EventAt(p)'.conn
        PROVE  \/ heap'[EventAt(p)'.addr].parser.state = "HANDLING"
               \/ (pc' = "pushed" /\ cur' = EventAt(p)'.addr)
    <3>1. CASE EventAt(p)' = e
      BY <1>7, <3>1 DEF a
    <3>2. CASE p \in Places /\ EventAt(p)' = EventAt(p)
      <4>1. PICK f \in Event : f = EventAt(p) /\ f = EventAt(p)'
        BY <2>1, <3>2
      <4>2. f.addr \in Addrs /\ heap[f.addr].conn = f.conn
        BY <1>3, <2>3, <4>1 DEF Event
      <4>3. heap[f.addr].parser.state = "HANDLING"
        BY <3>2, <4>1, <4>2 DEF GateInv, OneRequestInFlight
      <4> QED BY <1>2, <1>3, <4>1, <4>2, <4>3
    <3> QED BY <1>13, <3>1, <3>2
  <2> QED BY <2>2, <2>3 DEF OneRequestInFlight
<1>17. \A d : ~JustPushed(d)
  BY DEF JustPushed
<1>18. \A d \in Conns : ctx[d] # Null => ctx[d] \in Addrs /\ (d # c => ctx[d] # a)
  BY <1>1 DEF GateInv, TypeOK, CallbackOnLiveSession
<1>19. JustPushed(c)' /\ \A d \in Conns : d # c /\ ctx[d] # Null => ~JustPushed(d)'
  BY <1>18 DEF JustPushed, a
<1>20. Parsing'
  <2>1. ASSUME NEW d \in Conns, d # c PROVE ParsingOf(d)'
    <3>1. SameParser(d)
      BY <1>3, <1>4, <1>6, <1>17, <1>18, <1>19, <2>1 DEF SameParser
    <3> QED BY <3>1, ParsingKept DEF GateInv, Parsing
  <2>2. ParsingOf(c)'
    <3>1. heap'[ctx'[c]].parser = q.p
      BY <1>3 DEF a
    <3>2. off'[c] = At(packed'[c])
      BY <1>2, <1>4, <1>6
    <3> QED BY <1>2, <1>19, <3>1, <3>2 DEF ParsingOf
  <2> QED BY <2>1, <2>2 DEF Parsing
<1>21. Answers'
  <2> SUFFICES ASSUME ~fault' PROVE \A d \in Conns : AnswersOf(d)'
    BY DEF Answers
  <2>1. ASSUME NEW d \in Conns, d # c PROVE AnswersOf(d)'
    <3>1. SameAnswers(d)
      BY <1>3, <1>4, <1>17, <1>18, <1>19, <2>1 DEF SameAnswers, Busy
    <3>2. OldEventsOf(d)
      BY <1>7, <1>13, <2>1 DEF OldEventsOf
    <3> QED BY <3>1, <3>2, AnswersKeptOf DEF GateInv, Answers
  <2>2. AnswersOf(c)'
    <3>1. AnswersOf(c)
      BY DEF GateInv, Answers
    <3>2. Len(replies[c]) \in Nat /\ Len(output[c]) \in Nat /\ packed[c] \in Nat
      BY DEF GateInv, TypeOK
    <3>3. Len(replies[c]) + Len(output[c]) < packed[c] + 1
      <4>1. \A r, o, k \in Nat : r + o <= k => r + o < k + 1
        OBVIOUS
      <4> QED BY <3>1, <3>2, <4>1 DEF AnswersOf
    <3>4. Len(replies[c]) + Len(output[c]) <= packed[c] + 1
      <4>1. \A r, o, k \in Nat : r + o < k => r + o <= k
        OBVIOUS
      <4>2. packed[c] + 1 \in Nat
        BY <3>2
      <4> QED BY <3>2, <3>3, <4>1, <4>2
    <3>5. ~Busy(c) /\ Busy(c)'
      BY <1>2, <1>17, <1>19 DEF Busy, a
    <3>6. \A p \in Places' : EventAt(p)'.conn = c => EventAt(p)'.n = packed'[c]
      BY <1>7, <1>13, <1>14
    <3> QED BY <1>4, <3>1, <3>3, <3>4, <3>5, <3>6 DEF AnswersOf
  <2> QED BY <2>1, <2>2
<1>22. CallbackOnLiveSession'
  <2>1. \A b \in Addrs : Live(b)' <=> Live(b)
    BY <1>3 DEF Live
  <2> QED BY <1>3, <1>18, <2>1 DEF GateInv, CallbackOnLiveSession
<1>23. RepliesMatchRequests'
  BY <1>3 DEF GateInv, RepliesMatchRequests
<1>24. DroppedInPush' /\ FaultNeedsAbandonedRequest'
  <2>1. Abandoned => Abandoned'
    BY <1>9, <1>12, AbandonedStays DEF GateInv
  <2>2. Live(cur)'
    BY <1>1, <1>3, NetGateAssumption DEF Live, a
  <2> QED BY <2>1, <2>2 DEF GateInv, DroppedInPush, FaultNeedsAbandonedRequest, Abandoned
<1> QED BY <1>6, <1>9, <1>11, <1>15, <1>16, <1>20, <1>21, <1>22, <1>23, <1>24 DEF GateInv

(* ReqCallback: one of the four cases above. *)
LEMMA ReqCallbackPreserves ==
  ASSUME GateInv, NEW c \in Conns, ReqCallback(c)
  PROVE  GateInv'
<1>1. pc = "callbacks" /\ ctx[c] # Null
  BY DEF GateInv, Bookkeeping, ReqCallback, Callback
<1>2. PICK n \in (fed[c] + 1)..written[c] : ReqNotPacked(c, n) \/ ReqPacked(c, n)
  BY DEF ReqCallback
<1> DEFINE q == Pack(heap[ctx[c]].parser, off[c], n, frames[c])
<1>3. Outcome(c, n, q)
  BY <1>1, ReadOutcome
<1>4. CASE ReqNotPacked(c, n)
  <2>1. /\ fed' = [fed EXCEPT ![c] = n] /\ off' = [off EXCEPT ![c] = q.off]
        /\ UNCHANGED <<client, frames, written, replies, packed, pc, cur, batch,
                       waiting, worker, handled, results>>
        /\ \/ /\ q.out = "null" /\ heap' = [heap EXCEPT ![ctx[c]].parser = q.p]
              /\ ready' = ready \ {<<"read", c>>}
              /\ UNCHANGED <<ctx, output, fault, crashed>>
           \/ /\ DeleteSession(ctx[c]) /\ fault' = TRUE /\ crashed' \in BOOLEAN
    BY <1>4 DEF ReqNotPacked, NoFault, UseAfterDelete, netVars, poolVars
  <2> HIDE DEF q
  <2>2. CASE q.out = "null" /\ heap' = [heap EXCEPT ![ctx[c]].parser = q.p]
             /\ ready' = ready \ {<<"read", c>>} /\ UNCHANGED <<ctx, output, fault, crashed>>
    BY <1>1, <1>3, <2>1, <2>2, ReadNullPreserves
  <2>3. CASE DeleteSession(ctx[c]) /\ fault' = TRUE /\ crashed' \in BOOLEAN
    BY <1>1, <1>3, <2>1, <2>3, ReadThrowPreserves
  <2> QED BY <2>1, <2>2, <2>3
<1>5. CASE ReqPacked(c, n)
  <2>1. /\ q.out = "event" /\ fed' = [fed EXCEPT ![c] = n]
        /\ off' = [off EXCEPT ![c] = q.off] /\ packed' = [packed EXCEPT ![c] = @ + 1]
        /\ pc' = "pushed" /\ cur' = ctx[c]
        /\ UNCHANGED <<client, frames, written, replies, batch, worker, handled,
                       results, fault, crashed>>
        /\ \/ /\ waiting' = Append(waiting, [addr |-> ctx[c], conn |-> c, n |-> packed'[c]])
              /\ heap' = [heap EXCEPT ![ctx[c]].parser = q.p]
              /\ ready' = ready \ {<<"read", c>>} /\ UNCHANGED <<ctx, output>>
           \/ DeleteSession(ctx[c]) /\ waiting' = waiting
    BY <1>5 DEF ReqPacked, Push, NoFault, netVars
  <2> HIDE DEF q
  <2>2. CASE /\ waiting' = Append(waiting, [addr |-> ctx[c], conn |-> c, n |-> packed'[c]])
             /\ heap' = [heap EXCEPT ![ctx[c]].parser = q.p]
             /\ ready' = ready \ {<<"read", c>>} /\ UNCHANGED <<ctx, output>>
    BY <1>1, <1>3, <2>1, <2>2, ReadPushPreserves
  <2>3. CASE DeleteSession(ctx[c]) /\ waiting' = waiting
    BY <1>1, <1>3, <2>1, <2>3, ReadOverflowPreserves
  <2> QED BY <2>1, <2>2, <2>3
<1> QED BY <1>2, <1>4, <1>5

-----------------------------------------------------------------------------
(* set_state(HANDLING), on the Session whose request was just pushed. *)
LEMMA SetHandlingPreserves ==
  ASSUME GateInv, SetHandling
  PROVE  GateInv'
<1>1. /\ pc = "pushed" /\ pc' = "callbacks" /\ cur' = Null /\ cur \in Addrs
      /\ UNCHANGED <<client, frames, written, replies, ctx, fed, off, packed, output,
                     ready, batch, waiting, worker, handled, results>>
  BY DEF GateInv, Bookkeeping, SetHandling, netVars, bevVars, poolVars
<1>2. \/ /\ Live(cur) /\ heap' = [heap EXCEPT ![cur].parser.state = "HANDLING"]
         /\ fault' = fault /\ crashed' = crashed
      \/ ~Live(cur) /\ heap' = heap /\ fault' = TRUE /\ crashed' \in BOOLEAN
  BY DEF SetHandling, NoFault, UseAfterDelete
<1>3. heap \in [Addrs -> SessionType] /\ ctx \in [Conns -> Addrs \cup {Null}]
  BY DEF GateInv, TypeOK
<1>4. /\ heap' \in [Addrs -> SessionType]
      /\ \A b \in Addrs : heap'[b].conn = heap[b].conn /\ heap'[b].data = heap[b].data
      /\ \A b \in Addrs : b # cur => heap'[b] = heap[b]
      /\ Live(cur) => /\ heap'[cur].parser.state = "HANDLING"
                      /\ heap'[cur].parser.req_buf = heap[cur].parser.req_buf
      /\ ~Live(cur) => heap' = heap
  <2>1. CASE Live(cur)
    <3>1. heap' = [heap EXCEPT ![cur].parser.state = "HANDLING"]
      BY <1>2, <2>1
    <3>2. heap[cur] \in SessionType /\ heap[cur].parser \in Parser
      BY <1>1, <1>3 DEF SessionType
    <3>3. [heap[cur] EXCEPT !.parser.state = "HANDLING"] \in SessionType
      <4>1. "HANDLING" \in State
        BY DEF State
      <4>2. [heap[cur].parser EXCEPT !.state = "HANDLING"] \in Parser
        BY <3>2, <4>1 DEF Parser
      <4> QED BY <3>2, <4>2 DEF SessionType
    <3>4. heap' = [heap EXCEPT ![cur] = [heap[cur] EXCEPT !.parser.state = "HANDLING"]]
      BY <1>1, <1>3, <3>1
    <3>5. heap' \in [Addrs -> SessionType]
      BY <1>1, <1>3, <3>3, <3>4
    <3>6. \A b \in Addrs : b # cur => heap'[b] = heap[b]
      BY <1>3, <3>4
    <3>7. /\ heap'[cur].conn = heap[cur].conn /\ heap'[cur].data = heap[cur].data
          /\ heap'[cur].parser.state = "HANDLING"
          /\ heap'[cur].parser.req_buf = heap[cur].parser.req_buf
      BY <1>1, <1>3, <3>2, <3>4 DEF SessionType, Parser
    <3> QED BY <2>1, <3>5, <3>6, <3>7
  <2>2. CASE ~Live(cur)
    BY <1>2, <1>3, <2>2
  <2> QED BY <2>1, <2>2
<1>5. fault \in BOOLEAN /\ fault' \in BOOLEAN /\ crashed' \in BOOLEAN /\ (fault => fault')
  BY <1>2 DEF GateInv, TypeOK
<1>6. TypeOK'
  BY <1>1, <1>4, <1>5 DEF GateInv, TypeOK
<1>7. \A c \in Conns : Unborn(c)' <=> Unborn(c)
  BY <1>1 DEF Unborn
<1>8. Bookkeeping'
  BY <1>1, <1>7 DEF GateInv, Bookkeeping
<1>9. Regular
  <2>1. \A c \in Conns : packed[c] \in Nat /\ Len(frames[c]) \in Nat
    BY DEF GateInv, TypeOK
  <2> QED BY <1>1, <1>4, <1>7, <2>1 DEF Regular
<1>10. PICK g : Carries(g)
  BY <1>1, SamePlaces
<1>11. Travelling' /\ StaleOnlyAfterClose'
  BY <1>6, <1>9, <1>10, RegularKeeps DEF GateInv
<1>12. OneRequestInFlight'
  <2>1. ASSUME ~fault', NEW e \in Event, Claimed(e) PROVE Claimed(e)'
    <3>1. e.addr \in Addrs /\ Live(cur)
      BY <1>2, <2>1 DEF Event
    <3> QED BY <1>1, <1>4, <2>1, <3>1 DEF Claimed
  <2> QED BY <1>5, <1>9, <1>10, <2>1, InFlightKept DEF GateInv
<1>13. Stream'
  BY <1>1, StreamKept DEF GateInv, Stream, SameStream
<1>14. \A c : ~JustPushed(c)'
  BY <1>1 DEF JustPushed
<1>15. ASSUME NEW c \in Conns, ctx[c] # Null
       PROVE  /\ ctx[c] \in Addrs /\ Live(ctx[c])
              /\ JustPushed(c) <=> ctx[c] = cur
  BY <1>1, <1>15, CtxLive DEF GateInv, JustPushed
<1>16. Parsing'
  <2>1. ASSUME NEW c \in Conns PROVE ParsingOf(c)'
    <3>1. CASE ctx[c] # Null /\ ctx[c] = cur
      <4>1. JustPushed(c) /\ Live(cur)
        BY <1>15, <3>1
      <4>2. /\ heap[cur].parser.req_buf.last <= heap[cur].parser.req_buf.total
            /\ heap[cur].parser.req_buf.buf = FALSE /\ off[c] = At(packed[c])
        BY <3>1, <4>1 DEF GateInv, Parsing, ParsingOf
      <4>3. heap'[ctx'[c]].parser.req_buf = heap[cur].parser.req_buf
        BY <1>1, <1>4, <3>1, <4>1
      <4>4. heap'[ctx'[c]].parser.state = "HANDLING"
        BY <1>1, <1>4, <3>1, <4>1
      <4> QED BY <1>1, <4>2, <4>3, <4>4 DEF ParsingOf
    <3>2. CASE ctx[c] # Null /\ ctx[c] # cur
      <4>1. SameParser(c)
        BY <1>1, <1>4, <1>14, <1>15, <3>2 DEF SameParser
      <4> QED BY <1>5, <4>1, ParsingKept DEF GateInv, Parsing
    <3>3. CASE ctx[c] = Null
      BY <1>1, <3>3 DEF ParsingOf
    <3> QED BY <3>1, <3>2, <3>3
  <2> QED BY <2>1 DEF Parsing
<1>17. Answers'
  <2> SUFFICES ASSUME ~fault' PROVE \A c \in Conns : AnswersOf(c)'
    BY DEF Answers
  <2>1. Live(cur) /\ ~fault
    BY <1>2, <1>5
  <2>2. ASSUME NEW c \in Conns, ctx[c] # Null PROVE Busy(c)' <=> Busy(c)
    <3>1. CASE ctx[c] = cur
      BY <1>1, <1>4, <1>15, <2>1, <2>2, <3>1 DEF Busy
    <3>2. CASE ctx[c] # cur
      BY <1>1, <1>4, <1>14, <1>15, <2>2, <3>2 DEF Busy
    <3> QED BY <3>1, <3>2
  <2>3. \A c \in Conns : SameAnswers(c)
    BY <1>1, <2>2 DEF SameAnswers
  <2> QED BY <1>10, <2>1, <2>3, AnswersKept DEF GateInv, Answers
<1>18. CallbackOnLiveSession'
  <2>1. \A b \in Addrs : Live(b)' <=> Live(b)
    BY <1>4 DEF Live
  <2> QED BY <1>1, <1>4, <1>15, <2>1 DEF GateInv, CallbackOnLiveSession
<1>19. RepliesMatchRequests'
  BY <1>1, <1>4, <1>5 DEF GateInv, RepliesMatchRequests
<1>20. DroppedInPush' /\ FaultNeedsAbandonedRequest'
  <2>1. Abandoned => Abandoned'
    BY <1>6, <1>9, AbandonedStays DEF GateInv
  <2>2. fault' => fault \/ ~Live(cur)
    BY <1>2
  <2> QED BY <1>1, <2>1, <2>2 DEF GateInv, DroppedInPush, FaultNeedsAbandonedRequest, Abandoned
<1> QED BY <1>6, <1>8, <1>11, <1>12, <1>13, <1>16, <1>17, <1>18, <1>19, <1>20 DEF GateInv

-----------------------------------------------------------------------------
(* Moving the first k responses of s behind r. *)
LEMMA MoveResponses ==
  ASSUME NEW r \in Seq(Reply), NEW s \in Seq(Reply), NEW k \in 1..Len(s)
  PROVE  LET t == SubSeq(s, k + 1, Len(s))
             m == r \o SubSeq(s, 1, k)
         IN  /\ t \in Seq(Reply) /\ m \in Seq(Reply)
             /\ Len(t) \in Nat /\ k + Len(t) = Len(s)
             /\ Len(m) = Len(r) + k
             /\ \A i \in 1..Len(t) : k + i \in 1..Len(s) /\ t[i] = s[k + i]
             /\ \A i \in 1..Len(r) : m[i] = r[i]
             /\ \A i \in 1..Len(m) : i \in 1..Len(r) \/
                  \E j \in 1..Len(s) : i = Len(r) + j /\ m[i] = s[j]
<1> DEFINE t == SubSeq(s, k + 1, Len(s))
           h == SubSeq(s, 1, k)
           m == r \o h
<1>1. /\ Len(s) \in Nat /\ Len(r) \in Nat /\ k \in Nat /\ k <= Len(s) /\ 1 <= k
      /\ k + 1 \in Int /\ Len(s) \in Int /\ 1 \in Int /\ k \in Int
  OBVIOUS
<1>2. /\ t \in Seq(Reply) /\ Len(t) = (IF k + 1 <= Len(s) THEN Len(s) - (k + 1) + 1 ELSE 0)
      /\ \A i \in 1..(Len(s) - (k + 1) + 1) : t[i] = s[(k + 1) + i - 1]
  <2>1. \A i \in (k + 1)..Len(s) : s[i] \in Reply
    BY <1>1
  <2> QED BY <1>1, <2>1, SubSeqProperties
<1>3. /\ h \in Seq(Reply) /\ Len(h) = k /\ \A i \in 1..k : h[i] = s[i]
  <2>1. \A i \in 1..k : s[i] \in Reply
    BY <1>1
  <2>2. /\ h \in Seq(Reply) /\ Len(h) = (IF 1 <= k THEN k - 1 + 1 ELSE 0)
        /\ \A i \in 1..(k - 1 + 1) : h[i] = s[1 + i - 1]
    BY <1>1, <2>1, SubSeqProperties
  <2>3. k - 1 + 1 = k /\ \A i \in 1..k : 1 + i - 1 = i
    BY <1>1
  <2> QED BY <1>1, <2>2, <2>3
<1> HIDE DEF t, h
<1>4. /\ m \in Seq(Reply) /\ Len(m) = Len(r) + k
      /\ \A i \in 1..(Len(r) + k) : m[i] = IF i <= Len(r) THEN r[i] ELSE h[i - Len(r)]
  BY <1>3, ConcatProperties
<1> HIDE DEF m
<1>5. Len(t) \in Nat /\ Len(t) = Len(s) - k /\ k + Len(t) = Len(s)
  BY <1>1, <1>2
<1>6. ASSUME NEW i \in 1..Len(t) PROVE k + i \in 1..Len(s) /\ t[i] = s[k + i]
  <2>1. i \in 1..(Len(s) - (k + 1) + 1) /\ (k + 1) + i - 1 = k + i /\ k + i \in 1..Len(s)
    BY <1>1, <1>5
  <2>2. t[i] = s[(k + 1) + i - 1]
    BY <1>2, <2>1
  <2> QED BY <2>1, <2>2
<1>7. \A i \in 1..Len(r) : m[i] = r[i]
  BY <1>1, <1>4
<1>8. ASSUME NEW i \in 1..Len(m), i \notin 1..Len(r)
      PROVE  \E j \in 1..Len(s) : i = Len(r) + j /\ m[i] = s[j]
  <2>1. i - Len(r) \in 1..k /\ i - Len(r) \in 1..Len(s) /\ i = Len(r) + (i - Len(r))
    BY <1>1, <1>4, <1>8
  <2>2. m[i] = h[i - Len(r)]
    BY <1>1, <1>4, <1>8
  <2> QED BY <1>3, <2>1, <2>2
<1>9. /\ t \in Seq(Reply) /\ m \in Seq(Reply)
      /\ Len(t) \in Nat /\ k + Len(t) = Len(s)
      /\ Len(m) = Len(r) + k
      /\ \A i \in 1..Len(t) : k + i \in 1..Len(s) /\ t[i] = s[k + i]
      /\ \A i \in 1..Len(r) : m[i] = r[i]
      /\ \A i \in 1..Len(m) : i \in 1..Len(r) \/
           \E j \in 1..Len(s) : i = Len(r) + j /\ m[i] = s[j]
  BY <1>2, <1>4, <1>5, <1>6, <1>7, <1>8
<1> QED BY <1>9 DEF t, m, h

(* The write handler moves responses to the client, in order. *)
LEMMA ResCallbackPreserves ==
  ASSUME GateInv, NEW c \in Conns, ResCallback(c)
  PROVE  GateInv'
<1>1. /\ pc = "callbacks" /\ ctx[c] # Null /\ client[c] # "reset"
      /\ ready' = ready \ {<<"write", c>>}
      /\ UNCHANGED <<client, frames, written, ctx, fed, off, packed, pc, cur, batch,
                     waiting, worker, handled, results, fault, crashed>>
  BY DEF GateInv, Bookkeeping, ResCallback, Callback, poolVars
<1>2. PICK k \in 1..Len(output[c]) :
        /\ output' = [output EXCEPT ![c] = SubSeq(@, k + 1, Len(@))]
        /\ replies' = IF client[c] = "eof" THEN replies
                      ELSE [replies EXCEPT ![c] = @ \o SubSeq(output[c], 1, k)]
        /\ heap' = IF k < Len(output[c]) THEN heap
                   ELSE [heap EXCEPT ![ctx[c]].count = (@ + 1) % 256]
  BY DEF ResCallback
<1>3. ctx[c] \in Addrs /\ heap[ctx[c]] \in SessionType
  BY <1>1, CtxLive DEF GateInv
<1>4. /\ heap' \in [Addrs -> SessionType]
      /\ \A b \in Addrs : /\ heap'[b].conn = heap[b].conn /\ heap'[b].data = heap[b].data
                          /\ heap'[b].parser = heap[b].parser
  <2>1. heap \in [Addrs -> SessionType]
    BY DEF GateInv, TypeOK
  <2>2. CASE heap' = heap
    BY <2>1, <2>2
  <2>3. CASE heap' = [heap EXCEPT ![ctx[c]].count = (@ + 1) % 256]
    <3>1. PICK x : x = (heap[ctx[c]].count + 1) % 256
      OBVIOUS
    <3>2. x \in 0..255
      <4>1. heap[ctx[c]].count \in 0..255
        BY <1>3 DEF SessionType
      <4>2. \A y \in 0..255 : (y + 1) % 256 \in 0..255
        OBVIOUS
      <4> QED BY <3>1, <4>1, <4>2
    <3>3. heap' = [heap EXCEPT ![ctx[c]] = [heap[ctx[c]] EXCEPT !.count = x]]
      BY <1>3, <2>1, <2>3, <3>1
    <3>4. [heap[ctx[c]] EXCEPT !.count = x] \in SessionType
      BY <1>3, <3>2 DEF SessionType
    <3>5. heap' \in [Addrs -> SessionType]
      BY <1>3, <2>1, <3>3, <3>4
    <3>6. ASSUME NEW b \in Addrs
          PROVE  /\ heap'[b].conn = heap[b].conn /\ heap'[b].data = heap[b].data
                 /\ heap'[b].parser = heap[b].parser
      BY <1>3, <2>1, <3>3 DEF SessionType
    <3> QED BY <3>5, <3>6
  <2> QED BY <1>2, <2>2, <2>3
<1>5. /\ replies \in [Conns -> Seq(Reply)] /\ output \in [Conns -> Seq(Reply)]
      /\ replies[c] \in Seq(Reply) /\ output[c] \in Seq(Reply)
      /\ Len(replies[c]) \in Nat /\ Len(output[c]) \in Nat /\ packed[c] \in Nat
      /\ k \in Nat
  BY DEF GateInv, TypeOK
<1>6. PICK t \in Seq(Reply), m \in Seq(Reply) :
        /\ output' = [output EXCEPT ![c] = t]
        /\ replies' = IF client[c] = "eof" THEN replies ELSE [replies EXCEPT ![c] = m]
        /\ Len(t) \in Nat /\ k + Len(t) = Len(output[c])
        /\ Len(m) = Len(replies[c]) + k
        /\ \A i \in 1..Len(t) : k + i \in 1..Len(output[c]) /\ t[i] = output[c][k + i]
        /\ \A i \in 1..Len(replies[c]) : m[i] = replies[c][i]
        /\ \A i \in 1..Len(m) : i \in 1..Len(replies[c]) \/
             \E j \in 1..Len(output[c]) : i = Len(replies[c]) + j /\ m[i] = output[c][j]
  <2> DEFINE t == SubSeq(output[c], k + 1, Len(output[c]))
             m == replies[c] \o SubSeq(output[c], 1, k)
  <2>1. /\ t \in Seq(Reply) /\ m \in Seq(Reply)
        /\ Len(t) \in Nat /\ k + Len(t) = Len(output[c])
        /\ Len(m) = Len(replies[c]) + k
        /\ \A i \in 1..Len(t) : k + i \in 1..Len(output[c]) /\ t[i] = output[c][k + i]
        /\ \A i \in 1..Len(replies[c]) : m[i] = replies[c][i]
        /\ \A i \in 1..Len(m) : i \in 1..Len(replies[c]) \/
             \E j \in 1..Len(output[c]) : i = Len(replies[c]) + j /\ m[i] = output[c][j]
    BY <1>5, MoveResponses
  <2>2. /\ output' = [output EXCEPT ![c] = t]
        /\ replies' = IF client[c] = "eof" THEN replies ELSE [replies EXCEPT ![c] = m]
    BY <1>2
  <2> HIDE DEF t, m
  <2> QED BY <2>1, <2>2
<1>7. /\ output'[c] = t /\ (client[c] = "eof" => replies'[c] = replies[c])
      /\ client[c] # "eof" => replies'[c] = m
      /\ \A d \in Conns : d # c => output'[d] = output[d] /\ replies'[d] = replies[d]
      /\ output' \in [Conns -> Seq(Reply)] /\ replies' \in [Conns -> Seq(Reply)]
  BY <1>5, <1>6
<1>8. TypeOK'
  BY <1>1, <1>4, <1>7 DEF GateInv, TypeOK
<1>9. ~Unborn(c) /\ \A d \in Conns : Unborn(d)' <=> Unborn(d)
  BY <1>1 DEF GateInv, Bookkeeping, Unborn
<1>10. Bookkeeping'
  <2>1. \A d \in Conns : Unborn(d)' => d # c
    BY <1>9
  <2> QED BY <1>1, <1>7, <1>9, <2>1 DEF GateInv, Bookkeeping
<1>11. Regular
  <2>1. \A d \in Conns : packed[d] \in Nat /\ Len(frames[d]) \in Nat
    BY DEF GateInv, TypeOK
  <2> QED BY <1>1, <1>4, <1>7, <1>9, <2>1 DEF Regular
<1>12. PICK g : Carries(g)
  BY <1>1, SamePlaces
<1>13. Travelling' /\ StaleOnlyAfterClose'
  BY <1>8, <1>11, <1>12, RegularKeeps DEF GateInv
<1>14. OneRequestInFlight'
  <2>1. \A e \in Event : Claimed(e) => Claimed(e)'
    BY <1>1, <1>4 DEF Claimed, Event
  <2> QED BY <1>1, <1>11, <1>12, <2>1, InFlightKept DEF GateInv
<1>15. Stream'
  BY <1>1, StreamKept DEF GateInv, Stream, SameStream
<1>16. \A d : JustPushed(d)' <=> JustPushed(d)
  BY <1>1 DEF JustPushed
<1>17. \A d \in Conns : ctx[d] # Null => ctx[d] \in Addrs
  BY DEF GateInv, TypeOK
<1>18. Parsing'
  <2>1. \A d \in Conns : SameParser(d)
    BY <1>1, <1>4, <1>16, <1>17 DEF SameParser
  <2> QED BY <1>1, <2>1, ParsingKept DEF GateInv, Parsing
<1>19. \A d \in Conns : ctx[d] # Null => (Busy(d)' <=> Busy(d))
  BY <1>1, <1>4, <1>16, <1>17 DEF Busy
<1>20. Answers'
  <2> SUFFICES ASSUME ~fault' PROVE \A d \in Conns : AnswersOf(d)'
    BY DEF Answers
  <2>1. ASSUME NEW d \in Conns, d # c PROVE AnswersOf(d)'
    <3>1. SameAnswers(d)
      BY <1>1, <1>7, <1>19, <2>1 DEF SameAnswers
    <3> QED BY <1>1, <1>12, <3>1, AnswersKept DEF GateInv, Answers
  <2>2. AnswersOf(c)'
    <3>1. AnswersOf(c)
      BY <1>1 DEF GateInv, Answers
    <3>2. \A r, o, s, p \in Nat : k + s = o /\ r + o <= p => r + s <= p /\ (r + k) + s <= p
      BY <1>5
    <3>3. \A r, o, s, p \in Nat : k + s = o /\ r + o < p => r + s < p /\ (r + k) + s < p
      BY <1>5
    <3>4. Len(replies'[c]) + Len(output'[c]) <= packed'[c]
      BY <1>1, <1>5, <1>6, <1>7, <3>1, <3>2 DEF AnswersOf
    <3>5. ASSUME NEW p \in Places', EventAt(p)'.conn = c
          PROVE  Len(replies'[c]) + Len(output'[c]) < packed'[c]
      <4>1. g[p] \in Places /\ EventAt(g[p]).conn = c
        BY <1>12, <3>5 DEF Carries
      <4>2. Len(replies[c]) + Len(output[c]) < packed[c]
        BY <3>1, <4>1 DEF AnswersOf
      <4> QED BY <1>1, <1>5, <1>6, <1>7, <3>3, <4>2
    <3>6. ASSUME client[c] \notin {"eof", "reset"}
          PROVE  /\ \A i \in 1..Len(output'[c]) :
                      output'[c][i] = [conn |-> c, n |-> Len(replies'[c]) + i]
                 /\ Busy(c)' => packed'[c] = Len(replies'[c]) + Len(output'[c]) + 1
                 /\ ~Busy(c)' => packed'[c] = Len(replies'[c]) + Len(output'[c])
                 /\ \A p \in Places' : EventAt(p)'.conn = c => EventAt(p)'.n = packed'[c]
      <4>1. /\ \A i \in 1..Len(output[c]) :
                 output[c][i] = [conn |-> c, n |-> Len(replies[c]) + i]
            /\ Busy(c) => packed[c] = Len(replies[c]) + Len(output[c]) + 1
            /\ ~Busy(c) => packed[c] = Len(replies[c]) + Len(output[c])
            /\ \A p \in Places : EventAt(p).conn = c => EventAt(p).n = packed[c]
        BY <1>1, <3>1, <3>6 DEF AnswersOf
      <4>2. replies'[c] = m /\ output'[c] = t /\ Len(replies'[c]) = Len(replies[c]) + k
        BY <1>6, <1>7, <3>6
      <4>3. ASSUME NEW i \in 1..Len(t)
            PROVE  t[i] = [conn |-> c, n |-> Len(replies'[c]) + i]
        <5>1. k + i \in 1..Len(output[c]) /\ t[i] = output[c][k + i]
          BY <1>6
        <5>2. \A r, j \in Nat : r + (k + j) = (r + k) + j
          BY <1>5
        <5>3. i \in Nat
          BY <1>6
        <5>4. Len(replies[c]) + (k + i) = (Len(replies[c]) + k) + i
          BY <1>5, <5>2, <5>3
        <5> QED BY <4>1, <4>2, <5>1, <5>4
      <4>4. Len(replies'[c]) + Len(output'[c]) = Len(replies[c]) + Len(output[c])
        <5>1. Len(replies'[c]) + Len(output'[c]) = (Len(replies[c]) + k) + Len(t)
          BY <4>2
        <5>2. (Len(replies[c]) + k) + Len(t) = Len(replies[c]) + Len(output[c])
          <6>1. Len(t) \in Nat /\ k + Len(t) = Len(output[c])
            BY <1>6
          <6>2. Len(replies[c]) \in Nat /\ Len(output[c]) \in Nat /\ k \in Nat
            BY <1>5
          <6>3. PICK r \in Nat, l \in Nat, o \in Nat :
                  r = Len(replies[c]) /\ l = Len(t) /\ o = Len(output[c])
            BY <6>1, <6>2
          <6>4. k + l = o
            BY <6>1, <6>3
          <6>5. \A j \in Nat : j + l = o => (r + j) + l = r + o
            OBVIOUS
          <6>6. (r + k) + l = r + o
            BY <6>2, <6>4, <6>5
          <6> QED BY <6>3, <6>6
        <5> QED BY <5>1, <5>2
      <4>5. \A p \in Places' : EventAt(p)'.conn = c => EventAt(p)'.n = packed'[c]
        BY <1>1, <1>12, <4>1 DEF Carries
      <4> QED BY <1>1, <1>19, <4>1, <4>2, <4>3, <4>4, <4>5
    <3> QED BY <1>1, <3>4, <3>5, <3>6 DEF AnswersOf
  <2> QED BY <2>1, <2>2
<1>21. CallbackOnLiveSession'
  <2>1. \A b \in Addrs : Live(b)' <=> Live(b)
    BY <1>4 DEF Live
  <2> QED BY <1>1, <1>4, <1>17, <2>1 DEF GateInv, CallbackOnLiveSession
<1>22. RepliesMatchRequests'
  <2> SUFFICES ASSUME ~fault' PROVE RepliesMatchRequests'
    BY DEF RepliesMatchRequests
  <2>1. /\ \A d \in Conns : \A i \in 1..Len(replies[d]) : replies[d][i] = [conn |-> d, n |-> i]
        /\ \A a \in Addrs : heap[a].data \in {Null, heap[a].conn}
    BY <1>1 DEF GateInv, RepliesMatchRequests
  <2>2. ASSUME NEW i \in 1..Len(replies'[c]) PROVE replies'[c][i] = [conn |-> c, n |-> i]
    <3>1. CASE client[c] = "eof"
      BY <1>7, <2>1, <3>1
    <3>2. CASE client[c] # "eof"
      <4>1. \A j \in 1..Len(output[c]) :
              output[c][j] = [conn |-> c, n |-> Len(replies[c]) + j]
        BY <1>1, <3>2 DEF GateInv, Answers, AnswersOf
      <4>2. replies'[c] = m
        BY <1>7, <3>2
      <4>3. CASE i \in 1..Len(replies[c])
        BY <1>6, <2>1, <4>2, <4>3
      <4>4. CASE \E j \in 1..Len(output[c]) : i = Len(replies[c]) + j /\ m[i] = output[c][j]
        BY <4>1, <4>2, <4>4
      <4> QED BY <1>6, <4>2, <4>3, <4>4
    <3> QED BY <3>1, <3>2
  <2>3. ASSUME NEW d \in Conns, NEW i \in 1..Len(replies'[d])
        PROVE  replies'[d][i] = [conn |-> d, n |-> i]
    <3>1. CASE d = c
      BY <2>2, <3>1
    <3>2. CASE d # c
      <4>1. replies'[d] = replies[d]
        BY <1>7, <3>2
      <4> QED BY <2>1, <4>1
    <3> QED BY <3>1, <3>2
  <2> QED BY <1>4, <2>1, <2>3 DEF RepliesMatchRequests
<1>23. DroppedInPush' /\ FaultNeedsAbandonedRequest'
  <2>1. Abandoned => Abandoned'
    BY <1>8, <1>11, AbandonedStays DEF GateInv
  <2> QED BY <1>1, <2>1 DEF GateInv, DroppedInPush, FaultNeedsAbandonedRequest, Abandoned
<1> QED BY <1>8, <1>10, <1>13, <1>14, <1>15, <1>18, <1>20, <1>21, <1>22, <1>23 DEF GateInv

-----------------------------------------------------------------------------
(* handle_results uses up the first event of the batch. *)
LEMMA ResultPlaces ==
  ASSUME TypeOK, batch # <<>>, batch' = Tail(batch), UNCHANGED <<waiting, worker, results>>
  PROVE  \E g : Carries(g) /\ \A p \in Places' : g[p] # <<"batch", 1>>
<1> DEFINE g == [p \in Places' |-> IF p[1] = "batch" THEN <<"batch", p[2] + 1>> ELSE p]
<1>1. /\ Len(batch) \in Nat /\ Len(batch') = Len(batch) - 1 /\ Len(batch) > 0
      /\ \A i \in 1..Len(batch') : batch'[i] = batch[i + 1]
  BY DEF TypeOK
<1>2. ASSUME NEW p \in Places'
      PROVE  \/ \E i \in 1..Len(waiting) : p = <<"waiting", i>> /\ g[p] = p
             \/ \E v \in Workers : worker[v] # Null /\ p = <<"worker", v>> /\ g[p] = p
             \/ \E i \in 1..Len(results) : p = <<"results", i>> /\ g[p] = p
             \/ \E i \in 1..Len(batch') : p = <<"batch", i>> /\ g[p] = <<"batch", i + 1>>
  <2>1. CASE p \in {<<"waiting", i>> : i \in 1..Len(waiting)}
    BY <2>1
  <2>2. CASE p \in {<<"worker", v>> : v \in {v \in Workers : worker[v] # Null}}
    BY <2>2
  <2>3. CASE p \in {<<"results", i>> : i \in 1..Len(results)}
    BY <2>3
  <2>4. CASE p \in {<<"batch", i>> : i \in 1..Len(batch')}
    BY <2>4
  <2>5. \/ p \in {<<"waiting", i>> : i \in 1..Len(waiting)}
        \/ p \in {<<"worker", v>> : v \in {v \in Workers : worker[v] # Null}}
        \/ p \in {<<"results", i>> : i \in 1..Len(results)}
        \/ p \in {<<"batch", i>> : i \in 1..Len(batch')}
    BY DEF Places
  <2> HIDE DEF g
  <2> QED BY <2>1, <2>2, <2>3, <2>4, <2>5
<1> HIDE DEF g
<1>3. ASSUME NEW p \in Places'
      PROVE  g[p] \in Places /\ EventAt(p)' = EventAt(g[p]) /\ g[p] # <<"batch", 1>>
  <2>1. CASE \E i \in 1..Len(waiting) : p = <<"waiting", i>> /\ g[p] = p
    BY <2>1 DEF Places, EventAt
  <2>2. CASE \E v \in Workers : worker[v] # Null /\ p = <<"worker", v>> /\ g[p] = p
    BY <2>2 DEF Places, EventAt
  <2>3. CASE \E i \in 1..Len(results) : p = <<"results", i>> /\ g[p] = p
    BY <2>3 DEF Places, EventAt
  <2>4. CASE \E i \in 1..Len(batch') : p = <<"batch", i>> /\ g[p] = <<"batch", i + 1>>
    BY <1>1, <2>4 DEF Places, EventAt
  <2> QED BY <1>2, <2>1, <2>2, <2>3, <2>4
<1>4. ASSUME NEW p \in Places', NEW r \in Places', g[p] = g[r]
      PROVE  p = r
  BY <1>1, <1>2, <1>4
<1> QED BY <1>3, <1>4 DEF Carries

(* A response is written to the Session of the event, or of whoever has    *)
(* its address now.                                                        *)
LEMMA HandleResultPreserves ==
  ASSUME GateInv, HandleResult
  PROVE  GateInv'
<1>1. /\ pc = "results" /\ batch # <<>> /\ batch' = Tail(batch)
      /\ batch \in Seq(Event)
      /\ UNCHANGED <<client, frames, written, replies, ctx, fed, off, packed, pc, ready,
                     cur, waiting, worker, handled, results>>
  <2>1. batch \in Seq(Event)
    BY DEF GateInv, TypeOK
  <2>2. pc = "results" /\ batch # <<>> /\ batch' = Tail(batch)
    BY Zenon DEF HandleResult
  <2>3. UNCHANGED <<netVars, ctx, fed, off, packed, pc, ready, cur, poolVars>>
    BY Zenon DEF HandleResult
  <2> QED BY <2>1, <2>2, <2>3 DEF netVars, poolVars
<1>2. PICK e \in Event : /\ e = Head(batch) /\ e = batch[1] /\ e.addr \in Addrs
                         /\ e.conn \in Conns /\ e.n \in Nat
  <2>1. Head(batch) \in Event /\ Head(batch) = batch[1] /\ Len(batch) \in Nat /\ Len(batch) > 0
    BY <1>1
  <2> QED BY <2>1 DEF Event
<1>3. <<"batch", 1>> \in Places /\ EventAt(<<"batch", 1>>) = e
  <2>1. 1 \in 1..Len(batch)
    BY <1>1
  <2> QED BY <1>2, <2>1 DEF Places, EventAt
<1>4. PICK g : Carries(g) /\ \A p \in Places' : g[p] # <<"batch", 1>>
  <2>1. TypeOK /\ UNCHANGED <<waiting, worker, results>>
    BY <1>1 DEF GateInv
  <2> QED BY <1>1, <2>1, ResultPlaces, Zenon
<1> DEFINE a == e.addr
           r == [conn |-> e.conn, n |-> e.n]
<1>0. PICK d : d = heap[a].conn
  OBVIOUS
<1>5. \/ /\ Live(a) /\ output' = [output EXCEPT ![d] = Append(@, r)]
         /\ heap' = [heap EXCEPT ![a].parser.state = "WAITING_REQUEST"]
         /\ fault' = (fault \/ d # e.conn) /\ crashed' = crashed
      \/ /\ ~Live(a) /\ output' = output /\ heap' = heap
         /\ fault' = TRUE /\ crashed' \in BOOLEAN
  <2>1. \/ /\ Live(Head(batch).addr)
           /\ output' = [output EXCEPT ![heap[Head(batch).addr].conn] =
                           Append(@, [conn |-> Head(batch).conn, n |-> Head(batch).n])]
           /\ heap' = [heap EXCEPT ![Head(batch).addr].parser.state = "WAITING_REQUEST"]
           /\ fault' = (fault \/ heap[Head(batch).addr].conn # Head(batch).conn)
           /\ UNCHANGED crashed
        \/ /\ ~Live(Head(batch).addr)
           /\ UNCHANGED <<output, heap>>
           /\ fault' = TRUE /\ crashed' \in BOOLEAN
    BY Zenon DEF HandleResult, UseAfterDelete
  <2>2. e = Head(batch)
    BY <1>2
  <2> QED BY <1>0, <2>1, <2>2, Zenon
<1>6. /\ heap \in [Addrs -> SessionType] /\ output \in [Conns -> Seq(Reply)]
      /\ a \in Addrs /\ heap[a] \in SessionType /\ heap[a].parser \in Parser
      /\ r \in Reply
  BY <1>2 DEF GateInv, TypeOK, SessionType, Reply
<1>7. Live(a) => d \in Conns /\ ctx[d] = a
  BY <1>6, <1>0 DEF GateInv, CallbackOnLiveSession, Live, SessionType
<1> HIDE DEF a, r
<1>8. /\ heap' \in [Addrs -> SessionType]
      /\ \A b \in Addrs : heap'[b].conn = heap[b].conn /\ heap'[b].data = heap[b].data
      /\ \A b \in Addrs : b # a => heap'[b] = heap[b]
      /\ Live(a) => heap'[a].parser = [heap[a].parser EXCEPT !.state = "WAITING_REQUEST"]
      /\ ~Live(a) => heap' = heap
  <2>1. CASE Live(a)
    <3>1. heap' = [heap EXCEPT ![a].parser.state = "WAITING_REQUEST"]
      BY <1>5, <2>1
    <3>2. [heap[a] EXCEPT !.parser.state = "WAITING_REQUEST"] \in SessionType
      <4>1. "WAITING_REQUEST" \in State
        BY DEF State
      <4>2. [heap[a].parser EXCEPT !.state = "WAITING_REQUEST"] \in Parser
        BY <1>6, <4>1 DEF Parser
      <4> QED BY <1>6, <4>2 DEF SessionType
    <3>3. heap' = [heap EXCEPT ![a] = [heap[a] EXCEPT !.parser.state = "WAITING_REQUEST"]]
      BY <1>6, <3>1
    <3>4. heap' \in [Addrs -> SessionType]
      BY <1>6, <3>2, <3>3
    <3>5. \A b \in Addrs : b # a => heap'[b] = heap[b]
      BY <1>6, <3>3
    <3>6. /\ heap'[a].conn = heap[a].conn /\ heap'[a].data = heap[a].data
          /\ heap'[a].parser = [heap[a].parser EXCEPT !.state = "WAITING_REQUEST"]
      BY <1>6, <3>3 DEF SessionType
    <3> QED BY <2>1, <3>4, <3>5, <3>6
  <2>2. CASE ~Live(a)
    BY <1>5, <1>6, <2>2
  <2> QED BY <2>1, <2>2
<1>9. /\ output' \in [Conns -> Seq(Reply)]
      /\ Live(a) => output'[d] = Append(output[d], r)
      /\ \A c \in Conns : ~Live(a) \/ c # d => output'[c] = output[c]
  <2>1. CASE Live(a)
    <3>1. output' = [output EXCEPT ![d] = Append(output[d], r)] /\ d \in Conns
      BY <1>5, <1>6, <1>7, <2>1
    <3>2. Append(output[d], r) \in Seq(Reply)
      BY <1>6, <3>1
    <3> QED BY <1>6, <2>1, <3>1, <3>2
  <2>2. CASE ~Live(a)
    BY <1>5, <1>6, <2>2
  <2> QED BY <2>1, <2>2
<1>10. fault \in BOOLEAN /\ fault' \in BOOLEAN /\ crashed' \in BOOLEAN /\ (fault => fault')
  BY <1>5 DEF GateInv, TypeOK
<1>11. TypeOK'
  <2>1. batch' \in Seq(Event)
    BY <1>1
  <2> QED BY <1>1, <1>8, <1>9, <1>10, <2>1 DEF GateInv, TypeOK
<1>12. /\ \A c \in Conns : Unborn(c)' <=> Unborn(c)
       /\ Live(a) => ~Unborn(d)
  <2>1. Live(a) => ctx[d] # Null
    BY <1>6, <1>7, NetGateAssumption
  <2> QED BY <1>1, <1>7, <2>1 DEF GateInv, Bookkeeping, Unborn
<1>13. Bookkeeping'
  <2>1. \A c \in Conns : Unborn(c) => output'[c] = <<>>
    BY <1>9, <1>12 DEF GateInv, Bookkeeping
  <2> QED BY <1>1, <1>12, <2>1 DEF GateInv, Bookkeeping
<1>14. Regular
  <2>1. \A c \in Conns : packed[c] \in Nat /\ Len(frames[c]) \in Nat
    BY DEF GateInv, TypeOK
  <2> QED BY <1>1, <1>8, <1>12, <2>1 DEF Regular
<1>15. Travelling' /\ StaleOnlyAfterClose'
  BY <1>4, <1>11, <1>14, RegularKeeps DEF GateInv
<1>16. ~fault' => ~fault /\ Live(a) /\ d = e.conn
  BY <1>5
<1>17. ASSUME ~fault', NEW p \in Places'
       PROVE  EventAt(p)'.conn # e.conn
  <2>1. g[p] \in Places /\ g[p] # <<"batch", 1>> /\ EventAt(p)' = EventAt(g[p])
    BY <1>4 DEF Carries
  <2>2. \A s, t \in Places : EventAt(s).conn = EventAt(t).conn => s = t
    BY <1>16, <1>17 DEF GateInv, OneRequestInFlight
  <2> QED BY <1>3, <2>1, <2>2
<1>18. OneRequestInFlight'
  <2>1. ASSUME ~fault', NEW p \in Places', NEW f \in Event, f = EventAt(p)',
               Claimed(f), heap[f.addr].conn = f.conn
        PROVE  Claimed(f)'
    <3>1. f.addr \in Addrs /\ f.conn # e.conn
      BY <1>17, <2>1 DEF Event
    <3>2. f.addr # a
      BY <1>16, <1>0, <2>1, <3>1
    <3> QED BY <1>1, <1>8, <2>1, <3>1, <3>2 DEF Claimed
  <2> QED BY <1>4, <1>10, <1>14, <2>1, InFlightKept DEF GateInv
<1>19. Stream'
  BY <1>1, StreamKept DEF GateInv, Stream, SameStream
<1>20. \A c : ~JustPushed(c)' /\ ~JustPushed(c)
  BY <1>1 DEF JustPushed
<1>21. ASSUME NEW c \in Conns, ctx[c] # Null
       PROVE  /\ ctx[c] \in Addrs
              /\ \/ c = d /\ Live(a) /\ ctx[c] = a
                 \/ c # d /\ ctx[c] # a
  <2>1. ctx[c] \in Addrs /\ heap[ctx[c]].conn = c /\ Live(ctx[c])
    BY <1>21, CtxLive DEF GateInv
  <2>2. ctx[c] = a => c = d /\ Live(a)
    BY <1>0, <2>1
  <2>3. c = d => ctx[c] = a
    <3>1. c = d => Live(a)
      BY <1>0, NetGateAssumption DEF Live
    <3> QED BY <1>7, <3>1
  <2>4. CASE ctx[c] = a
    BY <2>1, <2>2, <2>4
  <2>5. CASE ctx[c] # a
    BY <2>1, <2>3, <2>5
  <2> QED BY <2>4, <2>5
<1>22. ~fault' => heap[a].parser.state = "HANDLING"
  <2>1. ~fault' => heap[e.addr].conn = e.conn
    BY <1>16, <1>0 DEF a
  <2> QED BY <1>1, <1>3, <1>16, <2>1 DEF GateInv, OneRequestInFlight, a
<1>23. Parsing'
  <2>1. ASSUME NEW c \in Conns PROVE ParsingOf(c)'
    <3>1. CASE ctx[c] = Null
      BY <1>1, <3>1 DEF ParsingOf
    <3>2. CASE ctx[c] # Null /\ ctx[c] # a
      <4>1. SameParser(c)
        BY <1>1, <1>8, <1>20, <1>21, <3>2 DEF SameParser
      <4> QED BY <1>10, <4>1, ParsingKept DEF GateInv, Parsing
    <3>3. CASE ctx[c] # Null /\ ctx[c] = a
      <4> DEFINE p == heap[a].parser
                 q == heap'[a].parser
                 f == frames[c][packed[c] + 1]
      <4>1. Live(a)
        BY <1>21, <3>3
      <4>2. /\ p \in Parser /\ q = [p EXCEPT !.state = "WAITING_REQUEST"]
            /\ q.state = "WAITING_REQUEST" /\ q.req_buf = p.req_buf
        BY <1>6, <1>8, <4>1 DEF Parser
      <4>3. /\ p.req_buf.last <= p.req_buf.total
            /\ \/ /\ p.req_buf.buf = FALSE /\ off[c] = At(packed[c])
               \/ /\ packed[c] < Len(frames[c])
                  /\ AtFrame(p, off[c], f) \/ (fault /\ Misled(p, off[c], f))
        BY <3>3 DEF GateInv, Parsing, ParsingOf
      <4>4. heap'[ctx'[c]].parser = q
        BY <1>1, <3>3
      <4> HIDE DEF p, q, f
      <4>5. AtFrame(p, off[c], f) =>
              \/ AtFrame(q, off[c], f)
              \/ fault' /\ Misled(q, off[c], f)
        <5>1. AtFrame(p, off[c], f) => p.state # "HANDLING"
          BY DEF AtFrame, InHead, InBody
        <5>2. AtFrame(p, off[c], f) => fault'
          BY <1>22, <5>1 DEF p
        <5> QED BY <4>2, <4>3, <5>2 DEF AtFrame, InHead, InBody, Misled
      <4>6. Misled(p, off[c], f) => Misled(q, off[c], f)
        BY <4>2 DEF Misled
      <4>7. \/ /\ q.req_buf.buf = FALSE /\ off[c] = At(packed[c])
               /\ q.state \in {"WAITING_REQUEST", "HANDLING"}
            \/ /\ packed[c] < Len(frames[c])
               /\ AtFrame(q, off[c], f) \/ (fault' /\ Misled(q, off[c], f))
        BY <1>10, <4>2, <4>3, <4>5, <4>6
      <4>8. q.req_buf.last <= q.req_buf.total
        BY <4>2, <4>3
      <4> QED BY <1>1, <1>20, <4>4, <4>7, <4>8 DEF ParsingOf, f
    <3> QED BY <3>1, <3>2, <3>3
  <2> QED BY <2>1 DEF Parsing
<1>24. Answers'
  <2> SUFFICES ASSUME ~fault' PROVE \A c \in Conns : AnswersOf(c)'
    BY DEF Answers
  <2>1. ~fault /\ Live(a) /\ d = e.conn /\ d \in Conns /\ ctx[d] = a /\ ctx[d] # Null
    BY <1>6, <1>7, <1>16, NetGateAssumption
  <2>2. ASSUME NEW c \in Conns, c # d PROVE AnswersOf(c)'
    <3>1. ctx[c] # Null => (Busy(c)' <=> Busy(c))
      BY <1>1, <1>8, <1>20, <1>21, <2>2 DEF Busy
    <3>2. SameAnswers(c)
      BY <1>1, <1>9, <2>2, <3>1 DEF SameAnswers
    <3> QED BY <1>4, <2>1, <3>2, AnswersKept DEF GateInv, Answers
  <2>3. AnswersOf(d)'
    <3>1. AnswersOf(d)
      BY <2>1 DEF GateInv, Answers
    <3>2. /\ Len(replies[d]) \in Nat /\ Len(output[d]) \in Nat /\ packed[d] \in Nat
          /\ output[d] \in Seq(Reply)
      BY <2>1 DEF GateInv, TypeOK
    <3>3. /\ output'[d] = Append(output[d], r) /\ Len(output'[d]) = Len(output[d]) + 1
          /\ output'[d][Len(output[d]) + 1] = r
          /\ \A i \in 1..Len(output[d]) : output'[d][i] = output[d][i]
      BY <1>6, <1>9, <2>1, <3>2
    <3>4. Len(replies[d]) + (Len(output[d]) + 1) <= packed[d]
      <4>1. Len(replies[d]) + Len(output[d]) < packed[d]
        BY <1>3, <2>1, <3>1 DEF AnswersOf
      <4>2. \A x, y, z \in Nat : x + y < z => x + (y + 1) <= z
        OBVIOUS
      <4> QED BY <3>2, <4>1, <4>2
    <3>5. \A p \in Places' : EventAt(p)'.conn # d
      BY <1>17, <2>1
    <3>6. ~Busy(d)' /\ Busy(d)
      <4>1. heap'[a].parser.state = "WAITING_REQUEST"
        BY <1>6, <1>8, <2>1 DEF Parser
      <4> QED BY <1>1, <1>20, <1>22, <2>1, <4>1 DEF Busy
    <3>7. ASSUME client[d] \notin {"eof", "reset"}
          PROVE  /\ \A i \in 1..Len(output'[d]) :
                      output'[d][i] = [conn |-> d, n |-> Len(replies[d]) + i]
                 /\ packed[d] = Len(replies[d]) + Len(output'[d])
      <4>1. /\ \A i \in 1..Len(output[d]) :
                 output[d][i] = [conn |-> d, n |-> Len(replies[d]) + i]
            /\ packed[d] = Len(replies[d]) + Len(output[d]) + 1
            /\ e.n = packed[d]
        BY <1>3, <2>1, <3>1, <3>6, <3>7 DEF AnswersOf
      <4>2. \A x, y, z \in Nat : z = x + y + 1 => z = x + (y + 1)
        OBVIOUS
      <4>3. packed[d] = Len(replies[d]) + (Len(output[d]) + 1)
        BY <3>2, <4>1, <4>2
      <4>4. ASSUME NEW i \in 1..Len(output'[d])
            PROVE  output'[d][i] = [conn |-> d, n |-> Len(replies[d]) + i]
        <5>1. CASE i \in 1..Len(output[d])
          BY <3>3, <4>1, <5>1
        <5>2. CASE i = Len(output[d]) + 1
          BY <2>1, <3>3, <4>1, <4>3, <5>2 DEF r
        <5> QED BY <3>2, <3>3, <5>1, <5>2
      <4> QED BY <3>3, <4>3, <4>4
    <3> QED BY <1>1, <3>3, <3>4, <3>5, <3>6, <3>7 DEF AnswersOf
  <2> QED BY <2>2, <2>3
<1>25. CallbackOnLiveSession'
  <2>1. \A b \in Addrs : Live(b)' <=> Live(b)
    BY <1>8 DEF Live
  <2> QED BY <1>1, <1>8, <1>21, <2>1 DEF GateInv, CallbackOnLiveSession
<1>26. RepliesMatchRequests'
  BY <1>1, <1>8, <1>10 DEF GateInv, RepliesMatchRequests
<1>27. DroppedInPush' /\ FaultNeedsAbandonedRequest'
  <2>1. Abandoned => Abandoned'
    BY <1>11, <1>14, AbandonedStays DEF GateInv
  <2>2. ASSUME fault' PROVE Abandoned
    <3>1. CASE fault
      BY <3>1 DEF GateInv, FaultNeedsAbandonedRequest, Abandoned
    <3>2. CASE ~fault
      <4>1. heap[e.addr].conn # e.conn
        BY <1>2, <1>5, <1>0, <2>2, <3>2, NetGateAssumption DEF Live, a
      <4> QED BY <1>3, <3>2, <4>1, StaleIsAbandoned
    <3> QED BY <3>1, <3>2
  <2> QED BY <1>1, <2>1, <2>2 DEF DroppedInPush, FaultNeedsAbandonedRequest, Abandoned
<1> QED BY <1>11, <1>13, <1>15, <1>18, <1>19, <1>23, <1>24, <1>25, <1>26, <1>27 DEF GateInv

-----------------------------------------------------------------------------
(* The server starts without connections, Sessions and events. *)
LEMMA InitGate == Init => GateInv
<1> SUFFICES ASSUME Init PROVE GateInv
  OBVIOUS
<1>1. NoSession \in SessionType /\ NoSession.conn = Null /\ NoSession.data = Null
  <2>1. NewParser \in Parser
    BY DEF NewParser, Parser, State, Buffer, NewBuffer, EventTypes
  <2>2. NoSession = [conn |-> Null, parser |-> NewParser, count |-> 0, data |-> Null]
    BY DEF NoSession
  <2> QED BY <2>1, <2>2 DEF SessionType
<1>2. TypeOK
  <2>1. /\ frames \in [Conns -> Seq(Frame)] /\ replies \in [Conns -> Seq(Reply)]
        /\ output \in [Conns -> Seq(Reply)]
    BY DEF Init
  <2>2. batch \in Seq(Event) /\ waiting \in Seq(Event) /\ results \in Seq(Event)
    BY DEF Init
  <2>3. /\ client \in [Conns -> ClientState] /\ written \in [Conns -> Nat]
        /\ ctx \in [Conns -> Addrs \cup {Null}]
        /\ fed \in [Conns -> Nat] /\ off \in [Conns -> Nat] /\ packed \in [Conns -> Nat]
    BY DEF Init, ClientState
  <2>4. heap \in [Addrs -> SessionType] /\ worker \in [Workers -> Event \cup {Null}]
    BY <1>1 DEF Init
  <2>5. handled \in [Workers -> BOOLEAN] /\ fault \in BOOLEAN /\ crashed \in BOOLEAN
    BY DEF Init
  <2>6. /\ pc \in {"poll", "callbacks", "pushed", "results"}
        /\ ready \subseteq {"accept", "read", "write"} \X Conns
        /\ cur \in Addrs \cup {Null}
    BY DEF Init
  <2> QED BY <2>1, <2>2, <2>3, <2>4, <2>5, <2>6 DEF TypeOK
<1>3. Bookkeeping
  BY DEF Init, Bookkeeping
<1>4. Stream
  <2>1. MaxRequests \in Nat
    BY NetGateAssumption
  <2> QED BY <2>1, AtFacts DEF Init, Stream, StreamOf
<1>5. Places = {}
  BY DEF Init, Places
<1>6. CallbackOnLiveSession
  BY <1>1 DEF Init, CallbackOnLiveSession, Live
<1>7. Parsing
  BY DEF Init, Parsing, ParsingOf
<1>8. Travelling /\ StaleOnlyAfterClose /\ OneRequestInFlight
  BY <1>5 DEF Travelling, StaleOnlyAfterClose, OneRequestInFlight
<1>9. Answers
  BY <1>5 DEF Init, Answers, AnswersOf
<1>10. RepliesMatchRequests
  BY <1>1 DEF Init, RepliesMatchRequests
<1>11. DroppedInPush /\ FaultNeedsAbandonedRequest
  BY DEF Init, DroppedInPush, FaultNeedsAbandonedRequest
<1> QED BY <1>2, <1>3, <1>4, <1>6, <1>7, <1>8, <1>9, <1>10, <1>11 DEF GateInv

(* Every step keeps the invariant: one case for each action. *)
LEMMA NextGate == GateInv /\ [Next]_vars => GateInv'
<1> SUFFICES ASSUME GateInv, [Next]_vars PROVE GateInv'
  OBVIOUS
<1>1. ASSUME UNCHANGED vars PROVE GateInv'
  <2>1. UNCHANGED <<client, frames, written, replies, ctx, fed, off, packed, output, heap,
                    pc, ready, cur, batch, waiting, worker, handled, results, fault, crashed>>
    BY <1>1 DEF vars, netVars, bevVars, loopVars, poolVars
  <2>2. TypeOK'
    BY <2>1 DEF GateInv, TypeOK
  <2>3. Bookkeeping'
    BY <2>1 DEF GateInv, Bookkeeping, Unborn
  <2>4. PICK g : Carries(g)
    BY <2>1, SamePlaces
  <2> QED BY <2>1, <2>2, <2>3, <2>4, StillStep DEF Unborn
<1>2. ASSUME NEW c \in Conns, ClientConnect(c) PROVE GateInv'
  BY <1>2, ClientConnectPreserves
<1>3. ASSUME NEW c \in Conns, NEW magic \in BOOLEAN, NEW stall \in BOOLEAN,
             ClientWrite(c, magic, stall)
      PROVE  GateInv'
  BY <1>3, ClientWritePreserves
<1>4. ASSUME NEW c \in Conns, NEW how \in {"eof", "reset"}, ClientClose(c, how)
      PROVE  GateInv'
  BY <1>4, ClientClosePreserves
<1>5. CASE Poll
  BY <1>5, PollPreserves
<1>6. ASSUME NEW c \in Conns, NEW a \in Addrs, ListenerCallback(c, a) PROVE GateInv'
  BY <1>6, ListenerCallbackPreserves
<1>7. ASSUME NEW c \in Conns, ReqCallback(c) PROVE GateInv'
  BY <1>7, ReqCallbackPreserves
<1>8. ASSUME NEW c \in Conns, ResCallback(c) PROVE GateInv'
  BY <1>8, ResCallbackPreserves
<1>9. ASSUME NEW c \in Conns, ErrCallback(c) PROVE GateInv'
  BY <1>9, ErrCallbackPreserves
<1>10. CASE SetHandling
  BY <1>10, SetHandlingPreserves
<1>11. CASE Drag
  BY <1>11, DragPreserves
<1>12. CASE HandleResult
  BY <1>12, HandleResultPreserves
<1>13. CASE Sleep
  BY <1>13, SleepPreserves
<1>14. ASSUME NEW w \in Workers, Take(w) PROVE GateInv'
  BY <1>14, TakePreserves
<1>15. ASSUME NEW w \in Workers, Handle(w) PROVE GateInv'
  BY <1>15, HandlePreserves
<1>16. ASSUME NEW w \in Workers, Publish(w) PROVE GateInv'
  BY <1>16, PublishPreserves
<1>17. CASE Clients
  BY <1>2, <1>3, <1>4, <1>17 DEF Clients
<1>18. CASE Loop
  BY <1>5, <1>6, <1>7, <1>8, <1>9, <1>10, <1>11, <1>12, <1>13, <1>18 DEF Loop
<1>19. CASE \E w \in Workers : Work(w)
  BY <1>14, <1>15, <1>16, <1>19 DEF Work
<1> QED BY <1>1, <1>17, <1>18, <1>19 DEF Next

(* The gate's inductive invariant holds in every state the server reaches, *)
(* whatever its clients do.                                                *)
THEOREM GateCorrect == Spec => []GateInv
BY InitGate, NextGate, PTL DEF Spec

(* Every variable keeps its type: the parser stays a parser, count_ stays   *)
(* an 8-bit number, the queues hold events.                                 *)
THEOREM GateTypes == Spec => []TypeOK
<1>1. GateInv => TypeOK
  BY DEF GateInv
<1> QED BY <1>1, GateCorrect, PTL

(* A bufferevent's callback context is always the live Session of its      *)
(* connection, for every number of connections and every reuse of          *)
(* addresses: no callback runs on a deleted Session.                       *)
THEOREM GateCallbackOnLiveSession == Spec => []CallbackOnLiveSession
<1>1. GateInv => CallbackOnLiveSession
  BY DEF GateInv
<1> QED BY <1>1, GateCorrect, PTL

(* While the connection of an event in the pool stands, the event's Session *)
(* pointer is good.                                                         *)
THEOREM GateStaleOnlyAfterClose == Spec => []StaleOnlyAfterClose
<1>1. GateInv => StaleOnlyAfterClose
  BY DEF GateInv
<1> QED BY <1>1, GateCorrect, PTL

(* Until a deleted Session is used, the pool holds at most one request of  *)
(* a connection, and its Session is HANDLING while it does.                *)
THEOREM GateOneRequestInFlight == Spec => []OneRequestInFlight
<1>1. GateInv => OneRequestInFlight
  BY DEF GateInv
<1> QED BY <1>1, GateCorrect, PTL

(* Until a deleted Session is used, every client reads the answers to its  *)
(* own requests, each once and in order.                                   *)
THEOREM GateRepliesMatchRequests == Spec => []RepliesMatchRequests
<1>1. GateInv => RepliesMatchRequests
  BY DEF GateInv
<1> QED BY <1>1, GateCorrect, PTL

(* A deleted Session is used only when a connection was closed with a       *)
(* request unanswered.                                                      *)
THEOREM GateFaultNeedsAbandonedRequest == Spec => []FaultNeedsAbandonedRequest
<1>1. GateInv => FaultNeedsAbandonedRequest
  BY DEF GateInv
<1> QED BY <1>1, GateCorrect, PTL

-----------------------------------------------------------------------------
(* Clients that write a request only when the last one is answered, and a  *)
(* queue with room for one request of every connection.                    *)
Calm ==
  /\ Env \subseteq {"close"} /\ IsFiniteSet(Conns) /\ Cardinality(Conns) <= MaxQueueSize

(* With calm clients no request is abandoned, so no fault has a cause. *)
LEMMA CalmHasNoFault ==
  ASSUME GateInv, CalmInv
  PROVE  ~fault
<1> SUFFICES ASSUME fault PROVE FALSE
  BY DEF GateInv, TypeOK
<1>1. PICK c \in Conns : Outstanding(c) /\ Closed(c)
  BY DEF GateInv, FaultNeedsAbandonedRequest
<1>2. client[c] \in {"open", "stalled", "eof", "reset"}
  BY <1>1 DEF GateInv, TypeOK, ClientState, Closed
<1> QED BY <1>1, <1>2 DEF CalmInv, Closed

(* Steps that do not close a connection and lose no reply keep calm. *)
LEMMA CalmKept ==
  ASSUME TypeOK, TypeOK', CalmInv, frames' = frames,
         \A c \in Conns :
           /\ client'[c] = client[c] \/ client'[c] \in {"new", "connecting"}
           /\ Len(replies[c]) <= Len(replies'[c])
           /\ client[c] \in {"open", "stalled"} => ctx'[c] = ctx[c]
  PROVE  CalmInv'
<1> SUFFICES ASSUME NEW c \in Conns
             PROVE  /\ client'[c] \in {"open", "stalled"} => ctx'[c] # Null
                    /\ client'[c] \in {"eof", "reset"} => ~Outstanding(c)'
                    /\ Len(frames'[c]) <= Len(replies'[c]) + 1
                    /\ \A i \in 1..Len(frames'[c]) : frames'[c][i].magic = TRUE
  BY DEF CalmInv
<1>1. Len(replies[c]) \in Nat /\ Len(replies'[c]) \in Nat /\ Len(frames[c]) \in Nat
  BY DEF TypeOK
<1>2. Len(frames'[c]) <= Len(replies'[c]) + 1
  <2>1. Len(frames[c]) <= Len(replies[c]) + 1
    BY DEF CalmInv
  <2> QED BY <1>1, <2>1
<1>3. ~Outstanding(c) => ~Outstanding(c)'
  BY <1>1 DEF Outstanding
<1> QED BY <1>2, <1>3 DEF CalmInv

(* A calm client's request finds its Session waiting, and its queue with   *)
(* room.                                                                   *)
LEMMA CalmRead ==
  ASSUME GateInv, CalmInv, ~fault, NEW c \in Conns, ctx[c] # Null,
         packed[c] < Len(frames[c])
  PROVE  /\ heap[ctx[c]].parser.state # "HANDLING"
         /\ frames[c][packed[c] + 1].magic = TRUE
<1>1. /\ Len(replies[c]) \in Nat /\ Len(output[c]) \in Nat /\ packed[c] \in Nat
      /\ Len(frames[c]) \in Nat
  BY DEF GateInv, TypeOK
<1>2. Len(frames[c]) <= Len(replies[c]) + 1
  BY DEF CalmInv
<1>3. client[c] \notin {"eof", "reset"}
  <2>1. Len(replies[c]) < Len(frames[c])
    BY ReadIsOutstanding
  <2> QED BY <1>1, <2>1 DEF CalmInv, Outstanding
<1>4. packed[c] # Len(replies[c]) + Len(output[c]) + 1
  <2>1. \A r, o, k, l \in Nat : k < l /\ l <= r + 1 => k # r + o + 1
    OBVIOUS
  <2> QED BY <1>1, <1>2, <2>1
<1>5. ~Busy(c)
  BY <1>3, <1>4 DEF GateInv, Answers, AnswersOf
<1>6. packed[c] + 1 \in 1..Len(frames[c])
  BY <1>1
<1> QED BY <1>5, <1>6 DEF Busy, CalmInv

(* The waiting requests are of different connections, none of them c. *)
LEMMA CalmQueueHasRoom ==
  ASSUME Calm, GateInv, CalmInv, ~fault, pc = "callbacks", NEW c \in Conns,
         ctx[c] # Null, packed[c] < Len(frames[c])
  PROVE  Len(waiting) < MaxQueueSize
<1>1. Len(waiting) \in Nat /\ MaxQueueSize \in Nat
  BY NetGateAssumption DEF GateInv, TypeOK
<1> SUFFICES ASSUME MaxQueueSize <= Len(waiting) PROVE FALSE
  BY <1>1
<1> DEFINE S == 1..Len(waiting)
           T == Conns \ {c}
           f == [i \in S |-> waiting[i].conn]
<1>2. ASSUME NEW i \in S
      PROVE  <<"waiting", i>> \in Places /\ EventAt(<<"waiting", i>>) = waiting[i]
  BY DEF Places, EventAt
<1>3. f \in [S -> T]
  <2>1. ASSUME NEW i \in S PROVE waiting[i].conn \in T
    <3>1. heap[ctx[c]].parser.state # "HANDLING"
      BY CalmRead
    <3>2. EventAt(<<"waiting", i>>).conn # c
      BY <1>2, <3>1, IdleHasNoEvent
    <3>3. EventAt(<<"waiting", i>>).conn \in Conns
      BY <1>2, PlaceTypes DEF GateInv
    <3> QED BY <1>2, <3>2, <3>3
  <2> QED BY <2>1
<1>4. IsFiniteSet(S) /\ Cardinality(S) = Len(waiting)
  <2>1. /\ IsFiniteSet(1..Len(waiting))
        /\ Cardinality(1..Len(waiting)) =
             IF 1 > Len(waiting) THEN 0 ELSE Len(waiting) - 1 + 1
    <3>1. 1 \in Int /\ Len(waiting) \in Int
      BY <1>1
    <3> QED BY <3>1, FS_Interval
  <2> QED BY <1>1, <2>1
<1>5. IsFiniteSet(T) /\ Cardinality(T) = Cardinality(Conns) - 1
  BY FS_RemoveElement DEF Calm
<1>6. Cardinality(Conns) \in Nat /\ Cardinality(T) \in Nat
  BY <1>5, FS_CardinalityType DEF Calm
<1>7. Cardinality(T) < Cardinality(S)
  BY <1>1, <1>4, <1>5, <1>6 DEF Calm
<1> HIDE DEF S, T, f
<1>8. PICK i \in S, j \in S : i # j /\ f[i] = f[j]
  BY <1>3, <1>4, <1>5, <1>7, FS_PigeonHole
<1>9. waiting[i].conn = waiting[j].conn
  BY <1>8 DEF f
<1>10. <<"waiting", i>> = <<"waiting", j>>
  BY <1>2, <1>9 DEF GateInv, OneRequestInFlight
<1> QED BY <1>8, <1>10

(* The types of what is written and read on c. *)
LEMMA SequenceTypes ==
  ASSUME TypeOK, NEW c \in Conns
  PROVE  /\ replies \in [Conns -> Seq(Reply)] /\ replies[c] \in Seq(Reply)
         /\ output[c] \in Seq(Reply)
         /\ Len(replies[c]) \in Nat /\ Len(frames[c]) \in Nat
BY DEF TypeOK

(* Calm clients stay calm as long as none hangs up on a request: Pack does  *)
(* not throw, and the queue has room.                                       *)
LEMMA CalmStep ==
  ASSUME Calm, GateInv, GateInv', CalmInv, Next,
         \A c \in Conns, how \in {"eof", "reset"} : ClientClose(c, how) => ~Outstanding(c)
  PROVE  CalmInv'
<1>1. ~fault
  BY CalmHasNoFault
<1>2. \A c \in Conns : Len(replies[c]) \in Nat /\ Len(frames[c]) \in Nat
  BY SequenceTypes DEF GateInv
<1>3. TypeOK /\ TypeOK'
  BY DEF GateInv
<1>4. ASSUME UNCHANGED <<client, ctx, frames, replies>> PROVE CalmInv'
  BY <1>2, <1>3, <1>4, CalmKept
<1>5. ASSUME NEW c \in Conns, ClientConnect(c) PROVE CalmInv'
  <2>1. client' = [client EXCEPT ![c] = "connecting"] /\ UNCHANGED <<ctx, frames, replies>>
    BY <1>5 DEF ClientConnect, bevVars
  <2>2. \A d \in Conns : client'[d] = client[d] \/ client'[d] \in {"new", "connecting"}
    BY <1>3, <2>1 DEF TypeOK
  <2>3. \A d \in Conns : Len(replies[d]) <= Len(replies'[d]) /\ ctx'[d] = ctx[d]
    BY <1>2, <2>1
  <2> QED BY <1>3, <2>1, <2>2, <2>3, CalmKept
<1>6. ASSUME NEW c \in Conns, NEW magic \in BOOLEAN, NEW stall \in BOOLEAN,
             ClientWrite(c, magic, stall)
      PROVE  CalmInv'
  <2> DEFINE f == [start |-> written[c], size |-> BodySize,
                   type |-> "kPhoneReq", magic |-> magic]
  <2>1. /\ client[c] = "open" /\ ~Outstanding(c) /\ magic /\ ~stall
        /\ frames' = [frames EXCEPT ![c] = Append(@, f)]
        /\ client' = [client EXCEPT ![c] = IF stall THEN "stalled" ELSE @]
        /\ UNCHANGED <<replies, ctx>>
    BY <1>6 DEF ClientWrite, Calm, bevVars
  <2>2. f.magic = TRUE
    BY <2>1
  <2> HIDE DEF f
  <2>3. client' = client
    BY <1>3, <2>1 DEF TypeOK
  <2>4. /\ \A d \in Conns : d # c => frames'[d] = frames[d]
        /\ Len(frames'[c]) = Len(frames[c]) + 1
        /\ \A i \in 1..Len(frames'[c]) :
             \/ i \in 1..Len(frames[c]) /\ frames'[c][i] = frames[c][i]
             \/ frames'[c][i] = f
    <3>1. frames \in [Conns -> Seq(Frame)] /\ frames[c] \in Seq(Frame)
      BY <1>3 DEF TypeOK
    <3>2. frames'[c] = Append(frames[c], f) /\ \A d \in Conns : d # c => frames'[d] = frames[d]
      BY <2>1, <3>1
    <3>3. /\ Len(frames'[c]) = Len(frames[c]) + 1
          /\ frames'[c][Len(frames[c]) + 1] = f
          /\ \A i \in 1..Len(frames[c]) : frames'[c][i] = frames[c][i]
      BY <3>1, <3>2
    <3> QED BY <1>2, <3>2, <3>3
  <2>5. Len(frames[c]) <= Len(replies[c])
    BY <1>2, <2>1 DEF Outstanding
  <2>6. Len(frames'[c]) <= Len(replies'[c]) + 1
    BY <1>2, <2>1, <2>4, <2>5
  <2>7. \A i \in 1..Len(frames'[c]) : frames'[c][i].magic = TRUE
    BY <2>2, <2>4 DEF CalmInv
  <2>8. client'[c] \in {"open", "stalled"} /\ ctx'[c] # Null
    BY <2>1, <2>3 DEF CalmInv
  <2>9. ASSUME NEW d \in Conns, d # c
        PROVE  /\ client'[d] \in {"open", "stalled"} => ctx'[d] # Null
               /\ client'[d] \in {"eof", "reset"} => ~Outstanding(d)'
               /\ Len(frames'[d]) <= Len(replies'[d]) + 1
               /\ \A i \in 1..Len(frames'[d]) : frames'[d][i].magic = TRUE
    <3>1. frames'[d] = frames[d] /\ replies'[d] = replies[d] /\ ctx'[d] = ctx[d]
          /\ client'[d] = client[d]
      BY <2>1, <2>3, <2>4, <2>9
    <3> QED BY <3>1 DEF CalmInv, Outstanding
  <2> QED BY <2>6, <2>7, <2>8, <2>9 DEF CalmInv
<1>7. ASSUME NEW c \in Conns, NEW how \in {"eof", "reset"}, ClientClose(c, how)
      PROVE  CalmInv'
  <2>1. /\ ~Outstanding(c) /\ client' = [client EXCEPT ![c] = how]
        /\ UNCHANGED <<frames, replies, ctx>>
    BY <1>7 DEF ClientClose, bevVars
  <2>2. client'[c] = how /\ \A d \in Conns : d # c => client'[d] = client[d]
    BY <1>3, <2>1 DEF TypeOK
  <2>3. \A d \in Conns : Outstanding(d)' <=> Outstanding(d)
    BY <2>1 DEF Outstanding
  <2> QED BY <2>1, <2>2, <2>3 DEF CalmInv
<1>8. ASSUME NEW c \in Conns, NEW a \in Addrs, ListenerCallback(c, a) PROVE CalmInv'
  <2>1. /\ client' = [client EXCEPT ![c] = "open"] /\ ctx' = [ctx EXCEPT ![c] = a]
        /\ UNCHANGED <<frames, replies>> /\ a # Null
    BY <1>8, NetGateAssumption DEF ListenerCallback
  <2>2. /\ client'[c] = "open" /\ ctx'[c] # Null
        /\ \A d \in Conns : d # c => client'[d] = client[d] /\ ctx'[d] = ctx[d]
    BY <1>3, <2>1 DEF TypeOK
  <2>3. \A d \in Conns : Outstanding(d)' <=> Outstanding(d)
    BY <2>1 DEF Outstanding
  <2> QED BY <2>1, <2>2, <2>3 DEF CalmInv
<1>9. ASSUME NEW c \in Conns, ReqCallback(c) PROVE CalmInv'
  <2>1. pc = "callbacks" /\ ctx[c] # Null
    BY <1>9 DEF GateInv, Bookkeeping, ReqCallback, Callback
  <2>2. PICK n \in (fed[c] + 1)..written[c] : ReqNotPacked(c, n) \/ ReqPacked(c, n)
    BY <1>9 DEF ReqCallback
  <2> DEFINE q == Pack(heap[ctx[c]].parser, off[c], n, frames[c])
  <2>3. Outcome(c, n, q)
    BY <2>1, ReadOutcome
  <2>4. packed[c] < Len(frames[c])
    BY <2>3 DEF Outcome
  <2>5. q.out # "throw"
    BY <1>1, <2>1, <2>3, <2>4, CalmRead DEF Outcome
  <2>6. Len(waiting) < MaxQueueSize
    BY <1>1, <2>1, <2>4, CalmQueueHasRoom
  <2>7. ~(Len(waiting) >= MaxQueueSize)
    <3>1. Len(waiting) \in Nat /\ MaxQueueSize \in Nat
      BY NetGateAssumption DEF GateInv, TypeOK
    <3> QED BY <2>6, <3>1
  <2>8. CASE ReqNotPacked(c, n)
    <3>1. UNCHANGED <<client, ctx, frames, replies>>
      BY <2>5, <2>8 DEF ReqNotPacked, netVars
    <3> QED BY <1>4, <3>1
  <2>9. CASE ReqPacked(c, n)
    <3>1. UNCHANGED <<client, ctx, frames, replies>>
      BY <2>7, <2>9 DEF ReqPacked, netVars
    <3> QED BY <1>4, <3>1
  <2> QED BY <2>2, <2>8, <2>9
<1>10. ASSUME NEW c \in Conns, ResCallback(c) PROVE CalmInv'
  <2>1. PICK k \in 1..Len(output[c]) :
          replies' = IF client[c] = "eof" THEN replies
                     ELSE [replies EXCEPT ![c] = @ \o SubSeq(output[c], 1, k)]
    BY <1>10 DEF ResCallback
  <2>2. UNCHANGED <<client, frames, ctx>>
    BY <1>10 DEF ResCallback
  <2>3. ASSUME NEW d \in Conns PROVE Len(replies[d]) <= Len(replies'[d])
    <3>1. /\ replies \in [Conns -> Seq(Reply)] /\ replies[c] \in Seq(Reply)
          /\ output[c] \in Seq(Reply) /\ Len(replies[d]) \in Nat /\ Len(replies[c]) \in Nat
      BY <1>3, SequenceTypes
    <3>2. Len(replies[c] \o SubSeq(output[c], 1, k)) = Len(replies[c]) + k /\ k \in Nat
      BY <3>1, MoveResponses
    <3>3. \/ replies'[d] = replies[d]
          \/ d = c /\ replies'[d] = replies[c] \o SubSeq(output[c], 1, k)
      BY <2>1, <3>1
    <3> QED BY <3>1, <3>2, <3>3
  <2> QED BY <1>3, <2>2, <2>3, CalmKept
<1>11. ASSUME NEW c \in Conns, ErrCallback(c) PROVE CalmInv'
  <2>1. ctx[c] # Null /\ client[c] \in {"eof", "reset"}
    BY <1>11 DEF GateInv, Bookkeeping, ErrCallback, Callback
  <2>2. \A d \in Conns : d # c => ctx'[d] = ctx[d]
    BY <1>11, <2>1, DeleteFacts DEF ErrCallback
  <2>3. UNCHANGED <<client, frames, replies>>
    BY <1>11 DEF ErrCallback, netVars
  <2> QED BY <1>2, <1>3, <2>1, <2>2, <2>3, CalmKept
<1>12. CASE Clients
  BY <1>5, <1>6, <1>7, <1>12 DEF Clients
<1>13. CASE Poll \/ SetHandling \/ Drag \/ HandleResult \/ Sleep
  <2>1. UNCHANGED <<client, ctx, frames, replies>>
    BY <1>13, Zenon DEF Poll, SetHandling, Drag, HandleResult, Sleep, netVars, bevVars
  <2> QED BY <1>4, <2>1
<1>14. CASE Loop
  BY <1>8, <1>9, <1>10, <1>11, <1>13, <1>14 DEF Loop
<1>15. CASE \E w \in Workers : Work(w)
  <2>1. UNCHANGED <<client, ctx, frames, replies>>
    BY <1>15, Zenon DEF Work, Take, Handle, Publish, netVars, bevVars
  <2> QED BY <1>4, <2>1
<1> QED BY <1>12, <1>14, <1>15 DEF Next

(* A client that hung up stays away, and its request unanswered. *)
LEMMA HungUpStays ==
  ASSUME GateInv, Next, NEW c \in Conns, HungUp(c)
  PROVE  HungUp(c)'
<1>1. client[c] \in {"eof", "reset"} /\ TypeOK
  BY DEF HungUp, GateInv
<1>2. ASSUME client'[c] = client[c], frames'[c] = frames[c], replies'[c] = replies[c]
      PROVE  HungUp(c)'
  BY <1>2 DEF HungUp, Outstanding
<1>3. ASSUME NEW d \in Conns, ClientConnect(d) PROVE HungUp(c)'
  BY <1>1, <1>2, <1>3 DEF ClientConnect, TypeOK
<1>4. ASSUME NEW d \in Conns, NEW magic \in BOOLEAN, NEW stall \in BOOLEAN,
             ClientWrite(d, magic, stall)
      PROVE  HungUp(c)'
  BY <1>1, <1>2, <1>4 DEF ClientWrite, TypeOK
<1>5. ASSUME NEW d \in Conns, NEW how \in {"eof", "reset"}, ClientClose(d, how)
      PROVE  HungUp(c)'
  BY <1>1, <1>2, <1>5 DEF ClientClose, TypeOK
<1>6. ASSUME NEW d \in Conns, NEW a \in Addrs, ListenerCallback(d, a) PROVE HungUp(c)'
  <2>1. client[d] = "connecting"
    BY <1>6 DEF ListenerCallback, Callback, GateInv, Bookkeeping
  <2>2. client' = [client EXCEPT ![d] = "open"] /\ UNCHANGED <<frames, replies>>
    BY <1>6 DEF ListenerCallback
  <2> QED BY <1>1, <1>2, <2>1, <2>2 DEF TypeOK
<1>7. ASSUME NEW d \in Conns, ResCallback(d) PROVE HungUp(c)'
  <2>1. PICK k \in 1..Len(output[d]) :
          replies' = IF client[d] = "eof" THEN replies
                     ELSE [replies EXCEPT ![d] = @ \o SubSeq(output[d], 1, k)]
    BY <1>7 DEF ResCallback
  <2>2. client[d] # "reset" /\ UNCHANGED <<client, frames>>
    BY <1>7 DEF ResCallback
  <2> QED BY <1>1, <1>2, <2>1, <2>2 DEF TypeOK
<1>8. ASSUME NEW d \in Conns, ReqCallback(d) \/ ErrCallback(d) PROVE HungUp(c)'
  <2>1. UNCHANGED netVars
    BY <1>8, Zenon DEF ReqCallback, ReqNotPacked, ReqPacked, ErrCallback
  <2> QED BY <1>2, <2>1 DEF netVars
<1>9. CASE Poll \/ SetHandling \/ Drag \/ HandleResult \/ Sleep \/ \E w \in Workers : Work(w)
  <2>1. UNCHANGED netVars
    BY <1>9, Zenon DEF Poll, SetHandling, Drag, HandleResult, Sleep, Work, Take, Handle, Publish
  <2> QED BY <1>2, <2>1 DEF netVars
<1> QED
  BY <1>3, <1>4, <1>5, <1>6, <1>7, <1>8, <1>9 DEF Next, Clients, Loop

(* No client has hung up on a request of its own. *)
Gentle == \A c \in Conns : ~HungUp(c)

(* With clients that write one request at a time, and no more connections   *)
(* than the queue has places, a deleted Session is used only after a client *)
(* hung up while it waited for an answer: as long as none did, the server   *)
(* closes no connection with a request of it in the pool.                   *)
THEOREM CalmFaultOnlyAfterHangUp ==
  ASSUME Calm
  PROVE  Spec => []FaultOnlyAfterHangUp
<1> DEFINE I == Gentle => CalmInv
<1>1. Init => I
  BY DEF Init, CalmInv
<1>2. GateInv /\ GateInv' /\ I /\ [Next]_vars => I'
  <2>1. ASSUME GateInv, I, Gentle', UNCHANGED vars PROVE CalmInv'
    <3>1. Gentle
      BY <2>1 DEF Gentle, HungUp, Outstanding, vars, netVars
    <3> QED BY <2>1, <3>1 DEF CalmInv, Outstanding, vars, netVars, bevVars
  <2>2. ASSUME GateInv, GateInv', I, Gentle', Next PROVE CalmInv'
    <3>1. Gentle /\ CalmInv
      BY <2>2, HungUpStays DEF Gentle
    <3>2. ASSUME NEW c \in Conns, NEW how \in {"eof", "reset"}, ClientClose(c, how)
          PROVE  ~Outstanding(c)
      <4>1. client'[c] = how /\ UNCHANGED <<frames, replies>>
        BY <2>2, <3>2 DEF ClientClose, GateInv, TypeOK
      <4> QED BY <2>2, <4>1 DEF Gentle, HungUp, Outstanding
    <3> QED BY <2>2, <3>1, <3>2, CalmStep
  <2> QED BY <2>1, <2>2
<1>3. GateInv /\ I => FaultOnlyAfterHangUp
  BY CalmHasNoFault DEF FaultOnlyAfterHangUp, Gentle
<1> HIDE DEF I
<1> QED BY <1>1, <1>2, <1>3, GateCorrect, PTL DEF Spec

(* No access ever uses a Session that was deleted: the callbacks', the     *)
(* workers' and handle_results' pointers are good when they are used.      *)
NoUseAfterDelete == ~fault

(* If moreover clients leave only between requests, no deleted Session is   *)
(* ever used: not by a worker, not by handle_results, not by the end of     *)
(* ReqCallback.                                                             *)
THEOREM CalmNeverFaults ==
  ASSUME Calm, Env = {}
  PROVE  Spec => []NoUseAfterDelete
<1>1. Init => CalmInv
  BY DEF Init, CalmInv
<1>2. GateInv /\ GateInv' /\ CalmInv /\ [Next]_vars => CalmInv'
  <2>1. ASSUME GateInv, CalmInv, UNCHANGED vars PROVE CalmInv'
    BY <2>1 DEF CalmInv, Outstanding, vars, netVars, bevVars
  <2>2. \A c \in Conns, how \in {"eof", "reset"} : ClientClose(c, how) => ~Outstanding(c)
    BY DEF ClientClose
  <2> QED BY <2>1, <2>2, CalmStep
<1>3. GateInv /\ CalmInv => NoUseAfterDelete
  BY CalmHasNoFault DEF NoUseAfterDelete
<1> QED BY <1>1, <1>2, <1>3, GateCorrect, PTL DEF Spec

-----------------------------------------------------------------------------
(* The pool as the gate uses it is a task service. *)
Running == {worker[w] : w \in {v \in Workers : worker[v] # Null}}
Request == [addr : Addrs, conn : Conns, n : 1..MaxRequests]
ServiceVars == <<waiting, Running, results, batch>>

(* What a thread executes is an event in the pool. *)
LEMMA WorkerPlace ==
  ASSUME NEW w \in Workers, worker[w] # Null
  PROVE  <<"worker", w>> \in Places /\ EventAt(<<"worker", w>>) = worker[w]
BY DEF Places, EventAt

(* An event is about one of the requests a client may write. *)
LEMMA EventIsRequest ==
  ASSUME GateInv, NEW p \in Places
  PROVE  EventAt(p) \in Request
<1>1. PICK e \in Event : /\ e = EventAt(p) /\ e.addr \in Addrs /\ e.conn \in Conns
                         /\ e.n \in Nat /\ 1 <= e.n /\ e.n <= packed[e.conn]
  BY PlaceTypes DEF GateInv, Travelling
<1>2. /\ packed[e.conn] \in Nat /\ Len(frames[e.conn]) \in Nat
      /\ packed[e.conn] <= Len(frames[e.conn])
  BY <1>1, PackedWritten DEF GateInv
<1>3. Len(frames[e.conn]) <= MaxRequests /\ MaxRequests \in Nat
  BY <1>1, NetGateAssumption DEF GateInv, Stream, StreamOf
<1>4. e.n \in 1..MaxRequests
  BY <1>1, <1>2, <1>3
<1> QED BY <1>1, <1>4 DEF Event, Request

(* Push accepts a task that the service does not hold. *)
LEMMA PushAccepts ==
  ASSUME GateInv, NEW c \in Conns, ctx[c] # Null, packed[c] < Len(frames[c]),
         Len(waiting) < MaxQueueSize,
         waiting' = Append(waiting, [addr |-> ctx[c], conn |-> c, n |-> packed[c] + 1]),
         UNCHANGED <<worker, results, batch>>
  PROVE  Service!Next
<1> DEFINE t == [addr |-> ctx[c], conn |-> c, n |-> packed[c] + 1]
<1>1. t \in Request /\ t.conn = c /\ t.n = packed[c] + 1
  <2>1. ctx[c] \in Addrs
    BY CtxLive DEF GateInv
  <2>2. packed[c] + 1 \in 1..MaxRequests
    <3>1. packed[c] \in Nat /\ Len(frames[c]) \in Nat
      BY PackedWritten DEF GateInv
    <3>2. Len(frames[c]) <= MaxRequests /\ MaxRequests \in Nat
      BY NetGateAssumption DEF GateInv, Stream, StreamOf
    <3> QED BY <3>1, <3>2
  <2> QED BY <2>1, <2>2 DEF Request
<1> HIDE DEF t
<1>2. \A p \in Places : EventAt(p) # t
  <2>1. ASSUME NEW p \in Places, EventAt(p) = t PROVE FALSE
    <3>1. t.n <= packed[c] /\ packed[c] \in Nat
      BY <1>1, <2>1 DEF GateInv, TypeOK, Travelling
    <3> QED BY <1>1, <3>1
  <2> QED BY <2>1
<1>3. \A i \in 1..Len(waiting) : waiting[i] # t
  <2>1. \A i \in 1..Len(waiting) :
          <<"waiting", i>> \in Places /\ EventAt(<<"waiting", i>>) = waiting[i]
    BY DEF Places, EventAt
  <2> QED BY <1>2, <2>1
<1>4. \A i \in 1..Len(results) : results[i] # t
  <2>1. \A i \in 1..Len(results) :
          <<"results", i>> \in Places /\ EventAt(<<"results", i>>) = results[i]
    BY DEF Places, EventAt
  <2> QED BY <1>2, <2>1
<1>5. t \notin Running
  BY <1>2, WorkerPlace DEF Running
<1>9. \A i \in 1..Len(batch) : batch[i] # t
  <2>1. \A i \in 1..Len(batch) :
          <<"batch", i>> \in Places /\ EventAt(<<"batch", i>>) = batch[i]
    BY DEF Places, EventAt
  <2> QED BY <1>2, <2>1
<1>6. t \notin Service!Held
  BY <1>3, <1>4, <1>5, <1>9 DEF Service!Held, Running
<1>7. waiting' = Append(waiting, t) /\ Running' = Running
  BY DEF t, Running
<1>8. Service!Accept(t)
  BY <1>6, <1>7 DEF Service!Accept, Running
<1> QED BY <1>1, <1>8 DEF Service!Next, Request

(* A free thread takes the oldest task; there are no more tasks running     *)
(* than threads.                                                            *)
LEMMA TakeStarts ==
  ASSUME GateInv, NEW w \in Workers, Take(w)
  PROVE  Service!Next
<1>1. /\ worker[w] = Null /\ waiting # <<>> /\ waiting \in Seq(Event)
      /\ worker' = [worker EXCEPT ![w] = Head(waiting)] /\ waiting' = Tail(waiting)
      /\ results' = results /\ batch' = batch
      /\ worker \in [Workers -> Event \cup {Null}]
  BY DEF GateInv, TypeOK, Take, loopVars
<1>2. Head(waiting) # Null
  BY <1>1, NetGateAssumption
<1> DEFINE B == {v \in Workers : worker[v] # Null}
<1>3. Running' = Running \cup {Head(waiting)}
  <2>1. {v \in Workers : worker'[v] # Null} = B \cup {w}
    BY <1>1, <1>2
  <2>2. worker'[w] = Head(waiting) /\ \A v \in B : worker'[v] = worker[v]
    BY <1>1
  <2> QED BY <2>1, <2>2 DEF Running
<1>4. Cardinality(Running) < Cardinality(Workers)
  <2>1. IsFiniteSet(Workers)
    BY NetGateAssumption
  <2>2. /\ IsFiniteSet(Workers \ {w}) /\ Cardinality(Workers \ {w}) = Cardinality(Workers) - 1
        /\ Cardinality(Workers) \in Nat
    BY <2>1, FS_RemoveElement, FS_CardinalityType
  <2>3. B \subseteq Workers \ {w}
    BY <1>1
  <2>4. IsFiniteSet(B) /\ Cardinality(B) <= Cardinality(Workers \ {w})
    BY <2>2, <2>3, FS_Subset
  <2> DEFINE f == [v \in B |-> worker[v]]
  <2>5. f \in Surjection(B, Running)
    BY DEF Running, Surjection
  <2> HIDE DEF f, B
  <2>6. IsFiniteSet(Running) /\ Cardinality(Running) <= Cardinality(B)
    BY <2>4, <2>5, FS_Surjection
  <2>7. Cardinality(Running) \in Nat /\ Cardinality(B) \in Nat
    BY <2>4, <2>6, FS_CardinalityType
  <2> QED BY <2>2, <2>4, <2>6, <2>7
<1>5. /\ Service!Cardinality(Running) = Cardinality(Running)
  BY DEF Service!Cardinality, Cardinality, Service!IsFiniteSet, IsFiniteSet
<1>6. Service!Start
  BY <1>1, <1>3, <1>4, <1>5 DEF Service!Start, Running
<1> QED BY <1>6 DEF Service!Next

(* A published task is no longer running, as no other thread executes it. *)
LEMMA PublishFinishes ==
  ASSUME GateInv, NEW w \in Workers, Publish(w)
  PROVE  Service!Next
<1>1. /\ worker[w] # Null /\ worker' = [worker EXCEPT ![w] = Null]
      /\ results' = Append(results, worker[w]) /\ waiting' = waiting
      /\ batch' = batch /\ worker \in [Workers -> Event \cup {Null}]
  BY DEF GateInv, TypeOK, Bookkeeping, Publish, loopVars
<1>2. worker[w] \in Request /\ worker[w] \in Running
  BY <1>1, WorkerPlace, EventIsRequest DEF Running
<1>3. ASSUME NEW v \in Workers, v # w, worker[v] # Null
      PROVE  worker[v] # worker[w]
  <2>1. <<"worker", v>> \in Places /\ EventAt(<<"worker", v>>) = worker[v]
    BY <1>3, WorkerPlace
  <2>2. <<"worker", w>> \in Places /\ EventAt(<<"worker", w>>) = worker[w]
    BY <1>1, WorkerPlace
  <2>3. <<"worker", v>> # <<"worker", w>>
    BY <1>3
  <2> QED BY <2>1, <2>2, <2>3 DEF GateInv, Travelling
<1>4. Running' = Running \ {worker[w]}
  BY <1>1, <1>3 DEF Running
<1>5. PICK t \in Request : t = worker[w]
  BY <1>2
<1>6. Service!Finish(t)
  BY <1>1, <1>2, <1>4, <1>5 DEF Service!Finish, Running
<1> QED BY <1>6 DEF Service!Next, Request

(* Every request that is pushed is started once, in the order of the       *)
(* pushes, by one of the pool's threads; its result is not lost, Drag takes *)
(* it out once, and handle_results works it off once: for any threads,      *)
(* queue size and clients, hostile ones included, the pool and the loop of  *)
(* this model are the task service that tiny_tp is, and a user of it.       *)
THEOREM GatePoolIsTaskService == Spec => PoolIsTaskService
<1>1. Init => Service!Init
  BY DEF Init, Service!Init
<1>2. GateInv /\ [Next]_vars => [Service!Next]_ServiceVars
  <2> SUFFICES ASSUME GateInv, [Next]_vars
               PROVE  Service!Next \/ UNCHANGED ServiceVars
    OBVIOUS
  <2>1. ASSUME UNCHANGED <<waiting, worker, results, batch>> PROVE UNCHANGED ServiceVars
    BY <2>1 DEF ServiceVars, Running
  <2>2. CASE UNCHANGED vars
    BY <2>1, <2>2 DEF vars, poolVars, loopVars
  <2>3. CASE Clients
    BY <2>1, <2>3 DEF Clients, ClientConnect, ClientWrite, ClientClose, poolVars, loopVars
  <2>4. ASSUME NEW c \in Conns, ReqCallback(c)
        PROVE  Service!Next \/ UNCHANGED ServiceVars
    <3>1. pc = "callbacks" /\ ctx[c] # Null
      BY <2>4 DEF GateInv, Bookkeeping, ReqCallback, Callback
    <3>2. PICK n \in (fed[c] + 1)..written[c] : ReqNotPacked(c, n) \/ ReqPacked(c, n)
      BY <2>4 DEF ReqCallback
    <3>3. packed[c] < Len(frames[c])
      BY <3>1, ReadOutcome DEF Outcome
    <3>4. CASE ReqNotPacked(c, n)
      BY <2>1, <3>4 DEF ReqNotPacked, poolVars
    <3>5. CASE ReqPacked(c, n)
      <4>1. /\ packed' = [packed EXCEPT ![c] = @ + 1] /\ UNCHANGED <<worker, results, batch>>
            /\ \/ /\ Len(waiting) < MaxQueueSize
                  /\ waiting' = Append(waiting, [addr |-> ctx[c], conn |-> c, n |-> packed'[c]])
               \/ waiting' = waiting
        BY <3>5 DEF ReqPacked, Push
      <4>2. packed'[c] = packed[c] + 1
        BY <4>1 DEF GateInv, TypeOK
      <4>3. CASE waiting' = waiting
        BY <2>1, <4>1, <4>3
      <4>4. CASE /\ Len(waiting) < MaxQueueSize
                 /\ waiting' = Append(waiting, [addr |-> ctx[c], conn |-> c, n |-> packed'[c]])
        BY <3>1, <3>3, <4>1, <4>2, <4>4, PushAccepts
      <4> QED BY <4>1, <4>3, <4>4
    <3> QED BY <3>2, <3>4, <3>5
  <2>5. ASSUME NEW c \in Conns,
               (\E a \in Addrs : ListenerCallback(c, a)) \/ ResCallback(c) \/ ErrCallback(c)
        PROVE  UNCHANGED ServiceVars
    <3>1. UNCHANGED poolVars /\ batch' = batch
      BY <2>5, Zenon DEF ListenerCallback, ResCallback, ErrCallback
    <3> QED BY <2>1, <3>1 DEF poolVars
  <2>6. CASE Poll \/ SetHandling \/ Sleep
    <3>1. UNCHANGED poolVars /\ batch' = batch
      BY <2>6, Zenon DEF Poll, SetHandling, Sleep
    <3> QED BY <2>1, <3>1 DEF poolVars
  <2>10. CASE HandleResult
    <3>1. batch # <<>> /\ batch' = Tail(batch) /\ UNCHANGED poolVars
      BY <2>10, Zenon DEF HandleResult
    <3>2. UNCHANGED <<waiting, results, Running>>
      BY <3>1 DEF poolVars, Running
    <3> QED BY <3>1, <3>2 DEF Service!Next, Service!WorkOff, Running
  <2>7. CASE Drag
    <3>1. batch' = results /\ results' = <<>> /\ UNCHANGED <<waiting, Running>>
      BY <2>7 DEF Drag, Running
    <3> QED BY <3>1 DEF Service!Next, Service!Collect, Running
  <2>8. ASSUME NEW w \in Workers, Work(w)
        PROVE  Service!Next \/ UNCHANGED ServiceVars
    <3>1. CASE Handle(w)
      <4>1. UNCHANGED <<waiting, worker, results, batch>>
        BY <3>1, Zenon DEF Handle, loopVars
      <4> QED BY <2>1, <4>1
    <3> QED BY <2>8, <3>1, TakeStarts, PublishFinishes DEF Work
  <2>9. CASE Loop
    BY <2>4, <2>5, <2>6, <2>7, <2>9, <2>10 DEF Loop
  <2> QED BY <2>2, <2>3, <2>8, <2>9 DEF Next
<1> QED BY <1>1, <1>2, GateCorrect, PTL
   DEF Spec, PoolIsTaskService, Service!Spec, Service!serviceVars, ServiceVars, Running
=============================================================================
