------------------------------- MODULE NetGate -------------------------------
(***************************************************************************)
(* The server's request pipeline: the loop thread (main's loop, libevent's *)
(* callbacks, NetGate::handle_results), the Session objects it allocates   *)
(* and deletes, DispatchEventsService and its pool of worker threads, and  *)
(* the clients.                                                            *)
(*                                                                         *)
(* A Session is an object at a heap address.  The bufferevent of a         *)
(* connection holds the address as its callback context, and an event      *)
(* holds it while it travels through the pool: both are plain pointers.    *)
(* The allocator may hand the address of a deleted Session to the next     *)
(* one.  Using an address whose object is not the one the pointer was      *)
(* made for is undefined behaviour: `fault' records it, and what happens   *)
(* is one of what the build can do: if the address holds a new Session,    *)
(* that one is used; if it holds none, the access is without visible       *)
(* effect, or the process dies.                                            *)
(***************************************************************************)
EXTENDS MsgProxy, FiniteSets

CONSTANTS
  Conns,          \* client connections
  Addrs,          \* heap addresses for Session objects
  Workers,        \* threads of the pool
  MaxQueueSize,   \* kMaxQueueSize, 65535 in the code
  BodySize,       \* size of every request body
  MaxRequests,    \* bound: requests a client writes on its connection
  Env             \* what clients may do besides one request at a time

(* Client behaviour beyond the request-response protocol that the client   *)
(* simulator follows: "close", the connection ends while a request is      *)
(* outstanding; "pipeline", a request is written before the last one is    *)
(* answered; "malformed", a frame without the magic header; "stall", only  *)
(* part of a request is ever written.                                      *)
Behaviours == {"close", "pipeline", "malformed", "stall"}

CONSTANT Null     \* no address, no connection, no event

(* An IEvent: the Session it points to, and the request it is about. *)
Event == [addr : Addrs, conn : Conns, n : Nat]

ASSUME NetGateAssumption ==
  /\ MaxQueueSize \in Nat
  /\ BodySize \in Nat \ {0}
  /\ MaxRequests \in Nat
  /\ IsFiniteSet(Workers)
  /\ Env \subseteq Behaviours
  /\ Null \notin Conns /\ Null \notin Addrs /\ Null \notin Event

VARIABLES
  \* clients and sockets
  client,     \* client[c]: the client's end of connection c
  frames,     \* frames[c]: frames written on c
  written,    \* written[c]: bytes written on c
  replies,    \* replies[c]: responses that reached the client
  \* bufferevents
  ctx,        \* ctx[c]: callback context of c's bufferevent, Null if none
  fed,        \* fed[c]: bytes moved from the socket to the input buffer
  off,        \* off[c]: bytes Pack took from the input buffer
  packed,     \* packed[c]: requests that became events
  output,     \* output[c]: responses in the output buffer
  \* Session objects
  heap,       \* heap[a]: the Session at a, or NoSession
  \* the loop thread
  pc,         \* "poll", "callbacks", "pushed", "results"
  ready,      \* active libevent events of this iteration
  cur,        \* ReqCallback's session, between Push and set_state
  batch,      \* handle_results: results still to be written
  \* the pool
  waiting,    \* waiting_queue_
  worker,     \* worker[w]: the event thread w executes, or Null
  handled,    \* handled[w]: its handler has returned
  results,    \* results_queue_
  \* undefined behaviour
  fault,      \* some access used a deleted Session
  crashed     \* ... and it killed the process

netVars  == <<client, frames, written, replies>>
bevVars  == <<ctx, fed, off, packed, output>>
loopVars == <<pc, ready, cur, batch>>
poolVars == <<waiting, worker, handled, results>>
vars == <<netVars, bevVars, heap, loopVars, poolVars, fault, crashed>>

-----------------------------------------------------------------------------
(* Session: the connection it was made for, its parser, the number of      *)
(* responses flushed (count_, 8 bits), and who last stored identifier_ and *)
(* phone_number_ in it.                                                    *)
ClientState == {"new", "connecting", "open", "stalled", "eof", "reset"}

NoSession == [conn |-> Null, parser |-> NewParser, count |-> 0, data |-> Null]
NewSession(c) == [NoSession EXCEPT !.conn = c]

Live(a) == heap[a].conn # Null

Init ==
  /\ client = [c \in Conns |-> "new"]
  /\ frames = [c \in Conns |-> <<>>]
  /\ written = [c \in Conns |-> 0]
  /\ replies = [c \in Conns |-> <<>>]
  /\ ctx = [c \in Conns |-> Null]
  /\ fed = [c \in Conns |-> 0]
  /\ off = [c \in Conns |-> 0]
  /\ packed = [c \in Conns |-> 0]
  /\ output = [c \in Conns |-> <<>>]
  /\ heap = [a \in Addrs |-> NoSession]
  /\ pc = "poll" /\ ready = {} /\ cur = Null /\ batch = <<>>
  /\ waiting = <<>> /\ results = <<>>
  /\ worker = [w \in Workers |-> Null]
  /\ handled = [w \in Workers |-> FALSE]
  /\ fault = FALSE /\ crashed = FALSE

-----------------------------------------------------------------------------
(* Clients *)

(* The client has written a request that is not answered. *)
Outstanding(c) == Len(frames[c]) > Len(replies[c])

ClientConnect(c) ==
  /\ client[c] = "new"
  /\ client' = [client EXCEPT ![c] = "connecting"]
  /\ UNCHANGED <<frames, written, replies, bevVars, heap, loopVars, poolVars,
                 fault, crashed>>

(* A client that stalls writes the first byte of its frame and no more. *)
ClientWrite(c, magic, stall) ==
  /\ client[c] = "open"
  /\ Len(frames[c]) < MaxRequests
  /\ "pipeline" \in Env \/ ~Outstanding(c)
  /\ magic \/ "malformed" \in Env
  /\ stall => "stall" \in Env
  /\ frames' = [frames EXCEPT ![c] =
                  Append(@, [start |-> written[c], size |-> BodySize,
                             type |-> "kPhoneReq", magic |-> magic])]
  /\ written' = [written EXCEPT ![c] =
                   @ + (IF stall THEN 1 ELSE HeaderSize + BodySize)]
  /\ client' = [client EXCEPT ![c] = IF stall THEN "stalled" ELSE @]
  /\ UNCHANGED <<replies, bevVars, heap, loopVars, poolVars, fault, crashed>>

(* how is "eof" for an orderly close, "reset" for an abort. *)
ClientClose(c, how) ==
  /\ client[c] \in {"open", "stalled"}
  /\ "close" \in Env \/ ~Outstanding(c)
  /\ client' = [client EXCEPT ![c] = how]
  /\ UNCHANGED <<frames, written, replies, bevVars, heap, loopVars, poolVars,
                 fault, crashed>>

-----------------------------------------------------------------------------
(* The event loop *)

(* The active events of one poll of event_base_loop(EVLOOP_NONBLOCK). *)
Accepting(c) == client[c] = "connecting"
Readable(c) ==
  /\ ctx[c] # Null
  /\ fed[c] < written[c] \/ client[c] \in {"eof", "reset"}
Writable(c) == ctx[c] # Null /\ output[c] # <<>>

(* NetGate::Dispatch begins: every active event runs its callback once. *)
Poll ==
  /\ pc = "poll"
  /\ pc' = "callbacks"
  /\ ready' = {<<"accept", c>> : c \in {d \in Conns : Accepting(d)}}
                \cup {<<"read", c>> : c \in {d \in Conns : Readable(d)}}
                \cup {<<"write", c>> : c \in {d \in Conns : Writable(d)}}
  /\ UNCHANGED <<netVars, bevVars, heap, cur, batch, poolVars, fault, crashed>>

Callback(kind, c) == pc = "callbacks" /\ <<kind, c>> \in ready

(* new Session; its bufferevent gets the pointer as callback context. *)
ListenerCallback(c, a) ==
  /\ Callback("accept", c)
  /\ ~Live(a)
  /\ heap' = [heap EXCEPT ![a] = NewSession(c)]
  /\ ctx' = [ctx EXCEPT ![c] = a]
  /\ client' = [client EXCEPT ![c] = "open"]
  /\ ready' = ready \ {<<"accept", c>>}
  /\ UNCHANGED <<frames, written, replies, fed, off, packed, output, pc, cur,
                 batch, poolVars, fault, crashed>>

(* Mutant: the Session is freed, its bufferevent is not. *)
DeleteSessionOnly(a) ==
  /\ heap' = [heap EXCEPT ![a] = NoSession]
  /\ ready' = ready \ {<<"read", heap[a].conn>>}
  /\ UNCHANGED <<ctx, output>>

(* delete session: frees the object and, through bufev_'s deleter, the     *)
(* bufferevent; BEV_OPT_CLOSE_ON_FREE closes the socket, and no callback,  *)
(* an active one included, runs for it any more.                           *)
DeleteSession(a) ==
  LET c == heap[a].conn IN
  /\ heap' = [heap EXCEPT ![a] = NoSession]
  /\ ctx' = [ctx EXCEPT ![c] = Null]
  /\ output' = [output EXCEPT ![c] = <<>>]
  /\ ready' = ready \ {<<"read", c>>, <<"write", c>>}

(* An access to a deleted Session whose address holds no other one. *)
UseAfterDelete == fault' = TRUE /\ crashed' \in BOOLEAN

NoFault == UNCHANGED <<fault, crashed>>

(* DispatchEventsService::Push: kPhoneReq has a handler, so it is Drop's    *)
(* answer: whether the queue had room.                                      *)
Push(e) ==
  /\ Len(waiting) < MaxQueueSize
  /\ waiting' = Append(waiting, e)

(* Pack returned no event, or threw: then the session is deleted and the   *)
(* log line after the catch block reads its socket_.                       *)
ReqNotPacked(c, n) ==
  LET a == ctx[c]
      q == Pack(heap[a].parser, off[c], n, frames[c])
  IN  /\ q.out # "event"
      /\ fed' = [fed EXCEPT ![c] = n]
      /\ off' = [off EXCEPT ![c] = q.off]
      /\ \/ /\ q.out = "null"
            /\ heap' = [heap EXCEPT ![a].parser = q.p]
            /\ ready' = ready \ {<<"read", c>>}
            /\ UNCHANGED <<ctx, output>>
            /\ NoFault
         \/ /\ q.out = "throw"
            /\ DeleteSession(a)
            /\ UseAfterDelete
      /\ UNCHANGED <<netVars, packed, pc, cur, batch, poolVars>>

(* Pack returned an event: it is pushed, and the callback goes on to       *)
(* set_state (SetHandling) with the same pointer whether Push succeeded or *)
(* failed and the session was deleted.                                     *)
ReqPacked(c, n) ==
  LET a == ctx[c]
      q == Pack(heap[a].parser, off[c], n, frames[c])
  IN  /\ q.out = "event"
      /\ fed' = [fed EXCEPT ![c] = n]
      /\ off' = [off EXCEPT ![c] = q.off]
      /\ packed' = [packed EXCEPT ![c] = @ + 1]
      /\ pc' = "pushed" /\ cur' = a
      /\ \/ /\ Push([addr |-> a, conn |-> c, n |-> packed'[c]])
            /\ heap' = [heap EXCEPT ![a].parser = q.p]
            /\ ready' = ready \ {<<"read", c>>}
            /\ UNCHANGED <<ctx, output>>
         \/ /\ Len(waiting) >= MaxQueueSize
            /\ DeleteSession(a)
            /\ UNCHANGED waiting
      /\ UNCHANGED <<netVars, batch, worker, handled, results>>
      /\ NoFault

(* bufferevent's read handler: a piece of the stream, then ReqCallback. *)
ReqCallback(c) ==
  /\ Callback("read", c)
  /\ \E n \in (fed[c] + 1)..written[c] : ReqNotPacked(c, n) \/ ReqPacked(c, n)

(* Mutant: the session does not become HANDLING. *)
SetNothing ==
  /\ pc = "pushed"
  /\ pc' = "callbacks" /\ cur' = Null
  /\ UNCHANGED <<netVars, bevVars, heap, ready, batch, poolVars, fault, crashed>>

SetHandling ==
  /\ pc = "pushed"
  /\ pc' = "callbacks" /\ cur' = Null
  /\ \/ /\ Live(cur)
        /\ heap' = [heap EXCEPT ![cur].parser.state = "HANDLING"]
        /\ NoFault
     \/ /\ ~Live(cur)
        /\ UNCHANGED heap
        /\ UseAfterDelete
  /\ UNCHANGED <<netVars, bevVars, ready, batch, poolVars>>

(* Mutants: what was written stays in the output buffer; an end of file    *)
(* only ends the callback.                                                 *)
ResCallbackKeeps(c) ==
  /\ Callback("write", c) /\ client[c] = "open"
  /\ replies' = [replies EXCEPT ![c] = @ \o output[c]]
  /\ ready' = ready \ {<<"write", c>>}
  /\ UNCHANGED <<client, frames, written, bevVars, heap, pc, cur, batch,
                 poolVars, fault, crashed>>
ErrCallbackReturns(c) ==
  /\ Callback("read", c) /\ client[c] \in {"eof", "reset"}
  /\ ready' = ready \ {<<"read", c>>}
  /\ UNCHANGED <<netVars, bevVars, heap, pc, cur, batch, poolVars, fault, crashed>>

(* The write handler moves responses to the socket; ResCallback runs when  *)
(* the output buffer is empty.  count_ is a uint8_t.                       *)
ResCallback(c) ==
  /\ Callback("write", c)
  /\ client[c] # "reset"
  /\ \E k \in 1..Len(output[c]) :
       /\ output' = [output EXCEPT ![c] = SubSeq(@, k + 1, Len(@))]
       /\ replies' = IF client[c] = "eof" THEN replies
                     ELSE [replies EXCEPT ![c] = @ \o SubSeq(output[c], 1, k)]
       /\ heap' = IF k < Len(output[c]) THEN heap
                  ELSE [heap EXCEPT ![ctx[c]].count = (@ + 1) % 256]
  /\ ready' = ready \ {<<"write", c>>}
  /\ UNCHANGED <<client, frames, written, ctx, fed, off, packed, pc, cur,
                 batch, poolVars, fault, crashed>>

(* End of file after the last byte was read, or an error on read or write; *)
(* whether bytes before a reset are still read depends on the platform.    *)
(* No timeout is ever set on a bufferevent, so those branches never run.   *)
ErrCallback(c) ==
  /\ \/ Callback("read", c) /\ client[c] = "eof" /\ fed[c] = written[c]
     \/ Callback("read", c) /\ client[c] = "reset"
     \/ Callback("write", c) /\ client[c] = "reset"
  /\ DeleteSession(ctx[c])
  /\ UNCHANGED <<netVars, fed, off, packed, pc, cur, batch, poolVars,
                 fault, crashed>>

(* Mutant: results are read and stay in the queue. *)
DragKeeps ==
  /\ pc = "callbacks" /\ ready = {}
  /\ pc' = "results" /\ batch' = results
  /\ UNCHANGED <<netVars, bevVars, heap, ready, cur, poolVars, fault, crashed>>

(* handle_results: DispatchEventsService::Drag takes all results. *)
Drag ==
  /\ pc = "callbacks" /\ ready = {}
  /\ pc' = "results"
  /\ batch' = results /\ results' = <<>>
  /\ UNCHANGED <<netVars, bevVars, heap, ready, cur, waiting, worker, handled,
                 fault, crashed>>

(* One result: the response is written to the bufferevent of the Session   *)
(* that the event points to, and that Session waits for a request again.   *)
HandleResult ==
  /\ pc = "results" /\ batch # <<>>
  /\ batch' = Tail(batch)
  /\ LET e == Head(batch)
         d == heap[e.addr].conn
     IN  \/ /\ Live(e.addr)
            /\ output' = [output EXCEPT ![d] =
                            Append(@, [conn |-> e.conn, n |-> e.n])]
            /\ heap' = [heap EXCEPT ![e.addr].parser.state = "WAITING_REQUEST"]
            /\ fault' = (fault \/ d # e.conn)
            /\ UNCHANGED crashed
         \/ /\ ~Live(e.addr)
            /\ UNCHANGED <<output, heap>>
            /\ UseAfterDelete
  /\ UNCHANGED <<netVars, ctx, fed, off, packed, pc, ready, cur, poolVars>>

(* main sleeps for a second and dispatches again. *)
Sleep ==
  /\ pc = "results" /\ batch = <<>>
  /\ pc' = "poll"
  /\ UNCHANGED <<netVars, bevVars, heap, ready, cur, batch, poolVars, fault,
                 crashed>>

-----------------------------------------------------------------------------
(* Worker threads *)

(* Mutants: the thread publishes twice; it loses a result. *)
PublishAgain(w) ==
  /\ handled[w]
  /\ results' = Append(results, worker[w])
  /\ worker' = [worker EXCEPT ![w] = Null]
  /\ UNCHANGED <<netVars, bevVars, heap, loopVars, waiting, handled, fault, crashed>>
PublishNothing(w) ==
  /\ handled[w]
  /\ worker' = [worker EXCEPT ![w] = Null]
  /\ handled' = [handled EXCEPT ![w] = FALSE]
  /\ UNCHANGED <<netVars, bevVars, heap, loopVars, waiting, results, fault, crashed>>

Take(w) ==
  /\ worker[w] = Null /\ waiting # <<>>
  /\ worker' = [worker EXCEPT ![w] = Head(waiting)]
  /\ waiting' = Tail(waiting)
  /\ UNCHANGED <<netVars, bevVars, heap, loopVars, handled, results, fault,
                 crashed>>

(* PhoneReqEventHandler::Handle stores into the Session of the event. *)
Handle(w) ==
  /\ worker[w] # Null /\ ~handled[w]
  /\ handled' = [handled EXCEPT ![w] = TRUE]
  /\ LET e == worker[w]
     IN  \/ /\ Live(e.addr)
            /\ heap' = [heap EXCEPT ![e.addr].data = e.conn]
            /\ fault' = (fault \/ heap[e.addr].conn # e.conn)
            /\ UNCHANGED crashed
         \/ /\ ~Live(e.addr)
            /\ UNCHANGED heap
            /\ UseAfterDelete
  /\ UNCHANGED <<netVars, bevVars, loopVars, waiting, worker, results>>

Publish(w) ==
  /\ handled[w]
  /\ results' = Append(results, worker[w])
  /\ worker' = [worker EXCEPT ![w] = Null]
  /\ handled' = [handled EXCEPT ![w] = FALSE]
  /\ UNCHANGED <<netVars, bevVars, heap, loopVars, waiting, fault, crashed>>

-----------------------------------------------------------------------------
Clients ==
  \E c \in Conns :
    \/ ClientConnect(c)
    \/ \E magic, stall \in BOOLEAN : ClientWrite(c, magic, stall)
    \/ \E how \in {"eof", "reset"} : ClientClose(c, how)

Loop ==
  \/ Poll
  \/ \E c \in Conns :
       \/ \E a \in Addrs : ListenerCallback(c, a)
       \/ ReqCallback(c)
       \/ ResCallback(c)
       \/ ErrCallback(c)
  \/ SetHandling
  \/ Drag
  \/ HandleResult
  \/ Sleep

Work(w) == Take(w) \/ Handle(w) \/ Publish(w)

Next == ~crashed /\ (Clients \/ Loop \/ \E w \in Workers : Work(w))

Spec == Init /\ [][Next]_vars

(* The loop thread and every worker thread keep running; clients need not. *)
FairSpec ==
  /\ Spec
  /\ WF_vars(~crashed /\ Loop)
  /\ \A w \in Workers : WF_vars(~crashed /\ Work(w))

-----------------------------------------------------------------------------
SessionType == [conn : Conns \cup {Null}, parser : Parser, count : 0..255,
                data : Conns \cup {Null}]
Reply == [conn : Conns, n : Nat]

TypeOK ==
  /\ client \in [Conns -> ClientState]
  /\ frames \in [Conns -> Seq(Frame)]
  /\ written \in [Conns -> Nat]
  /\ replies \in [Conns -> Seq(Reply)]
  /\ ctx \in [Conns -> Addrs \cup {Null}]
  /\ fed \in [Conns -> Nat] /\ off \in [Conns -> Nat]
  /\ packed \in [Conns -> Nat]
  /\ output \in [Conns -> Seq(Reply)]
  /\ heap \in [Addrs -> SessionType]
  /\ pc \in {"poll", "callbacks", "pushed", "results"}
  /\ ready \subseteq {"accept", "read", "write"} \X Conns
  /\ cur \in Addrs \cup {Null}
  /\ batch \in Seq(Event) /\ waiting \in Seq(Event) /\ results \in Seq(Event)
  /\ worker \in [Workers -> Event \cup {Null}]
  /\ handled \in [Workers -> BOOLEAN]
  /\ fault \in BOOLEAN /\ crashed \in BOOLEAN

(* A bufferevent and its Session live and die together: a callback's       *)
(* context is always the live Session of that connection, so no callback   *)
(* runs on, and no callback deletes, a Session that is already deleted.    *)
CallbackOnLiveSession ==
  /\ \A c \in Conns : ctx[c] # Null => heap[ctx[c]].conn = c
  /\ \A a \in Addrs : Live(a) => ctx[heap[a].conn] = a

(* The events between Push and handle_results, by where they are. *)
Places == {<<"waiting", i>> : i \in 1..Len(waiting)}
            \cup {<<"worker", w>> : w \in {v \in Workers : worker[v] # Null}}
            \cup {<<"results", i>> : i \in 1..Len(results)}
            \cup {<<"batch", i>> : i \in 1..Len(batch)}

EventAt(p) == CASE p[1] = "waiting" -> waiting[p[2]]
                [] p[1] = "worker"  -> worker[p[2]]
                [] p[1] = "results" -> results[p[2]]
                [] p[1] = "batch"   -> batch[p[2]]

(* An event travels without its Session only when the connection is gone:  *)
(* as long as the connection stands, the pointer is good.                  *)
StaleOnlyAfterClose ==
  \A p \in Places : \/ heap[EventAt(p).addr].conn = EventAt(p).conn
                    \/ ctx[EventAt(p).conn] = Null

(* Until a pointer to a deleted Session is used, a connection has at most  *)
(* one request between Push and handle_results, and while it has one its   *)
(* Session, if alive, is HANDLING: this is what lets a worker store into   *)
(* the Session without a lock.                                             *)
OneRequestInFlight ==
  ~fault =>
    /\ \A p, r \in Places : EventAt(p).conn = EventAt(r).conn => p = r
    /\ \A p \in Places :
         LET e == EventAt(p) IN
         heap[e.addr].conn = e.conn =>
           heap[e.addr].parser.state = "HANDLING" \/ (pc = "pushed" /\ cur = e.addr)

(* Until a pointer to a deleted Session is used, the responses a client    *)
(* reads are those to its own requests, each once, in the order of the     *)
(* requests, and only its own requests have stored into its Session.       *)
RepliesMatchRequests ==
  ~fault =>
    /\ \A c \in Conns : \A i \in 1..Len(replies[c]) :
         replies[c][i] = [conn |-> c, n |-> i]
    /\ \A a \in Addrs : heap[a].data \in {Null, heap[a].conn}

(* A response reaches the client whose request it answers. *)
ReplyToRequester ==
  \A c \in Conns : \A i \in 1..Len(replies[c]) : replies[c][i].conn = c

(* The pool of this module, where taking, handling and publishing are one  *)
(* step each, is a task service.  ThreadPool shows that tiny_tp is one.    *)
Service == INSTANCE TaskService
  WITH Task <- [addr : Addrs, conn : Conns, n : 1..MaxRequests],
       Silent <- {}, Capacity <- MaxQueueSize, Parallel <- Cardinality(Workers),
       queue <- waiting, results <- results, hand <- batch,
       running <- {worker[w] : w \in {v \in Workers : worker[v] # Null}}

(* Every request that is pushed is handled once, in order; its result is   *)
(* not lost: Drag takes it out once, and handle_results works off what it  *)
(* dragged, all of it and in order, before it drags again.                 *)
PoolIsTaskService == Service!Spec

(* The server has closed the connection, or died. *)
Closed(c) == client[c] \notin {"new", "connecting"} /\ ctx[c] = Null

(* A deleted Session is used only after some connection was closed with a  *)
(* request unanswered: a client that waits for its answers and leaves      *)
(* between requests never leaves a pointer to its Session behind, and a    *)
(* fault is always the trace of an abandoned request.                      *)
FaultNeedsAbandonedRequest ==
  fault => \E c \in Conns : Outstanding(c) /\ Closed(c)

(* The client left, or aborted, while it had a request outstanding. *)
HungUp(c) == client[c] \in {"eof", "reset"} /\ Outstanding(c)

(* Clients that write one well-formed request at a time can bring about a  *)
(* use of a deleted Session in one way only: by hanging up while they wait *)
(* for an answer.  Where no client does, the pointers of the callbacks, of *)
(* the workers and of handle_results are good whenever they are used.      *)
FaultOnlyAfterHangUp == fault => \E c \in Conns : HungUp(c)

(* A client that waits for its answers is never left waiting: its request   *)
(* is answered, or its connection is closed (ReqCallback, a worker,         *)
(* handle_results and the write handler all take their turn).  What counts  *)
(* is that an answer arrives; after a fault it may be one to another        *)
(* client's request, see ReplyToRequester.                                  *)
EveryRequestAnswered ==
  \A c \in Conns : []<>(~Outstanding(c) \/ Closed(c) \/ crashed)

(* A connection that its client ended is eventually released, also when it  *)
(* ended with a request in the queue, in a worker's hands or among the      *)
(* results: ErrCallback deletes the Session, whatever still points to it.   *)
(* (A client that left stays away, so this is client[c] \in ... ~> ...)     *)
SessionsReleased ==
  \A c \in Conns :
    []<>(client[c] \in {"eof", "reset"} => ctx[c] = Null \/ crashed)

(* A connection on which a request was begun and not finished is given up   *)
(* at some time: the configuration sets req-timeout, and ErrCallback has a  *)
(* branch for the reading timeout.                                          *)
StalledReleased ==
  \A c \in Conns : client[c] = "stalled" ~> (ctx[c] = Null \/ crashed)

=============================================================================
