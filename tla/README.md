# A TLA+ verification of shbk2

shbk2 is a small C++ server: clients send a phone number, get an identifier,
and log in with both.  One thread runs a libevent loop, a pool of threads
handles requests, a pool of MySQL connections serves the handlers.  This
directory models that machinery in TLA+, checks the models with TLC on small
instances, and proves the central results with TLAPS for all instances.

Source paths below are relative to the repository (`src/...` is the server's own
code, `3rd/include/tinys/tiny_tp.hpp` the header-only thread pool it uses).

## 1. Inventory of the system

| Component | State | Operations | Modules |
|---|---|---|---|
| NetGate (`src/net_gate`) | `event_base`, listener, libevent's active events | `Open`, `Dispatch` = one non-blocking poll + `handle_results`; `ListenerCallback`, `ReqCallback`, `ResCallback`, `ErrCallback` | NetGate, Framing, Startup (`Open`) |
| Session (`src/session`) | parser state `stat_`, `req_buf_`, `event_type_`, `count_`, `identifier_`, `phone_number_`, the bufferevent | created by `ListenerCallback`, deleted by `ReqCallback` or `ErrCallback`; `Buffer::Alloc/Realloc/Reset/IncrementLast` | MsgProxy, NetGate, Conversation |
| MsgProxy (`src/msg_proxy`) | none of its own | `Pack` (bytes to request event), `Unpack` (response event to bytes) | MsgProxy, Framing, Conversation |
| DispatchEventsService (`src/des`) | handler map, a thread pool | `RegisterHandler`, `Push`, `Drag` | NetGate, ThreadPool, Startup |
| tiny_tp::ThreadPool (`3rd/include/tinys`) | waiting queue, results queue, idle map, exit counter; three mutexes, one condition variable | constructor, `Drop`, `GrabAllResults`, `Cycle`, destructor, queries | ThreadPool, TaskService |
| EventHandlers, Events (`src/event_handlers`, `src/events`) | an event: plain `Session*`, payload, id | `Handle` of the phone and the login request | NetGate (phone request), Login, Conversation |
| ConnPool (`src/dbcp_mysql`) | vector of connections with `is_using_`, `using_handler_count_`; mutex, condition variable | `RequestHandler`, `AllocateConnHandler`, `ReleaseConnHandler`, `Execute` | ConnPool, Login |
| UserDAO (`src/dao`) | a lazily made singleton: `is_initialized_`, `pool_`; the `user` table | `Instance`, `CreateTable`, `IsExist`, `Insert` | Startup, Login |
| main (`src/main.cpp`) | its place in the start-up sequence | start-up with its exits, then `Dispatch` and sleep for ever | Startup, NetGate (the loop) |
| SysConfig, Logger (`src/sys_config`, `src/log`) | `loaded_`; `initialized_` | `Load`; `InitStdoutColorLogger`, `logger` | Startup |
| client_simulator (`misc`) | its bufferevent | writes a phone request, reads the answer, logs in | Conversation; elsewhere as the environment |
| globals, protobuf code, spdlog, toml11 | - | constants; generated and vendored code | not modelled |

**How they interact.**  The loop thread polls; libevent calls `ReqCallback` with
a plain `Session*` as context; `Pack` drains the input buffer into the session's
buffer and returns an event when a request is complete; `Push` puts the event,
with the same plain pointer, into the pool's queue; a worker calls the handler,
which stores into the Session and returns a result event; on a later turn of the
loop `handle_results` drags all results and writes each response to the
bufferevent of the session its event points to.  The login handler calls
UserDAO, which takes a connection from ConnPool for each query.

**What is hard.**  Session pointers that outlive their object while an event is
in the pool; a TCP stream that is cut and joined anywhere; writes to a Session
from two threads without a lock, safe only by a protocol; two condition
variables with one `notify_one` for each unit of work; time limits that expire
as a connection is given back; a destructor of detached threads; a singleton
initialised on first use without a lock; a client that keeps no buffer between
two reads.  The full list,
line by line, is `hazards` in PROJECT.json.

**What makes each part correct.**
Receive path: `Pack` never loses its place, never overruns its buffer, drops a
client only for cause, and leaves no request lying.
Pipeline: a callback only sees its own, live session; at most one request of a
connection is in flight; responses reach the requester, once and in order; every
request is answered; ended or stalled connections are released.
Thread pool: each accepted task is executed once, in order, its result neither
lost nor collected twice; no lost wake-up; no thread uses a pool that is gone.
Connection pool: a connection has one holder; the count agrees with the flags;
no lost wake-up; a call is refused only when the pool is exhausted, and returns.
Login: success means a row in the table; rows of a number stay few; every query
gives its connection back, also when it throws.
Start-up: one pool, made before any worker can ask for it; nothing used before it
is there; an end, whatever fails.
Conversation: client and server stay in step, and the identifier the client logs
in with is the one its session keeps.

## 2. Modules

| Module | Contents |
|---|---|
| `MsgProxy` | `Buffer`, the parser part of Session and `Pack`, as operators on values.  Bytes are positions in the stream: a header is recognised by *where* the buffer starts, so a parser that lost its place finds none. |
| `Framing` | One connection: a client that writes frames at any time, reads of any length, `ReqCallback`, `handle_results`. |
| `MsgProxyProofs` | What `Pack` returns, stage by stage, for every header, body and cut: lemmas that the next two proof modules share. |
| `FramingProofs` | Proofs about `Framing`. |
| `NetGate` | The whole pipeline: clients, sockets, bufferevents, Session objects at heap addresses, the loop thread, worker threads.  Uses `MsgProxy`'s `Pack`. |
| `NetGateProofs` | Proofs about `NetGate`, with its refinement of `TaskService`. |
| `MCNetGate`, `MCLogin`, `MCStartup` | Symmetry sets for the large runs of `NetGate` and `Login`; pool sizes for `Startup`. |
| `TaskService` | Abstract specification: what a thread pool promises, up to the results in its user's hand. |
| `ThreadPool` | `tiny_tp::ThreadPool` critical section by critical section; implements `TaskService`. |
| `ThreadPoolProofs` | Proofs about `ThreadPool`, with the refinement. |
| `ConnPool` | `dbcp_mysql::ConnPool`. |
| `ConnPoolProofs` | Proofs about `ConnPool`. |
| `Login` | The two request handlers, UserDAO's queries on the user table, failing connections and queries.  Extends `ConnPool`, whose threads are the workers. |
| `LoginProofs` | What is proved of `ConnPool` carried over to the handlers; what a success and the rows of a number mean. |
| `Startup` | `main` up to its loop, `UserDAO::Instance` statement by statement, then workers that call it. |
| `StartupProofs` | Proofs about `Startup`. |
| `Conversation` | One client_simulator and its session end to end: handlers, `Unpack`, `handle_results`, `ClientRdCb`.  Uses `MsgProxy`'s stream positions. |
| `ConversationProofs` | Proofs about `Conversation`. |

`NetGate` and `ThreadPool` meet in `TaskService`.  In `NetGate` a worker takes,
handles and publishes in one step each; `PoolIsTaskService` shows that this pool
is a task service, `ImplementsFairService` that the real pool is one too; both
are proved (their safety part), so what is said of `NetGate`'s pool is what
`tiny_tp` delivers.  The service has the results that its user was handed last
(`hand`: `grabbed` in `ThreadPool`, `batch` in `NetGate`), so that a result that
is not published, or that stays in the queue when it is handed over, is no step
of it.  Only tasks in `Silent` may finish without a result; in `NetGate` there are
none, for both handlers always return one.

Definitions whose comment begins with "Mutant" are deliberate errors.  No
specification uses them; substituted for the definition they follow, they make
one property fail, which shows that the property depends on that code.

### How the models correspond to the code

*MsgProxy, Framing.*  `Pack(p, off, fed, frames)` composes the three `if`
blocks of `MsgProxy::Pack` (`PackBegin`, `PackHead`, `PackBody`).  `fed - off`
is the length of the bufferevent's input.  All exceptions are the outcome
`"throw"`, after which `ReqCallback` deletes the session.  Whether the first
four bytes are the magic is the frame's `magic` field.  The pool is not in
Framing, so its queue may refuse any event (`refused`), and the session is deleted
then.  `ClientWrite` makes a
whole frame available; the reads deliver it in pieces of any length, so nothing
is lost by writing it at once.

*NetGate.*  The loop thread's control is `pc`: `Poll` collects the active
events, each callback is one step (`ReqCallback` is two, `ReqPacked` and
`SetHandling`, because a worker may run between `Push` and `set_state`), `Drag`
and `HandleResult` are `handle_results`, `Sleep` is main's loop.  `delete
session` (`DeleteSession`) frees the object and through `bufev_`'s deleter the
bufferevent, so a pending callback for it is cancelled.  `ListenerCallback`
places a Session at any free address: a deleted one's address may come back.
An access through a stale pointer is undefined behaviour; it sets `fault`, and
then uses the new object at that address, or has no visible effect, or kills the
process (`crashed`).  The constant `Env` says what clients may do beyond the
request-response protocol of the client simulator: `close` while a request is
outstanding, `pipeline`, send a `malformed` header, `stall` in mid-request.

*ThreadPool.*  One step for each critical section of `Drop`, `GrabAllResults`
and `Cycle`; `Sleep` is the release-and-block of the condition variable and
`SpuriousWakeup` its licence to return for no reason.  The destructor sends a
quit task, whose refusal it ignores, and spins until the counter moves.  A thread
that took the quit task counts itself (`ExecuteQuit`) and then returns (`Leave`):
in between the destructor may finish, and `Gone` counts the thread from the first
of the two steps on, since it uses no member of the pool after it.  With the
queue full (65535 tasks in the server, whose pool is never destroyed) it spins
for ever, which is the exception in `DestructorEndsUnlessRefused`.  `seen` is what
the three Query functions told the user; `Drop` and `GrabAllResults`, the user's
own doing, make it forget.

*Startup.*  `Order` is main's sequence of statements; `env`, fixed at the start, is
what the process meets: the number of arguments, what is wrong with the
configuration, the pool sizes in it, the number of cores, whether the port is
free.  `Load`, `Check` and `MakeNetGate` end in `"abort"` where an exception of
toml11 leaves main; therefore main's exit(2) is not there, nor is exit(3), since
`InitStdoutColorLogger` returns only when initialised.  `UserDAO::Instance` is
`Check`, one `Connect` for each connection of the constructor's loop, `StorePool`
and `SetInitialized`; any thread may take these steps, and `OnePool` says that
after main nobody does twice.  `kMinCount` is the signed size of the file taken
modulo `Word`.  `Open` stores null when the port is taken and main goes on.  A
login is only what matters here: `Instance`, then a use of `pool_`'s pool.

*Conversation.*  Responses lie end to end in the stream; each call of `ClientRdCb`
finds the bytes up to some place `n`, takes a header and a body from them as two
`bufferevent_read`s do, and forgets.  A header that is cut has zeros where bytes
are missing: four bytes or fewer give no type, six or fewer no length.  A header
that does not start where a response starts reads as any type and length, and a
message that is not a whole response as any identifier, or as a result that the
server never sent (`"none"`).  A misled client may write while its request is
handled, and `ReqCallback` deletes the session; the event stays in the pool with its
pointer, what the handler stores through it is lost, what it loads is anything, and
the response reaches nobody.  A length out of the blue may also be more than
`new` can give (`AllocationFails`).  `split` is a history variable: some read
ended inside a response.

*Login.*  `HandlePhone` and `HandleLogin` are the handlers' first steps,
`Resume` what `LoginReqEventHandler` does with what a DAO call returned.  A DAO
call takes a connection (`CallPool`, `GetConnection`, `GetNewConnection`,
`NoConnection`, which are ConnPool's actions and their consequences), runs its
query (`Execute...`) and returns, giving the connection back (`Return`).  A query
fails when no connection was to be had, when the connection was never made
(`broken`: `HandlerWrapper` keeps the null of `mysql_real_connect`), or when the
database says so, for an `INSERT` with or without its effect; a `SELECT` whose
result cannot be fetched reports -1 rows, which `IsExist` takes for yes.
`LoginInit` is the state after `main` came past `CreateTable`, so the first
connection works.  `trouble` and `blind` are history variables: whose queries
failed, and how often `IsExist` said no without knowing.  `Resume` ends in
`kSuccess` in every case, as line 57 of event_handlers.cpp does.  `IsExist` and
`ExecuteInsert` look a number up and store it exactly.  That is so for numbers of
at most 16 characters (the column is `VARCHAR(16)`) without quotes or backslashes
(the statements are put together without escaping, dao.cpp 54 and 71); `Phones`
stands for those.

*ConnPool.*  A call is `Request`, then one evaluation of the predicate under the
mutex: `TakeFree`, `Grow`, `Refuse` or `Wait`.  `late` is the set of waiting
threads whose deadline has passed; the deadline is fixed when `wait_for` is
entered and does not move on a futile wake-up.  `std::condition_variable`,
libevent and the TCP peer are external and modelled from their use.

## 3. Runs

| Run | Kind | What it shows |
|---|---|---|
| `framing_safety` | pass | However three frames are cut and joined, good and bad, empty or not, written at any time: `Aligned`, `BufferFits`; and a session is dropped only for a malformed frame, one that is no request, a full queue, or a frame written before the last was answered (`DropsOnlyForCause`).  The way the network cuts the stream costs no client its session that waits for its answers; it may cost one that does not. |
| `framing_sticky` | violation | Of two frames in one read, the second is never parsed: `Pack` takes one frame, and nothing calls it again until *more* bytes arrive.  The repository's README claims that split and sticky packets are solved. |
| `netgate_calm` | pass | Clients that write one well-formed request at a time and may close, orderly or by reset, at any moment (`Env = {"close"}`): a deleted Session is used only after some client hung up on its own request; every request is answered or its connection closed; sessions of clients that left are released, also with a request of theirs in the pool; whatever the cuts and the interleaving. |
| `netgate_hostile` | pass | All of `Env`, a queue of one: what holds regardless.  Callbacks always have their live session; an event loses its session only when its connection is closed; a deleted Session is used only after some request was abandoned (its connection closed, by either side, before the answer arrived); until a stale pointer has been used, one request in flight, the session `HANDLING` while it is, responses matching requests; and the pool is a task service: every pushed event is handled once, its result not lost and dragged once. |
| `netgate_stale_reply` | violation | A connection closes while its request is in the pool; its Session's address is reused; the response goes to the other client. |
| `netgate_stall` | violation | A half-sent request keeps its session for ever: the configured timeouts are never applied to a bufferevent. |
| `threadpool` | pass | Construction, use and destruction in any interleaving: no lost wake-up, a user that saw no task waiting and then every thread idle has all its results, no thread uses the pool after its destructor, refinement of `TaskService!FairSpec` (tasks are executed once and in order, an accepted one gets done, its result is grabbed once), and a destructor that ends unless a quit task was refused. |
| `connpool` | pass | Four threads, a pool growing from one to two: exclusive use, exact count, no lost wake-up, refusal only when exhausted, every call returns. |
| `login` | pass | Three workers, two connections, failures of every kind: a login none of whose queries failed and that is answered with success is in the table; a number gets at most as many rows as there are workers, plus one for each time `IsExist` did not know; a worker has, or waits for, a connection only inside a DAO call. |
| `login_failed` | violation | A failed `Insert` is answered with `kSuccess`. |
| `startup` | pass | Every kind of failure on the way to the loop, then two workers: one pool although `Instance` takes no lock, because `CreateTable` calls it first; nothing used before it is there; start-up always ends, listening unless the port was taken; logins are handled unless the machine reports no cores. |
| `conversation` | pass | Responses cut anywhere: while none is cut, client and server are in step and the conversation ends in `kSuccess`. |

In `netgate_hostile` `ReqCallback`, on a malformed frame or a full queue, deletes
its session and then uses it (net_gate.cpp 65-70, 77-82).  The model sets `fault`
there, and `FaultNeedsAbandonedRequest` counts these among the abandoned requests,
by the very delete that precedes them: it does not say that these two uses are
harmless, and they are not.  No run reports them as a finding, because nothing in
the repository says otherwise; `FaultOnlyAfterHangUp` shows that they take a client
that breaks the protocol, or more connections than the queue has places.

### Bounds

* `HeaderSize = 2` instead of 10: a header can be split inside, before and
  after; more bytes add more places to split of the same kind.
* Framing: three frames, body sizes 0, 1 and 3: a frame before, in and after the
  current one, and bodies that are empty, unsplittable and splittable.
* NetGate: two connections and two addresses are what address reuse and mixed-up
  replies need; two requests each for anything that depends on a second request
  of a session.  The hostile run has one worker and a queue of one, so that a
  full queue happens; the calm run has two workers that race, and a queue with a
  place for each connection, so that the only cause of a fault is a client's leaving.
* ThreadPool: three threads so that a notified one, a newcomer and a sleeper
  coexist; a queue of two, smaller than the number of tasks, so that `Drop` is
  refused and the destructor meets a full queue.
* ConnPool: more threads than connections by two, so that two wait at once.
* Login: three workers for two connections, so that the pool grows and is
  exhausted; one number besides the empty one that a fresh Session holds, since
  only equality with the stored values matters; four logins, one more than the
  workers, so that the bound on rows is more than the number of calls.
* Startup: two workers are what a race in `Instance` needs; sizes -1, 0 and 2 for
  a wrapped, an empty and an ordinary pool; `Word = 4` instead of 2^32 lets the
  wrapped loop end.
* Conversation: the header has its 10 bytes, so that cuts fall before and inside
  each field; bodies of 4 and 2 bytes can be cut; three requests, one more than a
  client in step writes, so that a misled one writes while it is handled.

Deadlock is checked in `connpool`.  The other runs switch it
off because their systems may stop: clients with bounded requests that are done,
a pool that is destroyed, a bounded number of logins, a crashed or ended process,
a conversation that is over.

### Fairness

The loop thread and each worker thread are weakly fair: `main` loops for ever
and the operating system schedules threads.  Clients are not fair: they may
never write.  In ThreadPool the user is fair only inside the constructor and the
destructor.  In ConnPool a thread that wants the mutex gets it, time passes, and
a blocked thread whose deadline is past is let go (`wait_for`'s contract); a
thread that *holds* a connection is not fair, since a query may take for ever.
In Startup main and the workers are fair, so `mysql_real_connect` and queries are
taken to return (they have the client library's own time limits); clients are
not.  In Conversation both programs run on and TCP delivers what was written, in
pieces that nobody chooses.

## 4. Proofs

Every safety property that a passing run checks is also a theorem, for arbitrary
constants.  The constants are subject only to the named assumptions of the
modules: sizes and bounds are natural numbers, the header has at least one byte
(`HeaderSizeAssumption`; more than six in `Conversation`, so that a whole header
has its two fields), the sets of threads and workers are finite, placeholders
(`Null`, `QuitTask`, `Main`) are none of the things they stand beside, event types
are those of the code.  Three assumptions are about the deployment: in `Login`
the pool's initial size is positive (2 in `conf/shbk2.toml`; with 0, `CreateTable`
would fail and main end); in `NetGate` a request's body is not empty (the
simulator's phone number is not; empty bodies are `Framing`'s subject); in
`Conversation` the client may write at least one request.

In each proof module the invariants are checked with TLC first, the inductive
invariant is a conjunction of named parts, and there is one lemma for each action
or group of actions.

**MsgProxy** (`MsgProxyProofs`).  `PackResult`: if the session is at its place in
the stream when `Pack` is called (`AtFrame`), it is at its place afterwards, or
`Pack` threw for a header or type of that frame, or it packed exactly that frame.
`PackOfMisled` says the same as far as it goes for a session whose `stat_` was
set back by a stale result in the middle of a frame: it may throw, but no read
leaves the buffer and nothing it packs ends elsewhere than at a frame's end.

**Framing** (`FramingProofs`).  `FramingTypeOK`, `FramingAligned`,
`FramingBufferFits`, `FramingDropsOnlyForCause`: the properties of
`framing_safety` for any header size, body sizes, number of frames and cuts.
None is inductive alone.  The invariant `FramingInv` adds: `Layout`, frames lie
end to end in the stream, from 0 to `written`; hence at most one frame starts at
a position, and finding *a* header where the buffer starts is finding *the*
right one; `Positions`, `off <= fed <= written` while the session lives; and
`Partial`, what the buffer holds in each parser state.

**NetGate** (`NetGateProofs`).  For every `Env`: `GateTypes`,
`GateCallbackOnLiveSession`, `GateStaleOnlyAfterClose`, `GateOneRequestInFlight`,
`GateRepliesMatchRequests`, `GateFaultNeedsAbandonedRequest`; all follow from
`GateCorrect`, `Spec => []GateInv`.  The parts of `GateInv` beside the properties:

* `Bookkeeping`: an unaccepted connection left no trace, an active event belongs
  to a connection in the state that made it active, results are in hand only in
  `handle_results`;
* `Stream`: requests end to end, and `packed <= off <= fed <= written` in bytes;
* `Parsing`: where each session's parser is in its stream.  Once a stale pointer
  has been used, a session may be `Misled`: a result meant for the deleted
  Session set it to `WAITING_REQUEST` inside a request.  Without this case the
  type of the buffer and the order of the stream would not be inductive;
* `Travelling`: an event, wherever it is (queue, worker, results, batch), is about
  a packed request, and no two are about the same one;
* `Answers`, until a fault: responses written and read are those to the packed
  requests in order, with one missing exactly while the session is `HANDLING`, or
  just pushed and not yet `HANDLING` (the window between `Push` and `set_state`
  in which a worker runs).  This is what makes one-in-flight and reply matching
  inductive, and what turns a stale pointer into an abandoned request;
* `DroppedInPush`: a `ReqCallback` about to use the Session that it deleted for a
  full queue has abandoned the request it just packed.

`CalmFaultOnlyAfterHangUp`: with clients that at most close at any time and no
more connections than `MaxQueueSize` (the hypothesis `Calm`; 65535 in the server) a
deleted Session is used only after a client hung up on a request of its own.
`CalmInv`, which holds until then, says that the server has no cause to close on
such a client; that `Push` has room (`CalmQueueHasRoom`) is an injection from
waiting requests to the other connections; and a client that hung up stays so
(`HungUpStays`).  The run `netgate_calm` satisfies `Calm`.  `CalmNeverFaults`
says the same of clients that also wait before they close (`Env = {}`): no deleted
Session is ever used.

**TaskService**.  `PoolIsTaskService` (in `ThreadPoolProofs`) and
`GatePoolIsTaskService`: both pools implement `TaskService!Spec` step by step, the
results in the user's hand included.
In `ThreadPool` the mapping hides the quit task: `UserQueue` is the queue without
it, which works because it is always last (`OneQuit`).  That no more than
`kNumThreads` tasks run at once is a surjection from the busy threads, since no
task is in two places (`OnePlace`).

**ThreadPool** (`ThreadPoolProofs`).  `CycleTypeOK`, `CycleNoLostWakeup`,
`CycleNoThreadOutlivesPool`, `CycleQueriesAddUp`.  `CycleInv` adds `TaskInHand`
(what a thread holds at each place of `Cycle`), `OnePlace`, `Known` (every task
about was dropped), `OneQuit` (a round of the destructor has one quit task about,
or one exit more than rounds), `ExitsCounted` (`exit_mark_` is the number of
threads that are `Gone`) and `SeenHolds` (each query's answer stays true until the user
acts).  `NoLostWakeup` needs only the types beside it.

**ConnPool** (`ConnPoolProofs`).  `PoolTypeOK`, `PoolExclusive`,
`PoolCountIsExact`, `PoolNoLostWakeup`, and, from them, the action property
`PoolRefusal`.  The invariant `PoolInv` replaces `CountIsExact` by its
cardinality half (`Counted`); the other half, that the last `return nullptr` is
dead code, follows since the count of a set of flags of a finite vector is its
size only if all are set.  `NoLostWakeup` is inductive because
a release adds one free connection and one woken thread, a woken thread that
takes a connection removes one of each, and one that waits again or gives up
does so only when none is free.

**Login** (`LoginProofs`).  `LoginPoolSafe` carries ConnPool's results over to the
handlers, with their failing queries and broken connections; the lemma it rests on,
that `Login` changes the pool by `ConnPool`'s own actions only, holds by the way
`Login` is written.
`LoginTypes`, `LoginSuccessIsRegistered` and `LoginDuplicatesBounded` need
`LoginInv`: `CallState` and `AnswersRight` say what an answer tells of the table,
and `ClaimsBounded` counts `Claims(p)`, the workers that were told that `p` has no
row and have not inserted yet.  A claim arises only while the number has no row,
or blindly, and each becomes one row at most, so rows plus claims never exceed
workers plus blind answers; the property alone says nothing of the claims.

**Startup** (`StartupProofs`).  `StartupTypeOK`, `StartupOnePool`,
`StartupReadyInTime`.  `StartInv` says what has been done
(`Progress`) and what has not (`NotYet`) at each place of main, and that only
main, in its fourth statement, ever runs past the check in `Instance`
(`MainFirst`): that, and no lock, is why there is one pool (`PoolMadeOnce`).

**Conversation** (`ConversationProofs`).  `TalkTypeOK`, `TalkInStep`,
`TalkWholeMeansAccepted`.  `TalkInv` has `Layout` (responses end to end) and
`Alternation`: while no read ended inside a response, there is one message under
way at most, and it is `Written`, `Handled` or `Answered`; in the last case it is
the stream's last response and starts where the client reads next, and wherever
it is, it `Fits` what the session keeps.  `InStep` alone does not say that the
identifier under way is the session's.

**Only model-checked**: liveness (`EveryRequestAnswered`, `SessionsReleased`,
`DestructorEndsUnlessRefused`, `RequestReturns`, `StartupSettles`,
`LoginsHandled`, `Completes`, and the fairness that `ImplementsFairService` adds
to the proved refinement), which needs `ENABLED` and is outside the prover's
reach.  The four runs that expect a violation are TLC's too: a counterexample
needs no proof.

## 5. What is not modelled

* Vendored and generated code: spdlog with fmt, toml11, and the protobuf classes
  are about 42000 of the repository's 44000 lines.  They are libraries, used
  through a few calls (`toml::parse`, `toml::find`, `logger->info`, `Serialize...`,
  `Parse...`), and enter the models by what those calls do to the program.  The
  models are of the program's own code, some 1600 lines with headers; what they
  leave of it is logging, accessors and `#include`s.
* Protobuf parsing of a request, whose failure `ParseFromArray`'s caller ignores.
* The rows a `SelectResult` holds: nobody reads them.
* Whether an identifier is new: `HandlePhone` stores any.
* What a number with quotes, or of more than 16 characters, does in the SQL
  statements (section 2, *Login*).
* That the configuration's errors end in an abort where `main.cpp` 22-24 has a
  message and exit(2): the abort is modelled, and no property speaks of it.
* What the logger writes, and that the single-threaded logger (`stdout_color_st`)
  is called by several threads; error texts; the event id (nothing reads it); the
  two file loggers (never made).
* What libmysqlclient does when `~ConnPool` ends the library before it closes the
  connections; only exit(4) gets there.
* Memory exhaustion in the server on a large announced body: it would throw from
  `Realloc` and end like any other exception.
* The wrap of `count_` is modelled (`% 256`) and beyond the runs' bounds.

## 6. Plan

1. Done: all components that keep state are modelled; every safety property and
   both refinements are proved.
2. Left: smaller proofs of what is proved (`NetGateProofs` repeats the same few
   arguments for actions that differ only in which queue they move an event
   between); consequences worth a theorem of their own, such as action properties
   of `NetGate` (a Session is deleted only by the callbacks of its own connection)
   and of `Startup` (`is_initialized_` is never reset).
