------------------------------- MODULE Startup -------------------------------
(***************************************************************************)
(* main, from its first line to the dispatch loop: the configuration, the  *)
(* logger, UserDAO's singleton with its connection pool, the user table,   *)
(* the handlers and the threads of DispatchEventsService, the listener;    *)
(* then worker threads that come back to UserDAO::Instance with logins.    *)
(*                                                                         *)
(* UserDAO::Instance initialises on first use and takes no lock: it tests  *)
(* is_initialized_, builds a pool, stores it in pool_ and sets the flag,   *)
(* each a step here.  The uncaught exceptions of toml::parse and           *)
(* toml::find end the process (std::terminate).                            *)
(***************************************************************************)
EXTENDS Integers, Sequences, FiniteSets

CONSTANTS Main, Workers,     \* main's thread; threads the pool may have
          Faults,            \* what may be wrong with the configuration
          MinSizes, MaxSizes,  \* min-size and max-size, signed in the file
          Word,              \* 2^32: the width of kMinCount and kMaxCount
          MaxLogins          \* bound: logins that clients send

(* file: not readable, not TOML, or one of the two tables missing; database *)
(* and server: that table lacks a key, or has one of the wrong type.        *)
FaultKinds == {"none", "file", "database", "server"}

ASSUME StartupAssumption ==
  /\ Main \notin Workers /\ IsFiniteSet(Workers)
  /\ Faults \subseteq FaultKinds
  /\ MinSizes \subseteq Int /\ MaxSizes \subseteq Int
  /\ Word \in Nat \ {0} /\ MaxLogins \in Nat

Threads == {Main} \cup Workers

VARIABLES
  env,          \* what the process meets: arguments, file, cores, port
  at,           \* main's place in Order
  status,       \* "running", the exit, or "abort"
  loaded,       \* SysConfig::loaded_
  logger,       \* Logger::initialized_; while FALSE, LOGGER is nullptr
  initialized,  \* UserDAO::is_initialized_
  pool,         \* UserDAO::pool_: its number (0: none), connections made or not
  table,        \* the user table exists
  handlers,     \* keys of handler_map_
  threads,      \* threads of the pool in DispatchEventsService
  listener,     \* ev_listener_ is not null
  dao,          \* dao[t]: where t is in UserDAO
  building,     \* building[t]: connections of the pool t constructs
  holds,        \* holds[t]: number of the pool whose connection t uses
  waiting,      \* logins sent and not yet taken by a worker
  handled       \* logins handled

mainVars == <<loaded, logger, handlers, threads, listener>>
daoVars == <<initialized, pool, dao, building, holds>>
vars == <<env, at, status, mainVars, daoVars, table, waiting, handled>>

(* Mutant: CreateTable is not called. *)
OrderWithoutTable == <<"args", "config", "logger", "phone", "login", "gate", "open">>

(* The steps of main before its loop. *)
Order == <<"args", "config", "logger", "table", "phone", "login", "gate", "open">>

Serving == status = "running" /\ at > Len(Order)
Ended == status # "running"
At(step) == status = "running" /\ at <= Len(Order) /\ Order[at] = step

(* The conversions int -> std::uint32_t of Instance's arguments. *)
kMinCount == env.min % Word
kMaxCount == env.max % Word

Env == [argc : 1..2, fault : Faults, min : MinSizes, max : MaxSizes,
        cores : 0..Cardinality(Workers), free : BOOLEAN]

Init ==
  /\ env \in Env
  /\ at = 1 /\ status = "running"
  /\ loaded = FALSE /\ logger = FALSE
  /\ handlers = {} /\ threads = {} /\ listener = FALSE
  /\ initialized = FALSE
  /\ pool = [no |-> 0, conns |-> <<>>]
  /\ dao = [t \in Threads |-> "out"]
  /\ building = [t \in Threads |-> <<>>]
  /\ holds = [t \in Threads |-> 0]
  /\ table = FALSE /\ waiting = 0 /\ handled = 0

-----------------------------------------------------------------------------
(* main *)

Proceed == at' = at + 1 /\ UNCHANGED status
End(how) == status' = how /\ UNCHANGED at

Args ==
  /\ At("args")
  /\ \/ env.argc = 2 /\ Proceed
     \/ env.argc # 2 /\ End("exit1")
  /\ UNCHANGED <<env, mainVars, daoVars, table, waiting, handled>>

(* SysConfig::Load returns loaded, or throws: main's exit(2) is not reached. *)
Load ==
  /\ At("config")
  /\ \/ env.fault # "file" /\ loaded' = TRUE /\ Proceed
     \/ env.fault = "file" /\ UNCHANGED loaded /\ End("abort")
  /\ UNCHANGED <<env, logger, handlers, threads, listener, daoVars, table, waiting,
                 handled>>

(* Logger::InitStdoutColorLogger, then SetLevel. *)
InitLogger ==
  /\ At("logger")
  /\ logger' = TRUE
  /\ Proceed
  /\ UNCHANGED <<env, loaded, handlers, threads, listener, daoVars, table, waiting,
                 handled>>

CallInstance ==
  /\ At("table") /\ dao[Main] = "out"
  /\ dao' = [dao EXCEPT ![Main] = "check"]
  /\ UNCHANGED <<env, at, status, mainVars, initialized, pool, building, holds,
                 table, waiting, handled>>

(* Mutant: the failure of the query is not looked at. *)
CreateTableUnchecked ==
  /\ At("table") /\ dao[Main] = "in"
  /\ table' \in BOOLEAN
  /\ dao' = [dao EXCEPT ![Main] = "out"]
  /\ Proceed
  /\ UNCHANGED <<env, mainVars, initialized, pool, building, holds, waiting, handled>>

(* UserDAO::CreateTable: the first connection of the pool, or a new one if  *)
(* the pool is empty and may grow; false without a connection, when it was  *)
(* never made, or when the query fails.                                     *)
CreateTable ==
  /\ At("table") /\ dao[Main] = "in"
  /\ \E up, ok \in BOOLEAN :
       LET conns == IF pool.conns = <<>> /\ kMaxCount > 0 THEN <<up>> ELSE pool.conns
           created == conns # <<>> /\ conns[1] /\ ok
       IN  /\ pool' = [pool EXCEPT !.conns = conns]
           /\ table' = created
           /\ \/ created /\ Proceed
              \/ ~created /\ End("exit4")
  /\ dao' = [dao EXCEPT ![Main] = "out"]
  /\ UNCHANGED <<env, mainVars, initialized, building, holds, waiting, handled>>

(* Mutant: the constructor's loop starts at 1. *)
SpawnFrom1(n) == {S \in SUBSET Workers : Cardinality(S) = IF n = 0 THEN 0 ELSE n - 1}

(* The pool's constructor starts hardware_concurrency() threads. *)
Spawn(n) == {S \in SUBSET Workers : Cardinality(S) = n}

(* The first call of DispatchEventsService::Instance makes the threads. *)
RegisterPhone ==
  /\ At("phone")
  /\ threads' \in Spawn(env.cores)
  /\ handlers' = handlers \cup {"kPhoneReq"}
  /\ Proceed
  /\ UNCHANGED <<env, loaded, logger, listener, daoVars, table, waiting, handled>>

RegisterLogin ==
  /\ At("login")
  /\ handlers' = handlers \cup {"kLoginReq"}
  /\ Proceed
  /\ UNCHANGED <<env, loaded, logger, threads, listener, daoVars, table, waiting,
                 handled>>

(* ip, port and backlog are read for NetGate's constructor and for Open. *)
MakeNetGate ==
  /\ At("gate")
  /\ \/ env.fault # "server" /\ Proceed
     \/ env.fault = "server" /\ End("abort")
  /\ UNCHANGED <<env, mainVars, daoVars, table, waiting, handled>>

(* evconnlistener_new_bind returns null when the address is in use; Open   *)
(* says so to its caller, which does not listen.                           *)
Open ==
  /\ At("open")
  /\ listener' = env.free
  /\ Proceed
  /\ UNCHANGED <<env, loaded, logger, handlers, threads, daoVars, table, waiting,
                 handled>>

-----------------------------------------------------------------------------
(* UserDAO::Instance, called by thread t *)

Check(t) ==
  /\ ~Ended /\ dao[t] = "check"
  /\ \/ /\ initialized
        /\ dao' = [dao EXCEPT ![t] = "in"]
        /\ UNCHANGED <<status, building>>
     \/ /\ ~initialized /\ env.fault # "database"
        /\ dao' = [dao EXCEPT ![t] = "connect"]
        /\ building' = [building EXCEPT ![t] = <<>>]
        /\ UNCHANGED status
     \/ /\ ~initialized /\ env.fault = "database"
        /\ status' = "abort"
        /\ UNCHANGED <<dao, building>>
  /\ UNCHANGED <<env, at, mainVars, initialized, pool, holds, table, waiting, handled>>

(* Mutant: when a connection is not made, all are made anew. *)
ConnectAnew(t) ==
  /\ ~Ended /\ dao[t] = "connect" /\ Len(building[t]) < kMinCount
  /\ \E up \in BOOLEAN :
       building' = [building EXCEPT ![t] = IF up THEN Append(@, up) ELSE <<>>]
  /\ UNCHANGED <<env, at, status, mainVars, initialized, pool, dao, holds, table,
                 waiting, handled>>

(* One round of ConnPool's constructor: a connection is made, or the       *)
(* wrapper keeps a null handler.                                           *)
Connect(t) ==
  /\ ~Ended /\ dao[t] = "connect" /\ Len(building[t]) < kMinCount
  /\ \E up \in BOOLEAN : building' = [building EXCEPT ![t] = Append(@, up)]
  /\ UNCHANGED <<env, at, status, mainVars, initialized, pool, dao, holds, table,
                 waiting, handled>>

(* pool_ = make_unique: a pool that was there is destroyed. *)
StorePool(t) ==
  /\ ~Ended /\ dao[t] = "connect" /\ Len(building[t]) = kMinCount
  /\ pool' = [no |-> pool.no + 1, conns |-> building[t]]
  /\ building' = [building EXCEPT ![t] = <<>>]
  /\ dao' = [dao EXCEPT ![t] = "flag"]
  /\ UNCHANGED <<env, at, status, mainVars, initialized, holds, table, waiting, handled>>

SetInitialized(t) ==
  /\ ~Ended /\ dao[t] = "flag"
  /\ initialized' = TRUE
  /\ dao' = [dao EXCEPT ![t] = "in"]
  /\ UNCHANGED <<env, at, status, mainVars, pool, building, holds, table, waiting,
                 handled>>

-----------------------------------------------------------------------------
(* Serving *)

(* A client connects, the listener's backlog included, and logs in. *)
ClientLogin ==
  /\ ~Ended /\ listener
  /\ waiting + handled + Cardinality({w \in Workers : dao[w] # "out"}) < MaxLogins
  /\ waiting' = waiting + 1
  /\ UNCHANGED <<env, at, status, mainVars, daoVars, table, handled>>

(* Mutant: a thread that wakes does not look whether there is a task. *)
TakeAnyway(w) ==
  /\ Serving /\ w \in threads /\ dao[w] = "out"
  /\ waiting' = waiting - 1
  /\ dao' = [dao EXCEPT ![w] = "check"]
  /\ UNCHANGED <<env, at, status, mainVars, initialized, pool, building, holds,
                 table, handled>>

(* The loop pushes the login, worker w takes it and calls Instance. *)
Take(w) ==
  /\ Serving /\ "kLoginReq" \in handlers
  /\ w \in threads /\ dao[w] = "out" /\ waiting > 0
  /\ waiting' = waiting - 1
  /\ dao' = [dao EXCEPT ![w] = "check"]
  /\ UNCHANGED <<env, at, status, mainVars, initialized, pool, building, holds,
                 table, handled>>

(* IsExist or Insert: pool_ is read, its connection is used and returned.  *)
BeginQuery(w) ==
  /\ ~Ended /\ w \in Workers /\ dao[w] = "in"
  /\ holds' = [holds EXCEPT ![w] = pool.no]
  /\ dao' = [dao EXCEPT ![w] = "using"]
  /\ UNCHANGED <<env, at, status, mainVars, initialized, pool, building, table,
                 waiting, handled>>

EndQuery(w) ==
  /\ ~Ended /\ dao[w] = "using"
  /\ dao' = [dao EXCEPT ![w] = "out"]
  /\ handled' = handled + 1
  /\ UNCHANGED <<env, at, status, mainVars, initialized, pool, building, holds,
                 table, waiting>>

-----------------------------------------------------------------------------
Instance(t) == Check(t) \/ Connect(t) \/ StorePool(t) \/ SetInitialized(t)

MainStep ==
  \/ Args \/ Load \/ InitLogger \/ CallInstance \/ CreateTable
  \/ RegisterPhone \/ RegisterLogin \/ MakeNetGate \/ Open

Login(w) == Take(w) \/ BeginQuery(w) \/ EndQuery(w)

Next ==
  \/ MainStep
  \/ \E t \in Threads : Instance(t)
  \/ ClientLogin
  \/ \E w \in Workers : Login(w)

Spec == Init /\ [][Next]_vars

(* main and the worker threads keep running; clients need not.  A call of   *)
(* mysql_real_connect returns.                                              *)
FairSpec ==
  /\ Spec
  /\ WF_vars(MainStep)
  /\ \A t \in Threads : WF_vars(Instance(t))
  /\ \A w \in Workers : WF_vars(Login(w))

-----------------------------------------------------------------------------
DaoState == {"out", "check", "connect", "flag", "in", "using"}

TypeOK ==
  /\ env \in Env
  /\ at \in 1..(Len(Order) + 1)
  /\ status \in {"running", "abort", "exit1", "exit4"}
  /\ {loaded, logger, initialized, table, listener} \subseteq BOOLEAN
  /\ pool \in [no : Nat, conns : Seq(BOOLEAN)]
  /\ handlers \subseteq {"kPhoneReq", "kLoginReq"}
  /\ threads \subseteq Workers
  /\ dao \in [Threads -> DaoState]
  /\ building \in [Threads -> Seq(BOOLEAN)]
  /\ holds \in [Threads -> Nat]
  /\ waiting \in Nat /\ handled \in Nat

(* The lazy initialisation of UserDAO is safe although Instance takes no    *)
(* lock: one pool is ever made, and a worker's connection belongs to the    *)
(* pool that pool_ owns.  It rests on main calling Instance before the      *)
(* first worker can (CreateTable).                                          *)
OnePool ==
  /\ pool.no <= 1
  /\ \A t \in Threads : dao[t] = "using" => holds[t] = pool.no

(* Nothing is used before it is there: CONFIG when Instance reads it,      *)
(* LOGGER (nullptr until then) where main's callees log, and, once the     *)
(* server serves, the table, both handlers and a connection that works.    *)
ReadyInTime ==
  /\ \A t \in Threads : dao[t] # "out" => loaded /\ logger
  /\ At("open") => logger /\ loaded
  /\ Serving => /\ initialized /\ table
                /\ handlers = {"kPhoneReq", "kLoginReq"}
                /\ \E i \in 1..Len(pool.conns) : pool.conns[i]

(* Start-up comes to an end, whatever fails: the process ends or serves,   *)
(* and then it listens unless the address was in use.  (Open's answer is   *)
(* ignored: a server that found its port taken runs on and never listens.) *)
StartupSettles == <>[](Ended \/ (Serving /\ listener = env.free))

(* A login that reaches the server is handled, unless the machine reports  *)
(* no cores, and the pool of DispatchEventsService has no thread.          *)
LoginsHandled ==
  \A k \in 1..MaxLogins :
    (handled + waiting >= k /\ Serving) ~> (handled >= k \/ env.cores = 0)

=============================================================================
