---------------------------- MODULE StartupProofs ----------------------------
(***************************************************************************)
(* Proofs about Startup, for any number of threads, any limits of the      *)
(* connection pool (also negative ones, which the conversion to            *)
(* std::uint32_t makes large) and any faults of the configuration.         *)
(*                                                                         *)
(* None of the safety properties is inductive: each speaks of one moment   *)
(* (a query, the loop), and what makes it true was done several steps of   *)
(* main before.  The invariant says, for every place of main in Order,     *)
(* what is there by then; and that until the singleton is complete main is *)
(* the only thread inside Instance.                                        *)
(***************************************************************************)
EXTENDS Startup, TLAPS

(* What main has done when it is past a step: the steps of Order. *)
Progress ==
  /\ at > 2 => loaded
  /\ at > 3 => logger
  /\ at > 4 => initialized /\ table /\ Len(pool.conns) > 0 /\ pool.conns[1]
  /\ at > 5 => "kPhoneReq" \in handlers
  /\ at > 6 => "kLoginReq" \in handlers

(* What is not there before its step. *)
NotYet ==
  /\ at <= 4 => ~table
  /\ at <= 5 => threads = {}
  /\ at <= 8 => \A w \in Workers : dao[w] = "out"

(* Instance is run by one thread until is_initialized_ is set: main, in    *)
(* its fourth step.  Later callers find the flag set.                      *)
MainFirst ==
  /\ at # 4 => dao[Main] = "out"
  /\ dao[Main] # "using"
  /\ at < 4 => ~initialized
  /\ initialized => dao[Main] \notin {"connect", "flag"}
  /\ dao[Main] = "in" => initialized
  /\ \A w \in Workers : dao[w] \notin {"connect", "flag"}

(* The pool is made between StorePool and the end of the process. *)
PoolMadeOnce ==
  /\ pool.no = IF initialized \/ dao[Main] = "flag" THEN 1 ELSE 0
  /\ \A t \in Threads : dao[t] = "using" => holds[t] = pool.no

(* The inductive invariant. *)
StartInv == TypeOK /\ Progress /\ NotYet /\ MainFirst /\ PoolMadeOnce

-----------------------------------------------------------------------------
(* The places of main by number. *)
LEMMA Places ==
  ASSUME TypeOK
  PROVE  /\ Len(Order) = 8 /\ at \in 1..9
         /\ At("args") <=> status = "running" /\ at = 1
         /\ At("config") <=> status = "running" /\ at = 2
         /\ At("logger") <=> status = "running" /\ at = 3
         /\ At("table") <=> status = "running" /\ at = 4
         /\ At("phone") <=> status = "running" /\ at = 5
         /\ At("login") <=> status = "running" /\ at = 6
         /\ At("gate") <=> status = "running" /\ at = 7
         /\ At("open") <=> status = "running" /\ at = 8
         /\ Serving <=> status = "running" /\ at = 9
<1>1. Len(Order) = 8
  BY DEF Order
<1>2. at \in 1..9
  BY <1>1 DEF TypeOK
<1>3. /\ Order[1] = "args" /\ Order[2] = "config" /\ Order[3] = "logger"
      /\ Order[4] = "table" /\ Order[5] = "phone" /\ Order[6] = "login"
      /\ Order[7] = "gate" /\ Order[8] = "open"
  BY DEF Order
<1>4. at \in {1, 2, 3, 4, 5, 6, 7, 8, 9}
  BY <1>2
<1> QED BY <1>1, <1>2, <1>3, <1>4 DEF At, Serving

(* The flags of the start-up are Booleans. *)
LEMMA Flags ==
  TypeOK => /\ loaded \in BOOLEAN /\ logger \in BOOLEAN /\ initialized \in BOOLEAN
            /\ table \in BOOLEAN /\ listener \in BOOLEAN
BY DEF TypeOK

(* The process starts in the invariant. *)
LEMMA InitStart == Init => StartInv
<1> SUFFICES ASSUME Init PROVE StartInv
  OBVIOUS
<1>1. Len(Order) = 8
  BY DEF Order
<1>2. TypeOK
  <2>1. at \in 1..(Len(Order) + 1)
    BY <1>1 DEF Init
  <2>2. pool \in [no : Nat, conns : Seq(BOOLEAN)]
    BY DEF Init
  <2>3. /\ dao \in [Threads -> DaoState]
        /\ building \in [Threads -> Seq(BOOLEAN)]
        /\ holds \in [Threads -> Nat]
    BY DEF Init, DaoState
  <2> QED BY <2>1, <2>2, <2>3 DEF Init, TypeOK
<1>3. Main \in Threads /\ Workers \subseteq Threads
  BY DEF Threads
<1>4. Progress /\ NotYet /\ MainFirst /\ PoolMadeOnce
  BY <1>3 DEF Init, Progress, NotYet, MainFirst, PoolMadeOnce
<1> QED BY <1>2, <1>4 DEF StartInv

-----------------------------------------------------------------------------
(* The steps of main. *)
LEMMA MainPreserves ==
  ASSUME StartInv, MainStep
  PROVE  StartInv'
<1> USE DEF StartInv, mainVars, daoVars, Proceed, End
<1>1. Main \in Threads /\ Workers \subseteq Threads /\ Main \notin Workers
  BY StartupAssumption DEF Threads
<1>2. TypeOK
  OBVIOUS
<1>4. Len(Order) = 8
  BY DEF Order
<1>a. CASE Args
  <2>1. at = 1 /\ status = "running"
    BY <1>a, Places DEF Args
  <2>2. TypeOK'
    BY <1>a, <2>1, <1>4 DEF Args, TypeOK
  <2>3. Progress' /\ NotYet'
    BY <1>a, <2>1 DEF Args, Progress, NotYet
  <2>4. MainFirst' /\ PoolMadeOnce'
    BY <1>a, <2>1 DEF Args, MainFirst, PoolMadeOnce
  <2> QED BY <2>2, <2>3, <2>4
<1>b. CASE Load
  <2>1. at = 2 /\ status = "running"
    BY <1>b, Places DEF Load
  <2>2. TypeOK'
    <3>1. at' \in 1..(Len(Order) + 1) /\ status' \in {"running", "abort"}
      BY <1>b, <2>1, <1>4 DEF Load
    <3>2. loaded' \in BOOLEAN
      BY <1>b, Flags, Zenon DEF Load
    <3> QED BY <1>b, <3>1, <3>2 DEF Load, TypeOK
  <2>3. Progress' /\ NotYet'
    BY <1>b, <2>1 DEF Load, Progress, NotYet
  <2>4. MainFirst' /\ PoolMadeOnce'
    BY <1>b, <2>1 DEF Load, MainFirst, PoolMadeOnce
  <2> QED BY <2>2, <2>3, <2>4
<1>c. CASE InitLogger
  <2>1. at = 3 /\ status = "running"
    BY <1>c, Places DEF InitLogger
  <2>2. TypeOK'
    BY <1>c, <2>1, <1>4 DEF InitLogger, TypeOK
  <2>3. Progress' /\ NotYet'
    BY <1>c, <2>1 DEF InitLogger, Progress, NotYet
  <2>4. MainFirst' /\ PoolMadeOnce'
    BY <1>c, <2>1 DEF InitLogger, MainFirst, PoolMadeOnce
  <2> QED BY <2>2, <2>3, <2>4
<1>d. CASE CallInstance
  <2>1. at = 4 /\ status = "running" /\ dao[Main] = "out"
    BY <1>d, Places DEF CallInstance
  <2>2. TypeOK'
    BY <1>1, <1>d DEF CallInstance, TypeOK, DaoState
  <2>3. dao'[Main] = "check" /\ \A w \in Workers : dao'[w] = dao[w]
    BY <1>1, <1>d DEF CallInstance, TypeOK
  <2>4. Progress' /\ NotYet'
    BY <1>d, <2>1, <2>3 DEF CallInstance, Progress, NotYet
  <2>5. MainFirst' /\ PoolMadeOnce'
    BY <1>1, <1>d, <2>1, <2>3 DEF CallInstance, MainFirst, PoolMadeOnce, Threads
  <2> QED BY <2>2, <2>4, <2>5
<1>e. CASE CreateTable
  <2>1. at = 4 /\ status = "running" /\ dao[Main] = "in"
    BY <1>e, Places DEF CreateTable
  <2>2. dao'[Main] = "out" /\ \A w \in Workers : dao'[w] = dao[w]
    BY <1>1, <1>e DEF CreateTable, TypeOK
  <2>3. PICK up \in BOOLEAN, ok \in BOOLEAN, conns \in Seq(BOOLEAN) :
          /\ pool' = [pool EXCEPT !.conns = conns]
          /\ table' = (conns # <<>> /\ conns[1] /\ ok)
          /\ \/ table' /\ at' = at + 1 /\ status' = status
             \/ ~table' /\ status' = "exit4" /\ at' = at
    <3>1. pool.conns \in Seq(BOOLEAN) /\ \A up \in BOOLEAN : <<up>> \in Seq(BOOLEAN)
      BY DEF TypeOK
    <3> QED BY <1>e, <3>1 DEF CreateTable
  <2>4. pool'.no = pool.no /\ pool'.conns = conns /\ pool' \in [no : Nat, conns : Seq(BOOLEAN)]
    BY <2>3 DEF TypeOK
  <2>5. table' \in BOOLEAN
    BY <2>3
  <2>6. dao' \in [Threads -> DaoState]
    BY <1>e DEF CreateTable, TypeOK, DaoState
  <2>7. TypeOK'
    BY <1>e, <1>4, <2>1, <2>3, <2>4, <2>5, <2>6 DEF CreateTable, TypeOK
  <2>8. conns # <<>> => Len(conns) > 0
    BY <2>3
  <2>9. initialized
    BY <2>1 DEF MainFirst
  <2>10. Progress' /\ NotYet'
    BY <1>e, <2>1, <2>2, <2>3, <2>4, <2>8, <2>9 DEF CreateTable, Progress, NotYet
  <2>11. MainFirst'
    BY <1>e, <2>1, <2>2, <2>3, <2>9 DEF CreateTable, MainFirst
  <2>12. PoolMadeOnce'
    BY <1>e, <1>1, <2>1, <2>2, <2>4, <2>9 DEF CreateTable, PoolMadeOnce, Threads
  <2> QED BY <2>7, <2>10, <2>11, <2>12
<1>f. CASE RegisterPhone
  <2>1. at = 5 /\ status = "running"
    BY <1>f, Places DEF RegisterPhone
  <2>2. TypeOK'
    BY <1>f, <2>1, <1>4 DEF RegisterPhone, TypeOK, Spawn
  <2>3. Progress' /\ NotYet'
    BY <1>f, <2>1 DEF RegisterPhone, Progress, NotYet
  <2>4. MainFirst' /\ PoolMadeOnce'
    BY <1>f, <2>1 DEF RegisterPhone, MainFirst, PoolMadeOnce
  <2> QED BY <2>2, <2>3, <2>4
<1>g. CASE RegisterLogin
  <2>1. at = 6 /\ status = "running"
    BY <1>g, Places DEF RegisterLogin
  <2>2. TypeOK'
    BY <1>g, <2>1, <1>4 DEF RegisterLogin, TypeOK
  <2>3. Progress' /\ NotYet'
    BY <1>g, <2>1 DEF RegisterLogin, Progress, NotYet
  <2>4. MainFirst' /\ PoolMadeOnce'
    BY <1>g, <2>1 DEF RegisterLogin, MainFirst, PoolMadeOnce
  <2> QED BY <2>2, <2>3, <2>4
<1>h. CASE MakeNetGate
  <2>1. at = 7 /\ status = "running"
    BY <1>h, Places DEF MakeNetGate
  <2>2. TypeOK'
    BY <1>h, <2>1, <1>4 DEF MakeNetGate, TypeOK
  <2>3. Progress' /\ NotYet'
    BY <1>h, <2>1 DEF MakeNetGate, Progress, NotYet
  <2>4. MainFirst' /\ PoolMadeOnce'
    BY <1>h, <2>1 DEF MakeNetGate, MainFirst, PoolMadeOnce
  <2> QED BY <2>2, <2>3, <2>4
<1>i. CASE Open
  <2>1. at = 8 /\ status = "running"
    BY <1>i, Places DEF Open
  <2>2. env.free \in BOOLEAN
    BY DEF TypeOK, Env
  <2>3. TypeOK'
    BY <1>i, <2>1, <2>2, <1>4 DEF Open, TypeOK
  <2>4. Progress' /\ NotYet'
    BY <1>i, <2>1 DEF Open, Progress, NotYet
  <2>5. MainFirst' /\ PoolMadeOnce'
    BY <1>i, <2>1 DEF Open, MainFirst, PoolMadeOnce
  <2> QED BY <2>3, <2>4, <2>5
<1> QED
  BY <1>a, <1>b, <1>c, <1>d, <1>e, <1>f, <1>g, <1>h, <1>i DEF MainStep

-----------------------------------------------------------------------------
(* Instance.  A worker that calls it finds the flag set: main is past its   *)
(* fourth step by then.                                                     *)
LEMMA InstancePreserves ==
  ASSUME StartInv, NEW t \in Threads, Instance(t)
  PROVE  StartInv'
<1> USE DEF StartInv, mainVars, daoVars
<1>1. Main \in Threads /\ Workers \subseteq Threads /\ Main \notin Workers
  BY StartupAssumption DEF Threads
<1>2. TypeOK /\ Len(Order) = 8 /\ at \in 1..9
  BY Places
<1>4. status = "running" /\ dao[t] \in {"check", "connect", "flag"}
  BY DEF Instance, Check, Connect, StorePool, SetInitialized, Ended
<1>5. CASE t \in Workers
  <2>1. at = 9 /\ initialized
    BY <1>2, <1>4, <1>5 DEF NotYet, Progress
  <2>2. dao[t] = "check" /\ dao' = [dao EXCEPT ![t] = "in"]
        /\ UNCHANGED <<env, at, status, mainVars, initialized, pool, building, holds,
                       table, waiting, handled>>
    BY <1>4, <1>5, <2>1
    DEF MainFirst, Instance, Check, Connect, StorePool, SetInitialized
  <2>3. /\ dao' \in [Threads -> DaoState] /\ dao'[t] = "in"
        /\ \A u \in Threads \ {t} : dao'[u] = dao[u]
    BY <2>2 DEF TypeOK, DaoState
  <2>4. TypeOK'
    BY <2>2, <2>3 DEF TypeOK
  <2>5. Progress' /\ NotYet'
    BY <2>1, <2>2 DEF Progress, NotYet
  <2>6. MainFirst' /\ PoolMadeOnce'
    BY <1>1, <1>5, <2>1, <2>2, <2>3 DEF MainFirst, PoolMadeOnce
  <2> QED BY <2>4, <2>5, <2>6
<1>6. CASE t = Main
  <2>1. at = 4
    BY <1>4, <1>6 DEF MainFirst
  <2>a. CASE Check(t) /\ initialized
    <3>1. dao[t] = "check" /\ dao' = [dao EXCEPT ![t] = "in"]
          /\ UNCHANGED <<env, at, status, mainVars, initialized, pool, building, holds,
                         table, waiting, handled>>
      BY <2>a DEF Check
    <3>2. /\ dao' \in [Threads -> DaoState] /\ dao'[Main] = "in"
          /\ \A u \in Threads \ {Main} : dao'[u] = dao[u]
      BY <1>6, <3>1 DEF TypeOK, DaoState
    <3>3. TypeOK'
      BY <3>1, <3>2 DEF TypeOK
    <3>4. Progress' /\ NotYet'
      BY <1>1, <2>1, <3>1, <3>2 DEF Progress, NotYet
    <3>5. MainFirst' /\ PoolMadeOnce'
      BY <1>1, <1>6, <2>1, <2>a, <3>1, <3>2 DEF MainFirst, PoolMadeOnce
    <3> QED BY <3>3, <3>4, <3>5
  <2>b. CASE Check(t) /\ ~initialized /\ env.fault # "database"
    <3>1. dao[t] = "check" /\ dao' = [dao EXCEPT ![t] = "connect"]
          /\ building' = [building EXCEPT ![t] = <<>>]
          /\ UNCHANGED <<env, at, status, mainVars, initialized, pool, holds,
                         table, waiting, handled>>
      BY <2>b DEF Check
    <3>2. /\ dao' \in [Threads -> DaoState] /\ dao'[Main] = "connect"
          /\ \A u \in Threads \ {Main} : dao'[u] = dao[u]
          /\ building' \in [Threads -> Seq(BOOLEAN)]
      BY <1>6, <3>1 DEF TypeOK, DaoState
    <3>3. TypeOK'
      BY <3>1, <3>2 DEF TypeOK
    <3>4. Progress' /\ NotYet'
      BY <1>1, <2>1, <3>1, <3>2 DEF Progress, NotYet
    <3>5. MainFirst' /\ PoolMadeOnce'
      BY <1>1, <1>6, <2>1, <2>b, <3>1, <3>2 DEF MainFirst, PoolMadeOnce
    <3> QED BY <3>3, <3>4, <3>5
  <2>c. CASE Check(t) /\ ~initialized /\ env.fault = "database"
    <3>1. status' = "abort"
          /\ UNCHANGED <<env, at, mainVars, initialized, pool, dao, building, holds,
                         table, waiting, handled>>
      BY <2>c DEF Check
    <3>2. TypeOK'
      BY <3>1 DEF TypeOK
    <3>3. Progress' /\ NotYet' /\ MainFirst' /\ PoolMadeOnce'
      BY <3>1 DEF Progress, NotYet, MainFirst, PoolMadeOnce
    <3> QED BY <3>2, <3>3
  <2>d. CASE Connect(t)
    <3>1. PICK up \in BOOLEAN : building' = [building EXCEPT ![t] = Append(@, up)]
      BY <2>d DEF Connect
    <3>2. UNCHANGED <<env, at, status, mainVars, initialized, pool, dao, holds, table,
                      waiting, handled>>
      BY <2>d DEF Connect
    <3>3. building' \in [Threads -> Seq(BOOLEAN)]
      BY <3>1 DEF TypeOK
    <3>4. TypeOK'
      BY <3>2, <3>3 DEF TypeOK
    <3>5. Progress' /\ NotYet' /\ MainFirst' /\ PoolMadeOnce'
      BY <3>2 DEF Progress, NotYet, MainFirst, PoolMadeOnce
    <3> QED BY <3>4, <3>5
  <2>e. CASE StorePool(t)
    <3>1. /\ dao[t] = "connect" /\ dao' = [dao EXCEPT ![t] = "flag"]
          /\ pool' = [no |-> pool.no + 1, conns |-> building[t]]
          /\ building' = [building EXCEPT ![t] = <<>>]
          /\ UNCHANGED <<env, at, status, mainVars, initialized, holds, table,
                         waiting, handled>>
      BY <2>e DEF StorePool
    <3>2. /\ dao' \in [Threads -> DaoState] /\ dao'[Main] = "flag"
          /\ \A u \in Threads \ {Main} : dao'[u] = dao[u]
          /\ building' \in [Threads -> Seq(BOOLEAN)]
          /\ building[t] \in Seq(BOOLEAN)
      BY <1>6, <3>1 DEF TypeOK, DaoState
    <3>3. ~initialized /\ pool.no = 0
      BY <1>6, <3>1 DEF MainFirst, PoolMadeOnce
    <3>4. pool'.no = 1 /\ pool' \in [no : Nat, conns : Seq(BOOLEAN)]
      BY <3>1, <3>2, <3>3
    <3>5. TypeOK'
      BY <3>1, <3>2, <3>4 DEF TypeOK
    <3>6. Progress' /\ NotYet'
      BY <1>1, <2>1, <3>1, <3>2 DEF Progress, NotYet
    <3>7. MainFirst'
      BY <1>1, <1>6, <2>1, <3>1, <3>2, <3>3 DEF MainFirst
    <3>8. \A u \in Threads : dao'[u] # "using"
      BY <2>1, <3>2 DEF NotYet, Threads
    <3>9. PoolMadeOnce'
      BY <3>2, <3>4, <3>8 DEF PoolMadeOnce
    <3> QED BY <3>5, <3>6, <3>7, <3>9
  <2>f. CASE SetInitialized(t)
    <3>1. /\ dao[t] = "flag" /\ dao' = [dao EXCEPT ![t] = "in"]
          /\ initialized' = TRUE
          /\ UNCHANGED <<env, at, status, mainVars, pool, building, holds, table,
                         waiting, handled>>
      BY <2>f DEF SetInitialized
    <3>2. /\ dao' \in [Threads -> DaoState] /\ dao'[Main] = "in"
          /\ \A u \in Threads \ {Main} : dao'[u] = dao[u]
      BY <1>6, <3>1 DEF TypeOK, DaoState
    <3>3. TypeOK'
      BY <3>1, <3>2 DEF TypeOK
    <3>4. Progress' /\ NotYet'
      BY <1>1, <2>1, <3>1, <3>2 DEF Progress, NotYet
    <3>5. MainFirst' /\ PoolMadeOnce'
      BY <1>1, <1>6, <2>1, <3>1, <3>2 DEF MainFirst, PoolMadeOnce
    <3> QED BY <3>3, <3>4, <3>5
  <2> QED
    BY <2>a, <2>b, <2>c, <2>d, <2>e, <2>f DEF Instance
<1> QED BY <1>5, <1>6 DEF Threads

-----------------------------------------------------------------------------
(* Clients and workers. *)
LEMMA ServingPreserves ==
  ASSUME StartInv, ClientLogin \/ \E w \in Workers : Login(w)
  PROVE  StartInv'
<1> USE DEF StartInv, mainVars, daoVars
<1>1. Main \in Threads /\ Workers \subseteq Threads /\ Main \notin Workers
  BY StartupAssumption DEF Threads
<1>2. TypeOK /\ Len(Order) = 8 /\ at \in 1..9
  BY Places
<1>a. CASE ClientLogin
  <2>1. TypeOK'
    BY <1>a DEF ClientLogin, TypeOK
  <2>2. Progress' /\ NotYet' /\ MainFirst' /\ PoolMadeOnce'
    BY <1>a
    DEF ClientLogin, Progress, NotYet, MainFirst, PoolMadeOnce
  <2> QED BY <2>1, <2>2
<1>b. ASSUME NEW w \in Workers, Take(w) PROVE StartInv'
  <2>1. at = 9
    BY <1>2, <1>b DEF Take, Serving
  <2>2. /\ dao' \in [Threads -> DaoState] /\ dao'[w] = "check"
        /\ \A u \in Threads \ {w} : dao'[u] = dao[u]
    BY <1>1, <1>b DEF Take, TypeOK, DaoState
  <2>3. waiting' \in Nat
    BY <1>b DEF Take, TypeOK
  <2>4. TypeOK'
    BY <1>b, <2>2, <2>3 DEF Take, TypeOK
  <2>5. Progress' /\ NotYet'
    BY <1>b, <2>1 DEF Take, Progress, NotYet
  <2>6. MainFirst' /\ PoolMadeOnce'
    BY <1>1, <1>b, <2>1, <2>2 DEF Take, MainFirst, PoolMadeOnce
  <2> QED BY <2>4, <2>5, <2>6
<1>c. ASSUME NEW w \in Workers, BeginQuery(w) PROVE StartInv'
  <2>1. at = 9
    BY <1>2, <1>c DEF BeginQuery, NotYet
  <2>2. /\ dao' \in [Threads -> DaoState] /\ dao'[w] = "using"
        /\ \A u \in Threads \ {w} : dao'[u] = dao[u] /\ holds'[u] = holds[u]
        /\ holds' \in [Threads -> Nat] /\ holds'[w] = pool.no
    BY <1>1, <1>c DEF BeginQuery, TypeOK, DaoState
  <2>3. TypeOK'
    BY <1>c, <2>2 DEF BeginQuery, TypeOK
  <2>4. Progress' /\ NotYet'
    BY <1>c, <2>1 DEF BeginQuery, Progress, NotYet
  <2>5. MainFirst' /\ PoolMadeOnce'
    BY <1>1, <1>c, <2>1, <2>2 DEF BeginQuery, MainFirst, PoolMadeOnce
  <2> QED BY <2>3, <2>4, <2>5
<1>d. ASSUME NEW w \in Workers, EndQuery(w) PROVE StartInv'
  <2>1. at = 9
    BY <1>2, <1>d DEF EndQuery, NotYet
  <2>2. /\ dao' \in [Threads -> DaoState] /\ dao'[w] = "out"
        /\ \A u \in Threads \ {w} : dao'[u] = dao[u]
    BY <1>1, <1>d DEF EndQuery, TypeOK, DaoState
  <2>3. TypeOK'
    BY <1>d, <2>2 DEF EndQuery, TypeOK
  <2>4. Progress' /\ NotYet'
    BY <1>d, <2>1 DEF EndQuery, Progress, NotYet
  <2>5. MainFirst' /\ PoolMadeOnce'
    BY <1>1, <1>d, <2>1, <2>2 DEF EndQuery, MainFirst, PoolMadeOnce
  <2> QED BY <2>3, <2>4, <2>5
<1> QED BY <1>a, <1>b, <1>c, <1>d DEF Login

-----------------------------------------------------------------------------
(* The invariant holds in every behaviour. *)
THEOREM StartupInvariant == Spec => []StartInv
<1>1. Init => StartInv
  BY InitStart
<1>2. StartInv /\ [Next]_vars => StartInv'
  <2> SUFFICES ASSUME StartInv, [Next]_vars PROVE StartInv'
    OBVIOUS
  <2>1. CASE Next
    BY <2>1, MainPreserves, InstancePreserves, ServingPreserves DEF Next
  <2>2. CASE UNCHANGED vars
    <3> USE <2>2 DEF vars, mainVars, daoVars, StartInv
    <3>1. TypeOK'
      BY DEF TypeOK
    <3>2. Progress' /\ NotYet' /\ MainFirst' /\ PoolMadeOnce'
      BY DEF Progress, NotYet, MainFirst, PoolMadeOnce
    <3> QED BY <3>1, <3>2
  <2> QED BY <2>1, <2>2
<1> QED BY <1>1, <1>2, PTL DEF Spec

(* The variables of Startup keep their types. *)
THEOREM StartupTypeOK == Spec => []TypeOK
BY StartupInvariant, PTL DEF StartInv

(* UserDAO::Instance makes one pool although it takes no lock, and a        *)
(* connection in use belongs to it: for any number of worker threads and    *)
(* any sizes.                                                               *)
THEOREM StartupOnePool == Spec => []OnePool
<1>1. StartInv => OnePool
  BY DEF StartInv, PoolMadeOnce, OnePool
<1> QED BY <1>1, StartupInvariant, PTL

(* Configuration, logger, table, handlers and a connection that works are  *)
(* there before anything uses them.                                        *)
THEOREM StartupReadyInTime == Spec => []ReadyInTime
<1>1. ASSUME StartInv PROVE ReadyInTime
  <2> USE DEF StartInv
  <2>1. Len(Order) = 8 /\ at \in 1..9 /\ (At("open") => at = 8) /\ (Serving => at = 9)
    BY <1>1, Places
  <2>2. ASSUME NEW t \in Threads, dao[t] # "out" PROVE loaded /\ logger
    <3>1. at >= 4
      BY <1>1, <2>1, <2>2 DEF MainFirst, NotYet, Threads
    <3> QED BY <1>1, <2>1, <3>1 DEF Progress
  <2>3. At("open") => logger /\ loaded
    BY <1>1, <2>1 DEF Progress
  <2>4. ASSUME Serving
        PROVE  /\ initialized /\ table
               /\ handlers = {"kPhoneReq", "kLoginReq"}
               /\ \E i \in 1..Len(pool.conns) : pool.conns[i]
    <3>1. at = 9
      BY <2>1, <2>4
    <3>2. initialized /\ table
      BY <1>1, <3>1 DEF Progress
    <3>3. handlers = {"kPhoneReq", "kLoginReq"}
      <4>1. "kPhoneReq" \in handlers /\ "kLoginReq" \in handlers
        BY <1>1, <3>1 DEF Progress
      <4>2. handlers \subseteq {"kPhoneReq", "kLoginReq"}
        BY <1>1 DEF TypeOK
      <4> QED BY <4>1, <4>2
    <3>4. Len(pool.conns) \in Nat /\ Len(pool.conns) > 0 /\ pool.conns[1]
      BY <1>1, <3>1 DEF Progress, TypeOK
    <3>5. 1 \in 1..Len(pool.conns)
      BY <3>4
    <3> QED BY <3>2, <3>3, <3>4, <3>5
  <2> QED BY <2>2, <2>3, <2>4 DEF ReadyInTime
<1> QED BY <1>1, StartupInvariant, PTL

=============================================================================
