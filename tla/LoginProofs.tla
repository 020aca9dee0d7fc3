----------------------------- MODULE LoginProofs -----------------------------
(***************************************************************************)
(* The request handlers use the connection pool as ConnPool specifies, and *)
(* so inherit what ConnPoolProofs shows of it.  What a successful login    *)
(* means, and how many rows a number may get, follow from an invariant     *)
(* about a DAO call that is under way: what its answer says of the table,  *)
(* and which workers may still insert a row (Claims).                      *)
(***************************************************************************)
EXTENDS Login, ConnPoolProofs

(* A step of the handlers is a step of ConnPool or leaves the pool alone. *)
LEMMA LoginStepIsPoolStep ==
  ASSUME [LoginNext]_loginVars
  PROVE  [Next]_vars
<1>1. CASE UNCHANGED loginVars
  BY <1>1 DEF loginVars, vars
<1>2. ASSUME NEW t \in Threads,
             \E s \in Sessions :
               \/ \E p \in Phones, i \in Identifiers : HandlePhone(t, s, p, i)
               \/ \E p \in Numbers, i \in Identifiers \cup {0} :
                    HandleLogin(t, s, p, i)
      PROVE  UNCHANGED vars
  BY <1>2 DEF HandlePhone, HandleLogin
<1>3. ASSUME NEW t \in Threads, Proceed(t)
      PROVE  [Next]_vars
  <2>1. CASE CallPool(t)
    BY <2>1 DEF CallPool, Next
  <2>2. CASE GetConnection(t)
    BY <2>2 DEF GetConnection, Next, Step
  <2>3. CASE GetNewConnection(t)
    BY <2>3 DEF GetNewConnection, Next, Step
  <2>4. CASE NoConnection(t)
    BY <2>4 DEF NoConnection, Next, Step
  <2>5. CASE Execute(t)
    BY <2>5 DEF Execute, ExecuteThrows, ExecuteNoResult, ExecuteSelect,
                ExecuteInsert
  <2>6. CASE Return(t)
    BY <2>6 DEF Return, Next
  <2>7. CASE Finish(t)
    BY <2>7 DEF Finish
  <2> QED BY <1>3, <2>1, <2>2, <2>3, <2>4, <2>5, <2>6, <2>7 DEF Proceed
<1>4. ASSUME NEW t \in Threads, PoolClock(t)
      PROVE  Next
  BY <1>4 DEF PoolClock, Next
<1> QED BY <1>1, <1>2, <1>3, <1>4 DEF LoginNext

(* What is proved of ConnPool for all behaviours of its threads holds when *)
(* the threads are the handlers: they only ever take its steps.            *)
LEMMA LoginUsesConnPool == LoginSpec => Spec
<1>1. LoginInit => Init
  BY DEF LoginInit
<1>2. [LoginNext]_loginVars => [Next]_vars
  BY LoginStepIsPoolStep
<1> QED BY <1>1, <1>2, PTL DEF LoginSpec, Spec

(* Two workers never run queries on one connection, and a handler is told  *)
(* that there is no connection only when the pool is exhausted.            *)
THEOREM LoginPoolSafe ==
  LoginSpec => [](ExclusiveUse /\ CountIsExact /\ NoLostWakeup)
                 /\ RefusedOnlyWhenExhausted
<1> QED BY LoginUsesConnPool, PoolExclusive, PoolCountIsExact,
           PoolNoLostWakeup, PoolRefusal, PTL

-----------------------------------------------------------------------------
(* A DAO call has its answer while it holds its connection, and a response *)
(* is made when Handle is done.                                            *)
CallState ==
  \A t \in Threads :
    /\ answer[t] # "none" => pc[t] = "holding"
    /\ at[t] # "done" => result[t] = "none"

(* What an answer says of the table, if no query failed. *)
AnswersRight ==
  \A t \in Threads :
    /\ answer[t] = "true" /\ t \notin trouble => rows[job[t].phone] > 0
    /\ at[t] = "insert" /\ answer[t] = "false" => t \in trouble

(* The workers that were told that p has no row and have not yet tried to  *)
(* insert one.                                                             *)
Claims(p) == {t \in Threads : /\ job[t].phone = p
                              /\ \/ at[t] = "exist" /\ answer[t] = "false"
                                 \/ at[t] = "insert" /\ answer[t] = "none"}

(* Every claim becomes one row at most. *)
ClaimsBounded ==
  \A p \in Numbers : rows[p] + Cardinality(Claims(p)) <= Cardinality(Threads) + blind

(* The inductive invariant. *)
LoginInv == /\ PoolInv /\ LoginTypeOK /\ size > 0
            /\ CallState /\ AnswersRight /\ SuccessIsRegisteredUnlessTrouble
            /\ ClaimsBounded

(* What is said of the handlers, beside the pool. *)
HandlersInv == /\ LoginTypeOK /\ size > 0
               /\ CallState /\ AnswersRight /\ SuccessIsRegisteredUnlessTrouble
               /\ ClaimsBounded

(* Only threads have claims, so they can be counted. *)
LEMMA ClaimsFinite ==
  \A p : /\ IsFiniteSet(Claims(p)) /\ Cardinality(Claims(p)) \in Nat
         /\ Cardinality(Claims(p)) <= Cardinality(Threads)
         /\ IsFiniteSet(Claims(p)') /\ Cardinality(Claims(p)') \in Nat
         /\ Cardinality(Claims(p)') <= Cardinality(Threads)
<1> TAKE p
<1>1. Claims(p) \in SUBSET Threads /\ Claims(p)' \in SUBSET Threads
  BY DEF Claims
<1>2. IsFiniteSet(Threads)
  BY ConnPoolAssumption
<1> QED BY <1>1, <1>2, FS_Subset, FS_CardinalityType

(* The number a worker handles is one that the table knows. *)
LEMMA JobPhone ==
  ASSUME LoginTypeOK, NEW t \in Threads
  PROVE  job[t].phone \in Numbers /\ rows[job[t].phone] \in Nat
BY DEF LoginTypeOK

(* The state that main's CreateTable leaves satisfies the invariant. *)
LEMMA InitLogin == LoginInit => LoginInv
<1> SUFFICES ASSUME LoginInit PROVE LoginInv
  OBVIOUS
<1>1. PoolInv
  BY InitPool DEF LoginInit
<1>2. LoginTypeOK
  <2>1. TypeOK
    BY <1>1 DEF PoolInv
  <2>2. kMinCount \in Nat /\ Capacity \in Nat /\ kMinCount <= Capacity
    BY ConnPoolAssumption DEF Capacity
  <2>3. broken \subseteq 2..Capacity
    <3>1. broken \subseteq 2..kMinCount
      BY DEF LoginInit
    <3> QED BY <2>2, <3>1
  <2>4. /\ stored \in [Sessions -> [phone : Numbers, identifier : Identifiers \cup {0}]]
        /\ rows \in [Numbers -> Nat]
    BY DEF LoginInit, Numbers
  <2>5. job \in [Threads -> [session : Sessions \cup {Null}, phone : Numbers,
                             identifier : Identifiers \cup {0}]]
    BY DEF LoginInit, NoJob, Numbers
  <2>6. logins \in 0..MaxLogins
    <3>1. logins = 0 /\ MaxLogins \in Nat
      BY LoginAssumption DEF LoginInit
    <3> QED BY <3>1
  <2>7. \A t \in Threads : pc[t] = "idle"
    BY DEF LoginInit, Init
  <2> QED BY <2>1, <2>3, <2>4, <2>5, <2>6, <2>7 DEF LoginInit, LoginTypeOK, At
<1>3. size > 0
  BY LoginAssumption DEF LoginInit, Init
<1>4. CallState /\ AnswersRight /\ SuccessIsRegisteredUnlessTrouble
  BY DEF LoginInit, CallState, AnswersRight, SuccessIsRegisteredUnlessTrouble
<1>5. ClaimsBounded
  <2> SUFFICES ASSUME NEW p \in Numbers
               PROVE  rows[p] + Cardinality(Claims(p)) <= Cardinality(Threads) + blind
    BY DEF ClaimsBounded
  <2>1. Claims(p) = {} /\ rows[p] = 0 /\ blind = 0
    BY DEF LoginInit, Claims
  <2>2. Cardinality(Claims(p)) = 0 /\ Cardinality(Threads) \in Nat
    BY <2>1, FS_EmptySet, FS_CardinalityType, ConnPoolAssumption
  <2> QED BY <2>1, <2>2
<1> QED BY <1>1, <1>2, <1>3, <1>4, <1>5 DEF LoginInv

-----------------------------------------------------------------------------
(* Steps inside ConnPool: a worker keeps its connection, and only workers   *)
(* in a DAO call come or stay there.                                        *)
LEMMA PoolStepKeeps ==
  ASSUME LoginInv, TypeOK', size' >= size, broken' \subseteq 2..Capacity,
         \A u \in Threads : pc[u] = "holding" => pc'[u] = "holding",
         \A u \in Threads : InDAO(u) \/ pc'[u] = "idle",
         UNCHANGED <<stored, rows, at, job, answer, result, logins, trouble, blind>>
  PROVE  HandlersInv'
<1> USE DEF LoginInv
<1>1. LoginTypeOK'
  BY DEF LoginTypeOK, InDAO
<1>2. size' > 0
  BY ConnPoolAssumption DEF LoginTypeOK, TypeOK, Capacity
<1>3. CallState' /\ AnswersRight' /\ SuccessIsRegisteredUnlessTrouble'
  BY DEF CallState, AnswersRight, SuccessIsRegisteredUnlessTrouble
<1>4. ClaimsBounded'
  BY DEF ClaimsBounded, Claims
<1> QED BY <1>1, <1>2, <1>3, <1>4 DEF HandlersInv

(* Asking for a connection, getting one and waiting for one say nothing    *)
(* about the table.                                                        *)
LEMMA PoolStepsPreserve ==
  ASSUME LoginInv, PoolInv', NEW t \in Threads,
         CallPool(t) \/ GetConnection(t) \/ GetNewConnection(t) \/ PoolClock(t)
  PROVE  HandlersInv'
<1> USE DEF LoginInv, PoolInv
<1>1. size \in Nat /\ size > 0 /\ Capacity \in Nat /\ kMaxCount \in Nat /\ kMaxCount <= Capacity
  BY ConnPoolAssumption DEF LoginTypeOK, TypeOK, Capacity
<1>2. /\ pc \in [Threads -> PcState] /\ broken \subseteq 2..Capacity
      /\ \A u \in Threads : InDAO(u) \/ pc[u] = "idle"
  BY DEF LoginTypeOK, TypeOK
<1>a. CASE CallPool(t)
  <2>1. /\ \A u \in Threads : pc[u] = "holding" => pc'[u] = "holding"
        /\ \A u \in Threads : InDAO(u) \/ pc'[u] = "idle"
        /\ UNCHANGED <<size, daoVars>>
    BY <1>2, <1>a DEF CallPool, Request
  <2> QED BY <1>1, <1>2, <2>1, PoolStepKeeps DEF daoVars
<1>b. CASE GetConnection(t)
  <2>1. /\ \A u \in Threads : pc[u] = "holding" => pc'[u] = "holding"
        /\ \A u \in Threads : InDAO(u) \/ pc'[u] = "idle"
        /\ UNCHANGED <<size, daoVars>>
    BY <1>2, <1>b DEF GetConnection, TakeFree, Wait, AllocateConnHandler, Looking
  <2> QED BY <1>1, <1>2, <2>1, PoolStepKeeps DEF daoVars
<1>c. CASE GetNewConnection(t)
  <2>1. /\ \A u \in Threads : pc[u] = "holding" => pc'[u] = "holding"
        /\ \A u \in Threads : InDAO(u) \/ pc'[u] = "idle"
        /\ size' = size + 1 /\ size < kMaxCount
        /\ broken' \in {broken, broken \cup {size + 1}}
        /\ UNCHANGED <<stored, rows, at, job, answer, result, logins, trouble, blind>>
    BY <1>2, <1>c DEF GetNewConnection, Grow, AllocateConnHandler, Looking
  <2>2. broken' \subseteq 2..Capacity /\ size' >= size
    BY <1>1, <1>2, <2>1
  <2> QED BY <2>1, <2>2, PoolStepKeeps
<1>d. CASE PoolClock(t)
  <2>1. /\ \A u \in Threads : pc[u] = "holding" => pc'[u] = "holding"
        /\ \A u \in Threads : InDAO(u) \/ pc'[u] = "idle"
        /\ UNCHANGED <<size, daoVars>>
    BY <1>2, <1>d DEF PoolClock, DeadlinePasses, WakeUp
  <2> QED BY <1>1, <1>2, <2>1, PoolStepKeeps DEF daoVars
<1> QED BY <1>a, <1>b, <1>c, <1>d

(* The handlers outside UserDAO. *)
LEMMA HandlePreserves ==
  ASSUME LoginInv, NEW t \in Threads, NEW s \in Sessions, NEW p \in Numbers,
         NEW i \in Identifiers \cup {0},
         (p \in Phones /\ HandlePhone(t, s, p, i)) \/ HandleLogin(t, s, p, i)
  PROVE  HandlersInv'
<1> USE DEF LoginInv
<1>a. CASE HandlePhone(t, s, p, i)
  <2>1. stored' \in [Sessions -> [phone : Numbers, identifier : Identifiers \cup {0}]]
    BY <1>a DEF HandlePhone, LoginTypeOK
  <2>2. UNCHANGED <<vars, broken, rows, at, job, answer, result, logins, trouble, blind>>
    BY <1>a DEF HandlePhone
  <2>3. LoginTypeOK'
    BY <2>1, <2>2 DEF LoginTypeOK, TypeOK, vars, InDAO
  <2>4. size' > 0 /\ CallState' /\ AnswersRight' /\ SuccessIsRegisteredUnlessTrouble'
    BY <2>2 DEF CallState, AnswersRight, SuccessIsRegisteredUnlessTrouble, vars
  <2>5. ClaimsBounded'
    BY <2>2 DEF ClaimsBounded, Claims
  <2> QED BY <2>3, <2>4, <2>5 DEF HandlersInv
<1>b. CASE HandleLogin(t, s, p, i)
  <2>1. /\ at[t] = "free" /\ logins < MaxLogins /\ logins' = logins + 1
        /\ UNCHANGED <<vars, stored, broken, rows, answer, trouble, blind>>
    BY <1>b DEF HandleLogin
  <2>2. pc[t] = "idle" /\ answer[t] = "none" /\ result[t] = "none"
    BY <2>1 DEF LoginTypeOK, InDAO, CallState
  <2>3. /\ at' \in [Threads -> At] /\ at'[t] \in {"exist", "done"}
        /\ \A u \in Threads \ {t} : at'[u] = at[u]
    BY <1>b DEF HandleLogin, LoginTypeOK, At
  <2>4. /\ result' \in [Threads -> {"none", "kInvalidData", "kSuccess"}]
        /\ result'[t] # "kSuccess" /\ (at'[t] = "exist" => result'[t] = "none")
        /\ \A u \in Threads \ {t} : result'[u] = result[u]
    BY <1>b, <2>2 DEF HandleLogin, LoginTypeOK
  <2>5. /\ job' \in [Threads -> [session : Sessions \cup {Null}, phone : Numbers,
                                 identifier : Identifiers \cup {0}]]
        /\ \A u \in Threads \ {t} : job'[u] = job[u]
    BY <1>b DEF HandleLogin, LoginTypeOK
  <2>6. LoginTypeOK'
    <3>1. logins' \in 0..MaxLogins
      <4>1. MaxLogins \in Nat /\ logins \in 0..MaxLogins
        BY LoginAssumption DEF LoginTypeOK
      <4> QED BY <2>1, <4>1
    <3>2. \A u \in Threads : InDAO(u)' \/ pc'[u] = "idle"
      BY <2>1, <2>2, <2>3 DEF LoginTypeOK, InDAO, vars
    <3> QED BY <2>1, <2>3, <2>4, <2>5, <3>1, <3>2 DEF LoginTypeOK, TypeOK, vars
  <2>7. size' > 0 /\ CallState'
    BY <2>1, <2>2, <2>3, <2>4 DEF CallState, vars
  <2>8. AnswersRight' /\ SuccessIsRegisteredUnlessTrouble'
    BY <2>1, <2>2, <2>3, <2>4, <2>5 DEF AnswersRight, SuccessIsRegisteredUnlessTrouble
  <2>9. ClaimsBounded'
    <3>1. \A q \in Numbers : Claims(q)' = Claims(q)
      BY <2>1, <2>2, <2>3, <2>5 DEF Claims
    <3> QED BY <2>1, <3>1 DEF ClaimsBounded
  <2> QED BY <2>6, <2>7, <2>8, <2>9 DEF HandlersInv
<1> QED BY <1>a, <1>b

(* A handler that returns its response is free for another request. *)
LEMMA FinishPreserves ==
  ASSUME LoginInv, NEW t \in Threads, Finish(t)
  PROVE  HandlersInv'
<1> USE DEF LoginInv
<1>1. at[t] = "done" /\ UNCHANGED <<vars, stored, broken, rows, answer, logins, blind>>
      /\ trouble' = trouble \ {t}
  BY DEF Finish
<1>2. pc[t] = "idle" /\ answer[t] = "none"
  BY <1>1 DEF LoginTypeOK, InDAO, CallState
<1>3. /\ at' \in [Threads -> At] /\ at'[t] = "free"
      /\ result' \in [Threads -> {"none", "kInvalidData", "kSuccess"}] /\ result'[t] = "none"
      /\ \A u \in Threads \ {t} : at'[u] = at[u] /\ result'[u] = result[u] /\ job'[u] = job[u]
  BY DEF Finish, LoginTypeOK, At
<1>4. job' \in [Threads -> [session : Sessions \cup {Null}, phone : Numbers,
                            identifier : Identifiers \cup {0}]]
  BY DEF Finish, LoginTypeOK, NoJob, Numbers
<1>5. LoginTypeOK'
  BY <1>1, <1>2, <1>3, <1>4 DEF LoginTypeOK, TypeOK, vars, InDAO
<1>6. size' > 0 /\ CallState'
  BY <1>1, <1>2, <1>3 DEF CallState, vars
<1>7. AnswersRight' /\ SuccessIsRegisteredUnlessTrouble'
  BY <1>1, <1>2, <1>3 DEF AnswersRight, SuccessIsRegisteredUnlessTrouble
<1>8. ClaimsBounded'
  <2>1. \A q \in Numbers : Claims(q)' = Claims(q)
    BY <1>1, <1>2, <1>3 DEF Claims
  <2> QED BY <1>1, <2>1 DEF ClaimsBounded
<1> QED BY <1>5, <1>6, <1>7, <1>8 DEF HandlersInv

-----------------------------------------------------------------------------
(* The queries.  Execute leaves the pool alone; what it does to the answer, *)
(* the table and the claims is the whole of the argument.                   *)
LEMMA ExecutePreserves ==
  ASSUME LoginInv, NEW t \in Threads, Execute(t)
  PROVE  HandlersInv'
<1> USE DEF LoginInv
<1> DEFINE n == job[t].phone
<1>1. pc[t] = "holding" /\ answer[t] = "none" /\ InDAO(t)
      /\ UNCHANGED <<vars, stored, broken, at, job, result, logins>>
  <2>1. pc[t] = "holding" /\ answer[t] = "none"
        /\ UNCHANGED <<vars, stored, broken, at, job, result, logins>>
    BY DEF Execute, ExecuteThrows, ExecuteNoResult, ExecuteSelect, ExecuteInsert, Executing
  <2> QED BY <2>1 DEF LoginTypeOK
<1>2. n \in Numbers /\ rows \in [Numbers -> Nat] /\ blind \in Nat /\ at[t] \in {"exist", "insert"}
      /\ result[t] = "none" /\ at[t] # "done"
  BY <1>1, JobPhone DEF LoginTypeOK, InDAO, CallState
<1>3. /\ answer' \in [Threads -> {"none", "true", "false"}] /\ answer'[t] \in {"true", "false"}
      /\ \A u \in Threads \ {t} : answer'[u] = answer[u]
  BY DEF Execute, ExecuteThrows, ExecuteNoResult, ExecuteSelect, ExecuteInsert, Answer,
         LoginTypeOK
<1>4. /\ trouble \subseteq trouble' /\ trouble' \subseteq trouble \cup {t}
      /\ blind' \in {blind, blind + 1}
  BY DEF Execute, ExecuteThrows, ExecuteNoResult, ExecuteSelect, ExecuteInsert, Failed
<1>5. rows' \in [Numbers -> Nat] /\ rows' \in {rows, [rows EXCEPT ![n] = @ + 1]}
  <2>1. rows' \in {rows, [rows EXCEPT ![n] = @ + 1]}
    BY DEF Execute, ExecuteThrows, ExecuteNoResult, ExecuteSelect, ExecuteInsert
  <2> QED BY <1>2, <2>1
<1>6. \A q \in Numbers : rows'[q] >= rows[q] /\ (q # n => rows'[q] = rows[q])
  BY <1>2, <1>5
<1>7. LoginTypeOK'
  <2>1. trouble' \subseteq Threads /\ blind' \in Nat
    BY <1>2, <1>4 DEF LoginTypeOK
  <2> QED BY <1>1, <1>3, <1>5, <2>1 DEF LoginTypeOK, TypeOK, vars, InDAO
<1>8. size' > 0 /\ CallState'
  BY <1>1, <1>2, <1>3 DEF CallState, vars
<1>9. AnswersRight'
  <2>1. answer'[t] = "true" /\ t \notin trouble' => rows'[n] > 0
    <3>1. CASE ExecuteSelect(t)
      <4>1. rows' = rows /\ (answer'[t] = "true" => rows[n] # 0)
        BY <3>1 DEF ExecuteSelect, Answer, IsExist, LoginTypeOK
      <4> QED BY <1>2, <4>1
    <3>2. CASE ExecuteInsert(t)
      <4>1. rows' = [rows EXCEPT ![n] = @ + 1]
        BY <3>2 DEF ExecuteInsert
      <4> QED BY <1>2, <4>1
    <3>3. CASE ExecuteThrows(t) \/ ExecuteNoResult(t)
      BY <3>3 DEF ExecuteThrows, ExecuteNoResult, Failed
    <3> QED BY <3>1, <3>2, <3>3 DEF Execute
  <2>2. at[t] = "insert" /\ answer'[t] = "false" => t \in trouble'
    <3>1. CASE ExecuteThrows(t)
      BY <3>1 DEF ExecuteThrows, Failed
    <3>2. CASE ExecuteInsert(t)
      BY <3>2 DEF ExecuteInsert, Answer, LoginTypeOK
    <3>3. CASE ExecuteNoResult(t) \/ ExecuteSelect(t)
      BY <3>3 DEF ExecuteNoResult, ExecuteSelect
    <3> QED BY <3>1, <3>2, <3>3 DEF Execute
  <2>3. ASSUME NEW u \in Threads \ {t}
        PROVE  /\ answer'[u] = "true" /\ u \notin trouble' => rows'[job'[u].phone] > 0
               /\ at'[u] = "insert" /\ answer'[u] = "false" => u \in trouble'
    <3>1. job'[u].phone \in Numbers /\ rows'[job'[u].phone] >= rows[job[u].phone]
          /\ rows[job[u].phone] \in Nat /\ rows'[job'[u].phone] \in Nat
      BY <1>1, <1>5, <1>6, JobPhone
    <3> QED BY <1>1, <1>3, <1>4, <3>1 DEF AnswersRight
  <2> QED BY <1>1, <2>1, <2>2, <2>3 DEF AnswersRight
<1>10. SuccessIsRegisteredUnlessTrouble'
  <2> SUFFICES ASSUME NEW u \in Threads, result'[u] = "kSuccess", u \notin trouble'
               PROVE  rows'[job'[u].phone] > 0
    BY DEF SuccessIsRegisteredUnlessTrouble
  <2>1. job'[u].phone \in Numbers /\ rows'[job'[u].phone] >= rows[job[u].phone]
        /\ rows[job[u].phone] \in Nat /\ rows'[job'[u].phone] \in Nat
    BY <1>1, <1>5, <1>6, JobPhone
  <2>2. rows[job[u].phone] > 0
    BY <1>1, <1>4 DEF SuccessIsRegisteredUnlessTrouble
  <2> QED BY <2>1, <2>2
<1>11. ClaimsBounded'
  <2> SUFFICES ASSUME NEW q \in Numbers
               PROVE  rows'[q] + Cardinality(Claims(q)') <= Cardinality(Threads) + blind'
    BY DEF ClaimsBounded
  <2>1. /\ rows[q] + Cardinality(Claims(q)) <= Cardinality(Threads) + blind
        /\ rows[q] \in Nat /\ rows'[q] \in Nat /\ blind' \in Nat
        /\ Cardinality(Threads) \in Nat
        /\ Cardinality(Claims(q)) \in Nat /\ Cardinality(Claims(q)') \in Nat
        /\ Cardinality(Claims(q)') <= Cardinality(Threads)
        /\ IsFiniteSet(Claims(q)) /\ IsFiniteSet(Claims(q)')
    BY <1>2, <1>4, <1>5, ClaimsFinite, FS_CardinalityType, ConnPoolAssumption
    DEF ClaimsBounded
  <2>2. CASE q # n
    <3>1. Claims(q)' = Claims(q)
      BY <1>1, <1>3, <2>2 DEF Claims
    <3>2. rows'[q] = rows[q]
      BY <1>6, <2>2
    <3> QED BY <1>2, <1>4, <2>1, <3>1, <3>2
  <2>3. CASE q = n /\ at[t] = "insert"
    <3>1. Claims(q)' = Claims(q) \ {t} /\ t \in Claims(q)
      BY <1>1, <1>3, <2>3 DEF Claims
    <3>2. Cardinality(Claims(q)') = Cardinality(Claims(q)) - 1
      BY <2>1, <3>1, FS_RemoveElement
    <3>3. rows'[q] <= rows[q] + 1
      BY <1>2, <1>5, <2>3
    <3> QED BY <1>2, <1>4, <2>1, <3>2, <3>3
  <2>4. CASE q = n /\ at[t] = "exist"
    <3>1. rows' = rows
      BY <2>4 DEF Execute, ExecuteThrows, ExecuteNoResult, ExecuteSelect, ExecuteInsert
    <3>2. t \notin Claims(q)
          /\ Claims(q)' = IF answer'[t] = "false" THEN Claims(q) \cup {t} ELSE Claims(q)
      BY <1>1, <1>3, <2>4 DEF Claims
    <3>3. CASE answer'[t] = "false" /\ ExecuteThrows(t)
      <4>1. blind' = blind + 1
        BY <2>4, <3>3 DEF ExecuteThrows, Failed
      <4>2. Cardinality(Claims(q)') = Cardinality(Claims(q)) + 1
        BY <2>1, <3>2, <3>3, FS_AddElement
      <4> QED BY <1>2, <2>1, <3>1, <4>1, <4>2
    <3>4. CASE answer'[t] = "false" /\ ExecuteSelect(t)
      <4>1. rows[q] = 0
        BY <2>4, <3>4 DEF ExecuteSelect, Answer, IsExist, LoginTypeOK
      <4> QED BY <1>2, <1>4, <2>1, <3>1, <4>1
    <3>5. CASE answer'[t] = "true"
      <4>1. Claims(q)' = Claims(q)
        BY <3>2, <3>5
      <4> QED BY <1>2, <1>4, <2>1, <3>1, <4>1
    <3>6. ~ExecuteInsert(t) /\ (ExecuteNoResult(t) => answer'[t] = "true")
      BY <2>4 DEF ExecuteInsert, ExecuteNoResult, Answer, LoginTypeOK
    <3> QED BY <1>3, <3>3, <3>4, <3>5, <3>6 DEF Execute
  <2> QED BY <1>2, <2>2, <2>3, <2>4
<1> QED BY <1>7, <1>8, <1>9, <1>10, <1>11 DEF HandlersInv

(* Handle goes on after a DAO call, with or without a connection. *)
LEMMA ResumePreserves ==
  ASSUME LoginInv, TypeOK', size' = size, NEW t \in Threads, NEW value \in BOOLEAN,
         InDAO(t), pc'[t] = "idle",
         \A u \in Threads \ {t} : /\ pc[u] = "holding" => pc'[u] = "holding"
                                  /\ pc[u] = "idle" => pc'[u] = "idle",
         Resume(t, value),
         UNCHANGED <<stored, broken, rows, job, logins>>,
         \/ answer[t] = (IF value THEN "true" ELSE "false") /\ UNCHANGED <<trouble, blind>>
         \/ answer[t] = "none" /\ ~value /\ Failed(t)
  PROVE  HandlersInv'
<1> USE DEF LoginInv
<1>1. /\ at' \in [Threads -> At] /\ at'[t] \in {"insert", "done"}
      /\ \A u \in Threads \ {t} : at'[u] = at[u]
      /\ at'[t] = "insert" <=> at[t] = "exist" /\ ~value
  BY DEF Resume, LoginTypeOK, At, InDAO
<1>2. /\ result' \in [Threads -> {"none", "kInvalidData", "kSuccess"}]
      /\ result'[t] = IF at'[t] = "insert" THEN "none" ELSE "kSuccess"
      /\ \A u \in Threads \ {t} : result'[u] = result[u]
  <2>1. result[t] = "none"
    BY DEF CallState, InDAO
  <2> QED BY <1>1, <2>1 DEF Resume, LoginTypeOK, InDAO
<1>3. /\ answer' \in [Threads -> {"none", "true", "false"}] /\ answer'[t] = "none"
      /\ \A u \in Threads \ {t} : answer'[u] = answer[u]
  BY DEF Resume, LoginTypeOK
<1>4. /\ trouble \subseteq trouble' /\ trouble' \subseteq trouble \cup {t}
      /\ blind' \in {blind, blind + 1} /\ blind \in Nat
  BY DEF Failed, LoginTypeOK
<1>5. LoginTypeOK'
  <2>1. trouble' \subseteq Threads /\ blind' \in Nat
    BY <1>4 DEF LoginTypeOK
  <2>2. \A u \in Threads : InDAO(u)' \/ pc'[u] = "idle"
    BY <1>1 DEF LoginTypeOK, InDAO
  <2> QED BY <1>1, <1>2, <1>3, <2>1, <2>2 DEF LoginTypeOK
<1>6. size' > 0
  OBVIOUS
<1>7. CallState'
  BY <1>1, <1>2, <1>3 DEF CallState
<1>8. AnswersRight'
  BY <1>1, <1>3, <1>4 DEF AnswersRight
<1>9. SuccessIsRegisteredUnlessTrouble'
  <2>1. at'[t] = "done" /\ t \notin trouble' => rows[job[t].phone] > 0
    <3>1. CASE answer[t] = "true" /\ value
      BY <1>4, <3>1 DEF AnswersRight
    <3>2. CASE answer[t] = "false" /\ ~value
      BY <1>1, <1>4, <3>2 DEF AnswersRight, InDAO
    <3>3. CASE Failed(t)
      BY <3>3 DEF Failed
    <3> QED BY <3>1, <3>2, <3>3
  <2>2. \A u \in Threads \ {t} : result'[u] = "kSuccess" /\ u \notin trouble' => rows[job[u].phone] > 0
    BY <1>2, <1>4 DEF SuccessIsRegisteredUnlessTrouble
  <2> QED BY <1>1, <1>2, <2>1, <2>2 DEF SuccessIsRegisteredUnlessTrouble
<1>10. ClaimsBounded'
  <2> SUFFICES ASSUME NEW q \in Numbers
               PROVE  rows[q] + Cardinality(Claims(q)') <= Cardinality(Threads) + blind'
    BY DEF ClaimsBounded
  <2>1. /\ rows[q] + Cardinality(Claims(q)) <= Cardinality(Threads) + blind
        /\ rows[q] \in Nat /\ blind' \in Nat /\ Cardinality(Threads) \in Nat
        /\ Cardinality(Claims(q)) \in Nat /\ Cardinality(Claims(q)') \in Nat
        /\ IsFiniteSet(Claims(q)) /\ IsFiniteSet(Claims(q)')
    BY <1>4, ClaimsFinite, FS_CardinalityType, ConnPoolAssumption
    DEF ClaimsBounded, LoginTypeOK
  <2>2. CASE Claims(q)' \subseteq Claims(q)
    <3>1. Cardinality(Claims(q)') <= Cardinality(Claims(q))
      BY <2>1, <2>2, FS_Subset
    <3> QED BY <1>4, <2>1, <3>1
  <2>3. CASE ~(Claims(q)' \subseteq Claims(q))
    <3>1. Claims(q)' = Claims(q) \cup {t} /\ at[t] = "exist" /\ answer[t] # "false"
      BY <1>1, <1>3, <2>3 DEF Claims, InDAO
    <3>2. blind' = blind + 1
      BY <1>1, <1>3, <2>3, <3>1 DEF Failed, Claims, InDAO
    <3>3. Cardinality(Claims(q)') \in {Cardinality(Claims(q)), Cardinality(Claims(q)) + 1}
      BY <2>1, <3>1, FS_AddElement
    <3> QED BY <1>4, <2>1, <3>2, <3>3
  <2> QED BY <2>2, <2>3
<1> QED BY <1>5, <1>6, <1>7, <1>8, <1>9, <1>10 DEF HandlersInv

(* A DAO call that returns, with or without having had a connection, makes *)
(* its handler go on as the answer says.                                   *)
LEMMA ReturnsPreserve ==
  ASSUME LoginInv, PoolInv', NEW t \in Threads, NoConnection(t) \/ Return(t)
  PROVE  HandlersInv'
<1> USE DEF LoginInv, PoolInv
<1>1. pc \in [Threads -> PcState] /\ TypeOK'
  BY DEF TypeOK
<1>a. CASE NoConnection(t)
  <2>1. /\ Looking(t) /\ ReturnNull(t) /\ Resume(t, FALSE) /\ Failed(t)
        /\ UNCHANGED <<stored, broken, rows, job, logins>>
    BY <1>a DEF NoConnection, Refuse
  <2>2. InDAO(t) /\ answer[t] = "none"
    BY <2>1 DEF Looking, LoginTypeOK, CallState
  <2>3. /\ pc'[t] = "idle" /\ size' = size
        /\ \A u \in Threads \ {t} : pc'[u] = pc[u]
    BY <1>1, <2>1 DEF ReturnNull
  <2> QED BY <1>1, <2>1, <2>2, <2>3, ResumePreserves
<1>b. CASE Return(t)
  <2> DEFINE value == answer[t] = "true"
  <2>1. /\ answer[t] # "none" /\ ReleaseConnHandler(t) /\ Resume(t, value)
        /\ UNCHANGED <<stored, broken, rows, job, logins, trouble, blind>>
    BY <1>b DEF Return
  <2>2. InDAO(t) /\ answer[t] = (IF value THEN "true" ELSE "false")
    BY <2>1 DEF ReleaseConnHandler, LoginTypeOK
  <2>3. /\ pc'[t] = "idle" /\ size' = size
        /\ \A u \in Threads \ {t} : /\ pc[u] = "holding" => pc'[u] = "holding"
                                    /\ pc[u] = "idle" => pc'[u] = "idle"
    BY <1>1, <2>1 DEF ReleaseConnHandler, Waiting
  <2>4. value \in BOOLEAN
    OBVIOUS
  <2> HIDE DEF value
  <2> QED BY <1>1, <2>1, <2>2, <2>3, <2>4, ResumePreserves
<1> QED BY <1>a, <1>b

-----------------------------------------------------------------------------
(* For any workers, sessions and failures of queries, the login handlers,  *)
(* UserDAO and the pool keep the inductive invariant.                      *)
THEOREM LoginCorrect == LoginSpec => []LoginInv
<1>1. LoginInv /\ [LoginNext]_loginVars => LoginInv'
  <2> SUFFICES ASSUME LoginInv, [LoginNext]_loginVars PROVE LoginInv'
    OBVIOUS
  <2>1. PoolInv'
    BY LoginStepIsPoolStep, NextPool DEF LoginInv
  <2>2. CASE LoginNext
    <3>1. PICK t \in Threads :
            \/ \E s \in Sessions :
                 \/ \E p \in Phones, i \in Identifiers : HandlePhone(t, s, p, i)
                 \/ \E p \in Numbers, i \in Identifiers \cup {0} : HandleLogin(t, s, p, i)
            \/ Proceed(t) \/ PoolClock(t)
      BY <2>2 DEF LoginNext
    <3>2. ASSUME NEW s \in Sessions,
                 \/ \E p \in Phones, i \in Identifiers : HandlePhone(t, s, p, i)
                 \/ \E p \in Numbers, i \in Identifiers \cup {0} : HandleLogin(t, s, p, i)
          PROVE  HandlersInv'
      <4>1. Phones \subseteq Numbers
        BY DEF Numbers
      <4> QED BY <3>2, <4>1, HandlePreserves
    <3>3. ASSUME Proceed(t) \/ PoolClock(t) PROVE HandlersInv'
      BY <2>1, <3>3, PoolStepsPreserve, ReturnsPreserve, ExecutePreserves, FinishPreserves
      DEF Proceed
    <3>4. HandlersInv'
      BY <3>1, <3>2, <3>3
    <3> QED BY <2>1, <3>4 DEF HandlersInv, LoginInv
  <2>3. CASE UNCHANGED loginVars
    <3> USE <2>3 DEF loginVars, vars, daoVars, LoginInv
    <3>1. LoginTypeOK' /\ size' > 0
      BY DEF LoginTypeOK, TypeOK, InDAO
    <3>2. CallState' /\ AnswersRight' /\ SuccessIsRegisteredUnlessTrouble'
      BY DEF CallState, AnswersRight, SuccessIsRegisteredUnlessTrouble
    <3>3. ClaimsBounded'
      BY DEF ClaimsBounded, Claims
    <3> QED BY <2>1, <3>1, <3>2, <3>3
  <2> QED BY <2>2, <2>3
<1> QED BY <1>1, InitLogin, PTL DEF LoginSpec

(* Types; and a worker is in the connection pool only inside a DAO call, so *)
(* no handler returns with a connection in its hands.                       *)
THEOREM LoginTypes == LoginSpec => []LoginTypeOK
BY LoginCorrect, PTL DEF LoginInv

(* kSuccess means that the number has a row, unless a query of this very    *)
(* login failed.                                                            *)
THEOREM LoginSuccessIsRegistered == LoginSpec => []SuccessIsRegisteredUnlessTrouble
BY LoginCorrect, PTL DEF LoginInv

(* However often a number logs in, on however many sessions, it gets no     *)
(* more rows than there are workers, and one for each time IsExist answered *)
(* without knowing.                                                         *)
THEOREM LoginDuplicatesBounded == LoginSpec => []DuplicatesBounded
<1>1. ASSUME LoginInv, NEW p \in Numbers PROVE rows[p] <= Cardinality(Threads) + blind
  <2>1. rows[p] \in Nat /\ blind \in Nat /\ Cardinality(Threads) \in Nat
        /\ Cardinality(Claims(p)) \in Nat
    BY <1>1, ClaimsFinite, FS_CardinalityType, ConnPoolAssumption DEF LoginInv, LoginTypeOK
  <2>2. rows[p] + Cardinality(Claims(p)) <= Cardinality(Threads) + blind
    BY <1>1 DEF LoginInv, ClaimsBounded
  <2> QED BY <2>1, <2>2
<1>2. LoginInv => DuplicatesBounded
  BY <1>1 DEF DuplicatesBounded
<1> QED BY <1>2, LoginCorrect, PTL

=============================================================================
