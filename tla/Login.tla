-------------------------------- MODULE Login --------------------------------
(***************************************************************************)
(* The request handlers and the database: PhoneReqEventHandler,            *)
(* LoginReqEventHandler, UserDAO's queries on the user table, and the      *)
(* connections they take from ConnPool, one for each query.  The threads   *)
(* of ConnPool are the workers of the thread pool; the state of ConnPool   *)
(* changes only by its own actions.                                        *)
(*                                                                         *)
(* A query may fail: RequestHandler returned nullptr, the connection was   *)
(* never made (HandlerWrapper keeps mysql_real_connect's null), or the     *)
(* database reported an error, for an INSERT before or after the row was   *)
(* stored.  A worker handles one request of a session at a time            *)
(* (OneRequestInFlight of NetGate), so the session's stored values do not  *)
(* change while a login is handled.                                        *)
(***************************************************************************)
EXTENDS ConnPool

CONSTANTS Sessions,
          Phones,       \* phone numbers clients use
          Identifiers,  \* what generate_identifier may return
          MaxLogins,    \* bound: login requests of all clients together
          Null          \* no session

ASSUME LoginAssumption ==
  /\ kMinCount > 0      \* 2 in conf/shbk2.toml
  /\ "" \notin Phones /\ 0 \notin Identifiers
  /\ MaxLogins \in Nat
  /\ Null \notin Sessions

VARIABLES
  stored,   \* stored[s]: phone_number_ and identifier_ of Session s
  broken,   \* connections whose handler_ is null
  rows,     \* rows[p]: rows of the user table with number p
  at,       \* at[t]: where worker t is in Handle
  job,      \* job[t]: the login request that t handles
  answer,   \* answer[t]: what the DAO call will return
  result,   \* result[t]: the error code of the response
  logins,   \* login requests so far
  trouble,  \* history: workers for whose login some query failed
  blind     \* history: how often IsExist answered false without knowing

daoVars == <<stored, broken, rows, at, job, answer, result, logins, trouble, blind>>
loginVars == <<vars, daoVars>>

(* A number the table may hold: a client's, or the empty one that a Session *)
(* starts with.                                                             *)
Numbers == Phones \cup {""}

NoJob == [session |-> Null, phone |-> "", identifier |-> 0]

(* free: no login in hand; exist, insert: in UserDAO::IsExist or Insert;    *)
(* done: Handle has returned.                                               *)
At == {"free", "exist", "insert", "done"}

(* main has come past CreateTable, or it had called exit(4): the first      *)
(* connection, the one CreateTable was given, works.                        *)
LoginInit ==
  /\ Init
  /\ stored = [s \in Sessions |-> [phone |-> "", identifier |-> 0]]
  /\ broken \in SUBSET (2..kMinCount)
  /\ rows = [p \in Numbers |-> 0]
  /\ at = [t \in Threads |-> "free"]
  /\ job = [t \in Threads |-> NoJob]
  /\ answer = [t \in Threads |-> "none"]
  /\ result = [t \in Threads |-> "none"]
  /\ logins = 0 /\ trouble = {} /\ blind = 0

-----------------------------------------------------------------------------
(* The handlers *)

Busy(s) == \E t \in Threads : at[t] # "free" /\ job[t].session = s

(* PhoneReqEventHandler::Handle: the identifier is any that rand() gives. *)
HandlePhone(t, s, phone, identifier) ==
  /\ at[t] = "free" /\ ~Busy(s)
  /\ stored' = [stored EXCEPT ![s] = [phone |-> phone, identifier |-> identifier]]
  /\ UNCHANGED <<vars, broken, rows, at, job, answer, result, logins, trouble, blind>>

(* LoginReqEventHandler::Handle, up to its first call of UserDAO. *)
HandleLogin(t, s, phone, identifier) ==
  /\ at[t] = "free" /\ ~Busy(s) /\ logins < MaxLogins
  /\ logins' = logins + 1
  /\ job' = [job EXCEPT ![t] = [session |-> s, phone |-> phone,
                                identifier |-> identifier]]
  /\ \/ /\ stored[s] # [phone |-> phone, identifier |-> identifier]
        /\ at' = [at EXCEPT ![t] = "done"]
        /\ result' = [result EXCEPT ![t] = "kInvalidData"]
     \/ /\ stored[s] = [phone |-> phone, identifier |-> identifier]
        /\ at' = [at EXCEPT ![t] = "exist"]
        /\ UNCHANGED result
  /\ UNCHANGED <<vars, stored, broken, rows, answer, trouble, blind>>

(* Handle goes on when a DAO call returned value: an unknown number is      *)
(* inserted; after Insert the response is kSuccess whatever Insert          *)
(* returned, for line 57 replaces the kProcessFailed of line 50.            *)
Resume(t, value) ==
  /\ \/ /\ at[t] = "exist" /\ ~value
        /\ at' = [at EXCEPT ![t] = "insert"]
        /\ UNCHANGED result
     \/ /\ at[t] = "insert" \/ value
        /\ at' = [at EXCEPT ![t] = "done"]
        /\ result' = [result EXCEPT ![t] = "kSuccess"]
  /\ answer' = [answer EXCEPT ![t] = "none"]

(* The response goes to the results queue and the worker is free. *)
Finish(t) ==
  /\ at[t] = "done"
  /\ at' = [at EXCEPT ![t] = "free"]
  /\ job' = [job EXCEPT ![t] = NoJob]
  /\ result' = [result EXCEPT ![t] = "none"]
  /\ trouble' = trouble \ {t}
  /\ UNCHANGED <<vars, stored, broken, rows, answer, logins, blind>>

-----------------------------------------------------------------------------
(* UserDAO::IsExist and UserDAO::Insert *)

InDAO(t) == at[t] \in {"exist", "insert"}

(* A query of t went wrong; IsExist then answers false. *)
Failed(t) ==
  /\ trouble' = trouble \cup {t}
  /\ blind' = IF at[t] = "exist" THEN blind + 1 ELSE blind

CallPool(t) ==
  /\ InDAO(t) /\ Request(t)
  /\ UNCHANGED daoVars

(* RequestHandler hands out a connection, or waits. *)
GetConnection(t) ==
  /\ TakeFree(t) \/ Wait(t)
  /\ UNCHANGED daoVars

(* ... or makes one: mysql_real_connect may fail, and nobody looks. *)
GetNewConnection(t) ==
  /\ Grow(t)
  /\ broken' \in {broken, broken \cup {size + 1}}
  /\ UNCHANGED <<stored, rows, at, job, answer, result, logins, trouble, blind>>

(* ... or returns nullptr: the DAO call returns false. *)
NoConnection(t) ==
  /\ Refuse(t)
  /\ Resume(t, FALSE)
  /\ Failed(t)
  /\ UNCHANGED <<stored, broken, rows, job, logins>>

Executing(t) == pc[t] = "holding" /\ answer[t] = "none"
Answer(t, value) ==
  answer' = [answer EXCEPT ![t] = IF value THEN "true" ELSE "false"]

(* Mutants: the result of the SELECT is not used; a number with a row is   *)
(* taken for unknown and the other way round.                              *)
IsExistIgnored(p) == FALSE
IsExistInverted(p) == rows[p] = 0

(* SELECT: the number of rows found is not zero.  The number stands in the  *)
(* statement as the client wrote it (dao.cpp:54, and 71 for the INSERT),    *)
(* between quotes that nothing escapes, and the column is VARCHAR(16): the  *)
(* lookup is exact for numbers of at most 16 characters without a quote or  *)
(* a backslash, which Phones stands for.                                    *)
IsExist(p) == rows[p] # 0

(* Execute throws, and the DAO call catches: a null handler, or an error   *)
(* that the database reports.  An INSERT may have stored its row.          *)
ExecuteThrows(t) ==
  /\ Executing(t)
  /\ Answer(t, FALSE)
  /\ Failed(t)
  /\ \/ UNCHANGED rows
     \/ /\ at[t] = "insert" /\ index[t] \notin broken
        /\ rows' = [rows EXCEPT ![job[t].phone] = @ + 1]
  /\ UNCHANGED <<vars, stored, broken, at, job, result, logins>>

(* The SELECT succeeds and its result cannot be fetched: the number of     *)
(* affected rows is -1, which is not zero.                                 *)
ExecuteNoResult(t) ==
  /\ Executing(t) /\ at[t] = "exist" /\ index[t] \notin broken
  /\ Answer(t, TRUE)
  /\ trouble' = trouble \cup {t}
  /\ UNCHANGED <<vars, stored, broken, rows, at, job, result, logins, blind>>

ExecuteSelect(t) ==
  /\ Executing(t) /\ at[t] = "exist" /\ index[t] \notin broken
  /\ Answer(t, IsExist(job[t].phone))
  /\ UNCHANGED <<vars, stored, broken, rows, at, job, result, logins, trouble, blind>>

ExecuteInsert(t) ==
  /\ Executing(t) /\ at[t] = "insert" /\ index[t] \notin broken
  /\ Answer(t, TRUE)
  /\ rows' = [rows EXCEPT ![job[t].phone] = @ + 1]
  /\ UNCHANGED <<vars, stored, broken, at, job, result, logins, trouble, blind>>

(* Mutant: the DAO call returns and its worker keeps the connection. *)
ReturnKeeps(t) ==
  /\ pc[t] = "holding" /\ answer[t] # "none"
  /\ Resume(t, answer[t] = "true")
  /\ UNCHANGED <<vars, stored, broken, rows, job, logins, trouble, blind>>

(* The DAO call returns, and conn_handler is destroyed with it. *)
Return(t) ==
  /\ answer[t] # "none"
  /\ ReleaseConnHandler(t)
  /\ Resume(t, answer[t] = "true")
  /\ UNCHANGED <<stored, broken, rows, job, logins, trouble, blind>>

(* Time and the condition variable, as in ConnPool. *)
PoolClock(t) == (DeadlinePasses(t) \/ WakeUp(t)) /\ UNCHANGED daoVars

-----------------------------------------------------------------------------
Execute(t) == \/ ExecuteThrows(t) \/ ExecuteNoResult(t)
              \/ ExecuteSelect(t) \/ ExecuteInsert(t)

Proceed(t) == \/ CallPool(t) \/ GetConnection(t) \/ GetNewConnection(t)
              \/ NoConnection(t) \/ Execute(t) \/ Return(t) \/ Finish(t)

LoginNext ==
  \E t \in Threads :
    \/ \E s \in Sessions :
         \/ \E p \in Phones, i \in Identifiers : HandlePhone(t, s, p, i)
         \/ \E p \in Numbers, i \in Identifiers \cup {0} : HandleLogin(t, s, p, i)
    \/ Proceed(t) \/ PoolClock(t)

LoginSpec == LoginInit /\ [][LoginNext]_loginVars

-----------------------------------------------------------------------------
(* Types; and a worker holds, or wants, a connection only inside a DAO     *)
(* call: none is kept for the second query or after the handler returned.  *)
LoginTypeOK ==
  /\ TypeOK
  /\ stored \in [Sessions -> [phone : Numbers, identifier : Identifiers \cup {0}]]
  /\ broken \subseteq 2..Capacity
  /\ rows \in [Numbers -> Nat]
  /\ at \in [Threads -> At]
  /\ job \in [Threads -> [session : Sessions \cup {Null}, phone : Numbers,
                          identifier : Identifiers \cup {0}]]
  /\ answer \in [Threads -> {"none", "true", "false"}]
  /\ result \in [Threads -> {"none", "kInvalidData", "kSuccess"}]
  /\ logins \in 0..MaxLogins /\ trouble \subseteq Threads /\ blind \in Nat
  /\ \A t \in Threads : InDAO(t) \/ pc[t] = "idle"

(* A login is answered with kSuccess only for a number that has a row, if   *)
(* none of its own queries failed, whatever failed for others.              *)
SuccessIsRegisteredUnlessTrouble ==
  \A t \in Threads :
    result[t] = "kSuccess" /\ t \notin trouble => rows[job[t].phone] > 0

(* A login whose Insert failed, or got no connection, is not answered with  *)
(* success: the handler makes a kProcessFailed response for it, and the     *)
(* DAO is called to make data persistent.                                   *)
FailedInsertIsReported ==
  [][\A t \in Threads :
       at[t] = "insert" /\ at'[t] = "done" /\ answer[t] # "true"
         => result'[t] # "kSuccess"]_loginVars

(* IsExist and Insert are two queries and the table has no unique key: one  *)
(* number may get several rows, but no more than there are workers, however *)
(* often it logs in, and one for every time IsExist did not know.           *)
DuplicatesBounded ==
  \A p \in Numbers : rows[p] <= Cardinality(Threads) + blind

=============================================================================
