------------------------------ MODULE DbSession ------------------------------
(***************************************************************************)
(* The connection and lock discipline of DaqMysql (daq_mysql.py). Every    *)
(* statement method (update*, add*Entry, addError, clearEntries,          *)
(* delOldEntries) and pollTable() take _dbLock, call connect() and run     *)
(* their statements on the shared connection self._db, then release the   *)
(* lock, with no try/finally. The polling thread run() holds _cbLock over  *)
(* a whole pass; addPollCallback() takes _cbLock too.                      *)
(*                                                                         *)
(* The server may close an idle connection (wait_timeout) and, when        *)
(* Outages holds, be unreachable for a while or close a connection in use *)
(* (a restart). What the statements do to rows is StoreSync's part.        *)
(***************************************************************************)
EXTENDS Naturals

CONSTANTS
  Apps,        \* application threads calling DaqMysql methods
  Poller,      \* the polling thread (model value)
  Ops,         \* the statement methods the applications call
  MaxTries,    \* connect(): while tries < 5
  MaxCalls,    \* application calls over a behaviour
  Outages,     \* whether the server may be unreachable or restart
  NoHolder     \* model value: a lock is free

Threads == Apps \cup {Poller}

\* the statements each method executes on one cursor
Statements(op) == IF op \in {"clearEntries", "delOldEntries"} THEN 3 ELSE 1

VARIABLES
  pc,       \* program point of each thread
  tries,    \* the local tries of connect()
  left,     \* statements the current method has still to execute
  dbLock,   \* holder of self._dbLock
  cbLock,   \* holder of self._cbLock
  db,       \* self._db: "none", "ok", or "dead" (closed by the server)
  pollEn,   \* self._pollEn
  nCalls    \* application calls made so far

vars == <<pc, tries, left, dbLock, cbLock, db, pollEn, nCalls>>

\* whether a connect() attempt can reach the server
Reachable == IF Outages THEN BOOLEAN ELSE {TRUE}

Init ==
  /\ pc = [t \in Threads |-> IF t = Poller THEN "top" ELSE "idle"]
  /\ tries = [t \in Threads |-> 0]
  /\ left = [t \in Threads |-> 0]
  /\ dbLock = NoHolder
  /\ cbLock = NoHolder
  /\ db = "none"
  /\ pollEn = TRUE        \* pollEnable(): _pollEn = True, then start()
  /\ nCalls = 0

-----------------------------------------------------------------------------
(* The statement methods, shared by the application threads and           *)
(* pollTable(): acquire _dbLock, connect(), execute, release.             *)

\* an application thread calls a statement method
Call(t) ==
  /\ pc[t] = "idle"
  /\ nCalls < MaxCalls
  /\ \E op \in Ops : left' = [left EXCEPT ![t] = Statements(op)]
  /\ pc' = [pc EXCEPT ![t] = "dblock"]
  /\ nCalls' = nCalls + 1
  /\ UNCHANGED <<tries, dbLock, cbLock, db, pollEn>>

AcquireDb(t) ==
  /\ pc[t] = "dblock"
  /\ dbLock = NoHolder
  /\ dbLock' = t
  /\ pc' = [pc EXCEPT ![t] = "connect"]
  /\ tries' = [tries EXCEPT ![t] = 0]
  /\ UNCHANGED <<left, cbLock, db, pollEn, nCalls>>

\* where an exception raised inside a method takes its thread: the caller's
\* call ends; the polling thread leaves run() and ends
Raise(t) == IF t = Poller THEN "dead" ELSE "idle"

\* mutant: the except branch does not drop the dead connection
ConnectTryNoReset(t) ==
  /\ pc[t] = "connect"
  /\ IF tries[t] >= MaxTries
       THEN /\ pc' = [pc EXCEPT ![t] = Raise(t)]
            /\ UNCHANGED <<tries, db>>
       ELSE \E up \in Reachable :
            IF up /\ db # "dead"
            THEN /\ db' = "ok"
                 /\ pc' = [pc EXCEPT ![t] = "execute"]
                 /\ UNCHANGED tries
            ELSE /\ tries' = [tries EXCEPT ![t] = @ + 1]
                 /\ UNCHANGED <<pc, db>>
  /\ UNCHANGED <<left, dbLock, cbLock, pollEn, nCalls>>

(* One pass of the while tries < 5 loop of connect(). With self._db None  *)
(* it connects, then runs SELECT VERSION(): both need the server, and    *)
(* the query fails on a dead connection. On MySQLdb.Error, _db = None and *)
(* the next try. After the last try DaqMysqlException is raised, with     *)
(* _dbLock still held by the method that called connect().               *)
ConnectTry(t) ==
  /\ pc[t] = "connect"
  /\ IF tries[t] >= MaxTries
       THEN /\ pc' = [pc EXCEPT ![t] = Raise(t)]
            /\ UNCHANGED <<tries, db>>
       ELSE \E up \in Reachable :
            IF up /\ db # "dead"
            THEN /\ db' = "ok"
                 /\ pc' = [pc EXCEPT ![t] = "execute"]
                 /\ UNCHANGED tries
            ELSE /\ db' = "none"
                 /\ tries' = [tries EXCEPT ![t] = @ + 1]
                 /\ UNCHANGED pc
  /\ UNCHANGED <<left, dbLock, cbLock, pollEn, nCalls>>

\* mutant: the release is tested one statement late
ExecuteOneTooMany(t) ==
  /\ pc[t] = "execute"
  /\ IF db = "ok"
       THEN /\ left' = [left EXCEPT ![t] = @ - 1]
            /\ IF left[t] = 0
                 THEN /\ dbLock' = NoHolder
                      /\ pc' = [pc EXCEPT ![t] = IF t = Poller THEN "dispatch" ELSE "idle"]
                 ELSE UNCHANGED <<dbLock, pc>>
       ELSE /\ pc' = [pc EXCEPT ![t] = Raise(t)]
            /\ UNCHANGED <<left, dbLock>>
  /\ UNCHANGED <<tries, cbLock, db, pollEn, nCalls>>

(* cursor.execute() of the method's next statement. On a dead connection  *)
(* MySQLdb.Error propagates out of the method with _dbLock held. After    *)
(* the last statement the lock is released; pollTable() returns its rows  *)
(* to run(), which dispatches them still holding _cbLock.                 *)
Execute(t) ==
  /\ pc[t] = "execute"
  /\ IF db = "ok"
       THEN /\ left' = [left EXCEPT ![t] = @ - 1]
            /\ IF left[t] = 1
                 THEN /\ dbLock' = NoHolder
                      /\ pc' = [pc EXCEPT ![t] = IF t = Poller THEN "dispatch" ELSE "idle"]
                 ELSE UNCHANGED <<dbLock, pc>>
       ELSE /\ pc' = [pc EXCEPT ![t] = Raise(t)]
            /\ UNCHANGED <<left, dbLock>>
  /\ UNCHANGED <<tries, cbLock, db, pollEn, nCalls>>

-----------------------------------------------------------------------------
(* addPollCallback(): _cbLock.acquire(), append, _cbLock.release().       *)

CallRegister(t) ==
  /\ pc[t] = "idle"
  /\ nCalls < MaxCalls
  /\ pc' = [pc EXCEPT ![t] = "cblock"]
  /\ nCalls' = nCalls + 1
  /\ UNCHANGED <<tries, left, dbLock, cbLock, db, pollEn>>

\* mutant: the method returns without _cbLock.release()
RegisterKeepsLock(t) ==
  /\ pc[t] = "cblock"
  /\ cbLock = NoHolder
  /\ cbLock' = t
  /\ pc' = [pc EXCEPT ![t] = "idle"]
  /\ UNCHANGED <<tries, left, dbLock, db, pollEn, nCalls>>

Register(t) ==
  /\ pc[t] = "cblock"
  /\ cbLock = NoHolder
  /\ pc' = [pc EXCEPT ![t] = "idle"]
  /\ UNCHANGED <<tries, left, dbLock, cbLock, db, pollEn, nCalls>>

-----------------------------------------------------------------------------
(* The polling thread: while self._pollEn: sleep; take _cbLock; for the   *)
(* table, pollTable() and the callbacks of its rows; release _cbLock.     *)

\* mutant: the loop condition is not tested again (while True)
PollTopIgnoresEnable ==
  /\ pc[Poller] = "top"
  /\ pc' = [pc EXCEPT ![Poller] = "cblock"]
  /\ UNCHANGED <<tries, left, dbLock, cbLock, db, pollEn, nCalls>>

\* The time.sleep(_pollPer) before the lock is a stuttering step and is left
\* out; the poller holds neither lock while it sleeps.
PollTop ==
  /\ pc[Poller] = "top"
  /\ pc' = [pc EXCEPT ![Poller] = IF pollEn THEN "cblock" ELSE "done"]
  /\ UNCHANGED <<tries, left, dbLock, cbLock, db, pollEn, nCalls>>

PollAcquireCb ==
  /\ pc[Poller] = "cblock"
  /\ cbLock = NoHolder
  /\ cbLock' = Poller
  /\ pc' = [pc EXCEPT ![Poller] = "dblock"]
  /\ left' = [left EXCEPT ![Poller] = 1]    \* pollTable() runs one query
  /\ UNCHANGED <<tries, dbLock, db, pollEn, nCalls>>

\* the callbacks of the rows ran; _cbLock.release()
PollDispatch ==
  /\ pc[Poller] = "dispatch"
  /\ cbLock' = NoHolder
  /\ pc' = [pc EXCEPT ![Poller] = "top"]
  /\ UNCHANGED <<tries, left, dbLock, db, pollEn, nCalls>>

\* pollDisable(): _pollEn = False, then join()
PollDisable ==
  /\ pollEn
  /\ pollEn' = FALSE
  /\ UNCHANGED <<pc, tries, left, dbLock, cbLock, db, nCalls>>

-----------------------------------------------------------------------------
(* The server.                                                            *)

(* The server closes the connection: an idle one after wait_timeout, and *)
(* when Outages holds also one a method is using (the server restarts).   *)
ServerClose ==
  /\ db = "ok"
  /\ dbLock = NoHolder \/ Outages
  /\ db' = "dead"
  /\ UNCHANGED <<pc, tries, left, dbLock, cbLock, pollEn, nCalls>>

Step(t) == AcquireDb(t) \/ ConnectTry(t) \/ Execute(t)

Next ==
  \/ \E t \in Apps : Call(t) \/ CallRegister(t) \/ Register(t)
  \/ \E t \in Threads : Step(t)
  \/ PollTop \/ PollAcquireCb \/ PollDispatch \/ PollDisable
  \/ ServerClose

(* Python threads are scheduled: a thread that can step does (weak        *)
(* fairness). A thread blocked on _dbLock or _cbLock gets it when it is   *)
(* free again and again (strong fairness): the poller sleeps _pollPer     *)
(* with both locks free on every pass of run(), and the calls hold a lock *)
(* only for one statement. The server, the application's calls and       *)
(* pollDisable() are not assumed to happen.                               *)
Fairness ==
  /\ \A t \in Threads : SF_vars(AcquireDb(t)) /\ WF_vars(ConnectTry(t) \/ Execute(t))
  /\ \A t \in Apps : SF_vars(Register(t))
  /\ WF_vars(PollTop \/ PollDispatch) /\ SF_vars(PollAcquireCb)

Spec == Init /\ [][Next]_vars /\ Fairness

-----------------------------------------------------------------------------
TypeOK ==
  /\ pc \in [Threads -> {"idle", "top", "cblock", "dblock", "connect", "execute",
                         "dispatch", "done", "dead"}]
  /\ tries \in [Threads -> 0..MaxTries]
  /\ left \in [Threads -> 0..3]
  /\ dbLock \in Threads \cup {NoHolder}
  /\ cbLock \in Threads \cup {NoHolder}
  /\ db \in {"none", "ok", "dead"}
  /\ pollEn \in BOOLEAN /\ nCalls \in 0..MaxCalls

(* _dbLock is held only by a thread inside a statement method: no method  *)
(* leaves with the lock held, through connect()'s retries on a connection *)
(* the server closed, or an error of a later statement.                   *)
DbLockHeldByCall ==
  dbLock # NoHolder => pc[dbLock] \in {"connect", "execute"}

(* Every call of a DaqMysql method by an application thread returns,      *)
(* whatever the polling thread and the other callers do with the locks.   *)
CallsReturn ==
  \A t \in Apps : pc[t] # "idle" ~> pc[t] = "idle"

(* pollDisable() returns: once _pollEn is False the polling thread leaves *)
(* run(), or has already left it.                                         *)
PollStops ==
  ~pollEn ~> pc[Poller] \in {"done", "dead"}

=============================================================================
