------------------------------ MODULE StoreSync ------------------------------
(***************************************************************************)
(* The store transport, DaqMysql (daq_mysql.py): rows of one table shared  *)
(* by a client and a server process, the writers of each role (update*,   *)
(* add*Entry, clearEntries, delOldEntries) and the polling thread run()    *)
(* of each role with its last-seen time _ctime and serial cache _cser.     *)
(*                                                                         *)
(* A role writes its own timestamp and serial column (_tsset, _serset) and *)
(* polls the other role's (_tspoll, _serpoll); the value column is shared. *)
(* The table stands for configuration (both roles write it) or, with one  *)
(* writer, for status (server) and command (client). Each SQL statement is *)
(* one atomic step; time is in whole seconds of the server's now().        *)
(***************************************************************************)
EXTENDS Naturals, Sequences, SequencesExt

CONSTANTS
  Ids,         \* row ids (variable / command names)
  Values,      \* values written
  Writers,     \* roles whose application calls update*()
  Pollers,     \* roles whose polling thread has a callback on the table
  Resets,      \* which of add*Entry, clearEntries, delOldEntries are called
  MaxRestarts, \* restarts of the pollers' processes, over a behaviour
  Retention,   \* delOldEntries: rows created this many seconds ago are old
  MaxWrites,   \* statements that write a value, over a behaviour
  MaxTime,     \* last second of the model
  None         \* model value: no row / no value / _ctime[table] is None

Roles == {"client", "server"}
Other(r) == IF r = "client" THEN "server" ELSE "client"
Empty == ""

\* the columns a DaqMysql(client=...) instance writes and polls
SetCol(r) == r
PollCol(r) == Other(r)

Row == [value : Values \cup {Empty}, ser : [Roles -> 0..MaxWrites],
        ts : [Roles -> 0..MaxTime], create : 0..MaxTime, wno : 0..MaxWrites]

VARIABLES
  now,      \* the server clock
  rows,     \* the table: id -> Row, or None once deleted
  ctime,    \* _ctime[table] of each poller
  cser,     \* _cser[table] of each poller: id -> last serial seen
  nWrites,  \* statements that wrote a value so far; numbers the writes
  log,      \* history: <<id, write number>> of each callback dispatch
  owed,     \* history: latest write of the other role not yet dispatched
  nRestarts \* restarts so far (bound)

vars == <<now, rows, ctime, cser, nWrites, log, owed, nRestarts>>

Init ==
  /\ now = 0
  \* the entries exist: add*Entry() ran when the structure was loaded
  /\ rows = [i \in Ids |-> [value |-> Empty, ser |-> [r \in Roles |-> 0],
                            ts |-> [r \in Roles |-> 0], create |-> 0, wno |-> 0]]
  /\ ctime = [p \in Pollers |-> None]
  /\ cser = [p \in Pollers |-> [i \in Ids |-> 0]]
  /\ nWrites = 0
  /\ log = [p \in Pollers |-> <<>>]
  /\ owed = [p \in Pollers |-> [i \in Ids |-> None]]
  /\ nRestarts = 0

Tick ==
  /\ now < MaxTime
  /\ now' = now + 1
  /\ UNCHANGED <<rows, ctime, cser, nWrites, log, owed, nRestarts>>

-----------------------------------------------------------------------------
(* Writers.                                                                *)

(* updateConfiguration / updateStatus / updateCommand: set value, the      *)
(* role's timestamp to now() and its serial + 1 where id matches; no row,  *)
(* no change.                                                              *)
Update(r, i, v) ==
  /\ nWrites < MaxWrites
  /\ rows[i] # None
  /\ nWrites' = nWrites + 1
  /\ rows' = [rows EXCEPT ![i].value = v, ![i].ts[SetCol(r)] = now,
                          ![i].ser[SetCol(r)] = @ + 1, ![i].wno = nWrites + 1]
  /\ owed' = [p \in Pollers |-> IF PollCol(p) = SetCol(r)
                                  THEN [owed[p] EXCEPT ![i] = nWrites + 1]
                                  ELSE owed[p]]
  /\ UNCHANGED <<now, ctime, cser, log, nRestarts>>

(* add*Entry: "replace into" a fresh row: empty value, both serials 0,     *)
(* create_ts and the timestamps now(). A write the row held is gone and no *)
(* longer owed to anyone.                                                  *)
AddEntry(i) ==
  /\ "addEntry" \in Resets
  /\ rows' = [rows EXCEPT ![i] = [value |-> Empty, ser |-> [r \in Roles |-> 0],
                                  ts |-> [r \in Roles |-> now], create |-> now,
                                  wno |-> 0]]
  /\ owed' = [p \in Pollers |-> [owed[p] EXCEPT ![i] = None]]
  /\ UNCHANGED <<now, ctime, cser, nWrites, log, nRestarts>>

\* clearEntries: every serial of every row back to 0
ClearEntries ==
  /\ "clearEntries" \in Resets
  /\ rows' = [i \in Ids |-> IF rows[i] = None THEN None
                            ELSE [rows[i] EXCEPT !.ser = [r \in Roles |-> 0]]]
  /\ UNCHANGED <<now, ctime, cser, nWrites, log, owed, nRestarts>>

\* delOldEntries: delete the rows whose create_ts is older than the window
DelOldEntries ==
  /\ "delOldEntries" \in Resets
  /\ LET old == {i \in Ids : rows[i] # None /\ rows[i].create + Retention < now} IN
     /\ rows' = [i \in Ids |-> IF i \in old THEN None ELSE rows[i]]
     /\ owed' = [p \in Pollers |-> [i \in Ids |-> IF i \in old THEN None ELSE owed[p][i]]]
  /\ UNCHANGED <<now, ctime, cser, nWrites, log, nRestarts>>

-----------------------------------------------------------------------------
(* The polling thread of role p: one pass of the run() loop for the table. *)
(* pollTable() selects the rows whose poll timestamp is later than         *)
(* _ctime - 1 s (all rows the first time); for each row a serial above the *)
(* cached one (0 if none) runs the callbacks with the row; then _ctime     *)
(* becomes the query's now() and the cached serial the row's.              *)

\* mutant: the query drops the one-second overlap (poll_ts > _ctime)
SelectedNoSlack(p) ==
  {i \in Ids : rows[i] # None /\
               (ctime[p] = None \/ rows[i].ts[PollCol(p)] > ctime[p])}

\* mutant: the window is taken on the role's own timestamp column (_tsset)
SelectedOwnColumn(p) ==
  {i \in Ids : rows[i] # None /\
               (ctime[p] = None \/ rows[i].ts[SetCol(p)] + 1 > ctime[p])}

Selected(p) ==
  {i \in Ids : rows[i] # None /\
               (ctime[p] = None \/ rows[i].ts[PollCol(p)] + 1 > ctime[p])}

\* the callbacks ran for row i in this pass
Fires(p, i) == rows[i].ser[PollCol(p)] > cser[p][i]

(* One pass over the selected rows; cache is the new _cser[table].       *)
PollPass(p, sel, cache) ==
  LET fired == SetToSeq({i \in sel : Fires(p, i)}) IN
  /\ sel # {}
  /\ log' = [log EXCEPT ![p] = @ \o [k \in DOMAIN fired |-> <<fired[k], rows[fired[k]].wno>>]]
  /\ owed' = [owed EXCEPT ![p] = [i \in Ids |->
                IF i \in ToSet(fired) /\ rows[i].wno = owed[p][i] THEN None ELSE owed[p][i]]]
  /\ ctime' = [ctime EXCEPT ![p] = now]
  /\ cser' = [cser EXCEPT ![p] = cache]
  /\ UNCHANGED <<now, rows, nWrites, nRestarts>>

\* mutant: the cached serial is not written back
PollNoCache(p) == PollPass(p, Selected(p), cser[p])

\* mutant: the cache records one past the row's serial
PollCachesNext(p) ==
  PollPass(p, Selected(p), [i \in Ids |->
    IF i \in Selected(p) THEN rows[i].ser[PollCol(p)] + 1 ELSE cser[p][i]])

Poll(p) ==
  PollPass(p, Selected(p), [i \in Ids |->
    IF i \in Selected(p) THEN rows[i].ser[PollCol(p)] ELSE cser[p][i]])

(* The process of poller p restarts (or crashes part way through a pass  *)
(* and restarts): a new DaqMysql has _ctime[table] = None and an empty    *)
(* _cser[table] (addPollCallback), so the first pass selects every row    *)
(* and runs the callbacks for every serial above 0.                       *)
Restart(p) ==
  /\ nRestarts < MaxRestarts
  /\ nRestarts' = nRestarts + 1
  /\ ctime' = [ctime EXCEPT ![p] = None]
  /\ cser' = [cser EXCEPT ![p] = [i \in Ids |-> 0]]
  /\ UNCHANGED <<now, rows, nWrites, log, owed>>

Next ==
  \/ Tick
  \/ \E r \in Writers, i \in Ids, v \in Values : Update(r, i, v)
  \/ \E i \in Ids : AddEntry(i)
  \/ ClearEntries
  \/ DelOldEntries
  \/ \E p \in Pollers : Poll(p) \/ Restart(p)

(* run() loops while _pollEn, sleeping _pollPer between passes: a poller *)
(* with selected rows polls. Writers, resets and the clock are not        *)
(* assumed to move.                                                       *)
Spec == Init /\ [][Next]_vars /\ \A p \in Pollers : WF_vars(Poll(p))

-----------------------------------------------------------------------------
TypeOK ==
  /\ now \in 0..MaxTime
  /\ rows \in [Ids -> Row \cup {None}]
  /\ ctime \in [Pollers -> 0..MaxTime \cup {None}]
  /\ cser \in [Pollers -> [Ids -> 0..MaxWrites]]
  /\ nWrites \in 0..MaxWrites
  /\ nRestarts \in 0..MaxRestarts
  /\ log \in [Pollers -> Seq(Ids \X (1..MaxWrites))]
  /\ owed \in [Pollers -> [Ids -> (1..MaxWrites) \cup {None}]]

(* The spec (4.8): a role's write is seen by the counterpart's next poll.  *)
(* A pass of the polling thread leaves no earlier write of the other role  *)
(* undelivered: every such write reached the callbacks in this pass or an  *)
(* earlier one, across the 1 s overlap, polls in the same second, and     *)
(* restarts of the poller.                                                 *)
PollDeliversAll ==
  [][\A p \in Pollers :
       Poll(p) => \A i \in Ids : owed'[p][i] = None]_vars

(* Spec 4.8: every write of the other role reaches the poller's         *)
(* callbacks, also when no later write makes a pass select anything: the *)
(* row the write touched stays in the query's window (poll_ts > _ctime -  *)
(* 1 s) until a pass has run the callbacks with it.                       *)
WriteReachesPoller ==
  \A p \in Pollers, i \in Ids : owed[p][i] # None ~> owed[p][i] = None

(* No write reaches a poller's callbacks twice: the serial cache filters   *)
(* the rows the overlap window selects again.                              *)
NoDuplicateDispatch ==
  \A p \in Pollers : \A a, b \in DOMAIN log[p] : a < b => log[p][a] # log[p][b]

=============================================================================
