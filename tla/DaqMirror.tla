------------------------------ MODULE DaqMirror ------------------------------
(***************************************************************************)
(* The state mirror and callback dispatcher of DaqClient (daq_client.py):  *)
(* what rxMessage() does with a parsed message (findConfigStatus() leaf by *)
(* leaf, rxStructureVariable() placeholders), the per-category callback    *)
(* lists under _cbLock, and the on-demand status subscription              *)
(* daqReadStatusNode() with its cache __nodeValues under _nLock.           *)
(*                                                                         *)
(* A parsed message is abstracted to the sequence of its leaves in         *)
(* document order; how the markup is flattened into paths is the subject   *)
(* of PathCodec. _cbLock is held only inside one step of this model (one   *)
(* leaf and its callbacks, or one registration), so it needs no variable.  *)
(***************************************************************************)
EXTENDS Naturals, Sequences, FiniteSets, SequencesExt

CONSTANTS
  Readers,      \* application threads calling daqReadStatusNode()
  Waiters,      \* application threads calling waitStatus()/waitConfig()
  ReadNodes,    \* node names they ask for
  Paths,        \* status/config leaf paths the device reports
  Values,       \* leaf values
  MaxFrames,    \* messages the device sends in a behaviour
  MaxReads,     \* daqReadStatusNode() calls in a behaviour
  MaxWaits,     \* waitStatus()/waitConfig() calls in a behaviour
  UserCallback, \* model value: an application status callback that may raise
  Reentrant,    \* whether the application's callback may call addStatusCallback()
  NoHolder,     \* model value: _nLock is free
  None          \* model value: not in a dict / returned None

\* the keys of __cbStatusFunctions (__initcbStatusFunctions)
CbStatusNodes == {"RunState", "DataFileCount"}

\* the bound method __cbdaqGetRunState / __cbdaqGetDataFileCount
Setter(n) == [setter |-> n]

\* an application callback that calls daqReadStatusNode() or addStatusCallback()
AddsCallback == [setter |-> "addStatusCallback"]

Empty == ""   \* the placeholder rxStructureVariable() stores

Leaf == [kind : {"status", "config"}, path : Paths, value : Values]
        \cup [kind : {"svar"}, path : Paths, value : {Empty}]

\* messages the device may send: one or two leaves
Messages == {<<l>> : l \in Leaf} \cup {<<l1, l2>> : l1, l2 \in Leaf}

VARIABLES
  status,      \* self._status: path -> value, None when absent
  config,      \* self._config
  statusCnt,   \* self._statusCnt
  configCnt,   \* self._configCnt
  cbacks,      \* self._cbacks['status'], in registration order
  nodeValues,  \* self.__nodeValues: node -> value, None when absent
  pending,     \* leaves of the message rxMessage() is working through
  nFrames,     \* messages received so far (bound)
  nLock,       \* holder of self._nLock
  rpc,         \* program point of each reader
  rnode,       \* node each reader asked for
  nReads,      \* reads started so far (bound)
  cbHolder,    \* holder of self._cbLock between steps: NoHolder, or the polling thread stuck on it
  lastSeen,    \* history: last status value for n dispatched while n's setter was registered
  wpc,         \* program point of each waiter
  wcat,        \* the category a waiter waits on
  wcnt,        \* its local lCnt
  nWaits       \* waits started so far (bound)

waitVars == <<wpc, wcat, wcnt, nWaits>>

vars == <<status, config, statusCnt, configCnt, cbacks, nodeValues, pending,
          nFrames, nLock, cbHolder, rpc, rnode, nReads, lastSeen, wpc, wcat, wcnt, nWaits>>

\* self._statusCnt or self._configCnt
Counter(c) == IF c = "status" THEN statusCnt ELSE configCnt

-----------------------------------------------------------------------------
(* The callbacks of one status leaf, in registration order, each in its    *)
(* own try/except: a raising callback is caught and the loop goes on.      *)
(* Only the setters change state: __cbSetNodeValue stores the value when   *)
(* the path equals its node.                                               *)

ApplySetter(nv, cb, leaf) ==
  IF cb # UserCallback /\ leaf.path = cb.setter
    THEN [nv EXCEPT ![cb.setter] = leaf.value]
    ELSE nv

\* mutant: an exception in a callback ends the loop (try around the for)
DispatchStopsOnRaise(nv, cbs, leaf) ==
  LET stop == SelectInSeq(cbs, LAMBDA cb : cb = UserCallback)
      ran  == IF stop = 0 THEN cbs ELSE SubSeq(cbs, 1, stop - 1)
  IN FoldLeft(LAMBDA acc, cb : ApplySetter(acc, cb, leaf), nv, ran)

Dispatch(nv, cbs, leaf) ==
  FoldLeft(LAMBDA acc, cb : ApplySetter(acc, cb, leaf), nv, cbs)

Init ==
  /\ status = [p \in Paths |-> None]
  /\ config = [p \in Paths |-> None]
  /\ statusCnt = 0
  /\ configCnt = 0
  \* the application may have registered its own status callback first
  /\ cbacks \in {<<>>, <<UserCallback>>} \cup IF Reentrant THEN {<<AddsCallback>>} ELSE {}
  /\ nodeValues = [n \in ReadNodes |-> None]
  /\ pending = <<>>
  /\ nFrames = 0
  /\ nLock = NoHolder
  /\ cbHolder = NoHolder
  /\ rpc = [r \in Readers |-> "idle"]
  /\ rnode = [r \in Readers |-> None]
  /\ nReads = 0
  /\ lastSeen = [n \in ReadNodes |-> None]
  /\ wpc = [w \in Waiters |-> "idle"]
  /\ wcat = [w \in Waiters |-> "status"]
  /\ wcnt = [w \in Waiters |-> 0]
  /\ nWaits = 0

-----------------------------------------------------------------------------
(* The polling thread.                                                     *)

\* rxMessage(): a message has been parsed; its leaves are applied in order
RxMessage ==
  /\ pending = <<>>
  /\ nFrames < MaxFrames
  /\ \E m \in Messages : pending' = m
  /\ nFrames' = nFrames + 1
  /\ UNCHANGED <<status, config, statusCnt, configCnt, cbacks, nodeValues,
                 nLock, cbHolder, rpc, rnode, nReads, lastSeen, waitVars>>

(* One leaf of findConfigStatus(): store the value, bump the category     *)
(* counter, then run the category's callbacks under _cbLock. A variable   *)
(* of the structure (rxStructureVariable) stores the empty placeholder    *)
(* and runs only the structure callbacks, which hold no state here. A     *)
(* callback that calls addStatusCallback() acquires the non-reentrant      *)
(* _cbLock its own thread holds: the polling thread stops in that leaf.    *)
ApplyLeaf ==
  /\ pending # <<>>
  /\ cbHolder = NoHolder
  /\ LET leaf == Head(pending)
         stuck == SelectInSeq(cbacks, LAMBDA cb : cb = AddsCallback)
         ran == IF stuck = 0 THEN cbacks ELSE SubSeq(cbacks, 1, stuck - 1)
     IN
     /\ CASE leaf.kind = "status" ->
               /\ status' = [status EXCEPT ![leaf.path] = leaf.value]
               /\ statusCnt' = statusCnt + 1
               /\ nodeValues' = Dispatch(nodeValues, ran, leaf)
               /\ lastSeen' = [n \in ReadNodes |->
                                 IF leaf.path = n /\ Setter(n) \in ToSet(ran)
                                   THEN leaf.value ELSE lastSeen[n]]
               /\ pending' = IF stuck = 0 THEN Tail(pending) ELSE pending
               /\ cbHolder' = IF stuck = 0 THEN NoHolder ELSE "poller"
               /\ UNCHANGED <<config, configCnt>>
          [] leaf.kind = "config" ->
               /\ config' = [config EXCEPT ![leaf.path] = leaf.value]
               /\ configCnt' = configCnt + 1
               /\ pending' = Tail(pending)
               /\ UNCHANGED <<status, statusCnt, nodeValues, lastSeen, cbHolder>>
          [] leaf.kind = "svar" ->
               /\ status' = [status EXCEPT ![leaf.path] = Empty]
               /\ pending' = Tail(pending)
               /\ UNCHANGED <<config, statusCnt, configCnt, nodeValues, lastSeen, cbHolder>>
  /\ UNCHANGED <<cbacks, nFrames, nLock, rpc, rnode, nReads, waitVars>>

-----------------------------------------------------------------------------
(* daqReadStatusNode(node): _nLock.acquire(); return the cached value, or *)
(* register __cbStatusFunctions[node] with addStatusCallback() and return  *)
(* None; _nLock.release(). The lookup raises KeyError for any node but    *)
(* RunState and DataFileCount, and the exception leaves with _nLock held. *)

\* the application calls daqReadStatusNode(node)
ReadCall(r) ==
  /\ rpc[r] = "idle"
  /\ nReads < MaxReads
  /\ \E n \in ReadNodes : rnode' = [rnode EXCEPT ![r] = n]
  /\ rpc' = [rpc EXCEPT ![r] = "acquire"]
  /\ nReads' = nReads + 1
  /\ UNCHANGED <<status, config, statusCnt, configCnt, cbacks, nodeValues,
                 pending, nFrames, cbHolder, nLock, lastSeen, waitVars>>

ReadAcquire(r) ==
  /\ rpc[r] = "acquire"
  /\ nLock = NoHolder
  /\ nLock' = r
  /\ rpc' = [rpc EXCEPT ![r] = "check"]
  /\ UNCHANGED <<status, config, statusCnt, configCnt, cbacks, nodeValues,
                 pending, nFrames, cbHolder, rnode, nReads, lastSeen, waitVars>>

\* mutant: the early return of the cached value skips the release
ReadCachedKeepsLock(r) ==
  /\ rpc[r] = "check"
  /\ nodeValues[rnode[r]] # None
  /\ rpc' = [rpc EXCEPT ![r] = "idle"]
  /\ UNCHANGED <<status, config, statusCnt, configCnt, cbacks, nodeValues,
                 pending, nFrames, cbHolder, nLock, rnode, nReads, lastSeen, waitVars>>

\* the node has a value: return it
ReadCached(r) ==
  /\ rpc[r] = "check"
  /\ nodeValues[rnode[r]] # None
  /\ nLock' = NoHolder
  /\ rpc' = [rpc EXCEPT ![r] = "idle"]
  /\ UNCHANGED <<status, config, statusCnt, configCnt, cbacks, nodeValues,
                 pending, nFrames, cbHolder, rnode, nReads, lastSeen, waitVars>>

\* mutant: a node without an entry still gets a callback registered
ReadSubscribeAnyNode(r) ==
  /\ rpc[r] = "check"
  /\ nodeValues[rnode[r]] = None
  /\ cbHolder = NoHolder
  /\ cbacks' = Append(cbacks, Setter(rnode[r]))
  /\ nLock' = NoHolder
  /\ rpc' = [rpc EXCEPT ![r] = "idle"]
  /\ UNCHANGED <<status, config, statusCnt, configCnt, nodeValues, pending,
                 nFrames, cbHolder, rnode, nReads, lastSeen, waitVars>>

\* no value yet: addStatusCallback() under _cbLock, release, return None
ReadSubscribe(r) ==
  /\ rpc[r] = "check"
  /\ nodeValues[rnode[r]] = None
  /\ rnode[r] \in CbStatusNodes
  /\ cbHolder = NoHolder
  /\ cbacks' = Append(cbacks, Setter(rnode[r]))
  /\ nLock' = NoHolder
  /\ rpc' = [rpc EXCEPT ![r] = "idle"]
  /\ UNCHANGED <<status, config, statusCnt, configCnt, nodeValues, pending,
                 nFrames, cbHolder, rnode, nReads, lastSeen, waitVars>>

\* __cbStatusFunctions[node] raises KeyError; _nLock stays held
ReadKeyError(r) ==
  /\ rpc[r] = "check"
  /\ nodeValues[rnode[r]] = None
  /\ rnode[r] \notin CbStatusNodes
  /\ rpc' = [rpc EXCEPT ![r] = "idle"]
  /\ UNCHANGED <<status, config, statusCnt, configCnt, cbacks, nodeValues,
                 pending, nFrames, cbHolder, nLock, rnode, nReads, lastSeen, waitVars>>

-----------------------------------------------------------------------------
(* waitStatus(path) / waitConfig(path): lCnt = the category's counter;    *)
(* while lCnt == counter: sleep(.1); return the map's value at path. The  *)
(* counter and the map are read without a lock. The value returned, or   *)
(* the KeyError of a path not in the map, only reaches the caller.        *)

WaitCall(w) ==
  /\ wpc[w] = "idle"
  /\ nWaits < MaxWaits
  /\ \E c \in {"status", "config"} :
       /\ wcat' = [wcat EXCEPT ![w] = c]
       /\ wcnt' = [wcnt EXCEPT ![w] = Counter(c)]
  /\ wpc' = [wpc EXCEPT ![w] = "wait"]
  /\ nWaits' = nWaits + 1
  /\ UNCHANGED <<status, config, statusCnt, configCnt, cbacks, nodeValues,
                 pending, nFrames, cbHolder, nLock, rpc, rnode, nReads, lastSeen>>

\* the counter differs from lCnt: the loop ends and the call returns
WaitReturn(w) ==
  /\ wpc[w] = "wait"
  /\ Counter(wcat[w]) # wcnt[w]
  /\ wpc' = [wpc EXCEPT ![w] = "idle"]
  /\ UNCHANGED <<status, config, statusCnt, configCnt, cbacks, nodeValues,
                 pending, nFrames, cbHolder, nLock, rpc, rnode, nReads, lastSeen, wcat, wcnt, nWaits>>

Worker == RxMessage \/ ApplyLeaf

ReaderStep(r) == ReadCached(r) \/ ReadSubscribe(r) \/ ReadKeyError(r)

Next ==
  \/ Worker
  \/ \E r \in Readers : ReadCall(r) \/ ReadAcquire(r) \/ ReaderStep(r)
  \/ \E w \in Waiters : WaitCall(w) \/ WaitReturn(w)

(* The polling thread finishes the message it has parsed; a reader that    *)
(* holds _nLock finishes its call; a reader blocked on _nLock gets it if   *)
(* it is free again and again (strong fairness). Nothing forces the device *)
(* to send or the application to read.                                     *)
Fairness ==
  /\ WF_vars(ApplyLeaf)
  /\ \A r \in Readers : SF_vars(ReadAcquire(r)) /\ WF_vars(ReaderStep(r))
  /\ \A w \in Waiters : WF_vars(WaitReturn(w))

Spec == Init /\ [][Next]_vars /\ Fairness

-----------------------------------------------------------------------------
TypeOK ==
  /\ status \in [Paths -> Values \cup {Empty, None}]
  /\ config \in [Paths -> Values \cup {None}]
  /\ statusCnt \in Nat /\ configCnt \in Nat
  /\ cbHolder \in {NoHolder, "poller"}
  /\ cbacks \in Seq({UserCallback, AddsCallback} \cup {Setter(n) : n \in CbStatusNodes})
  /\ nodeValues \in [ReadNodes -> Values \cup {None}]
  /\ pending \in Seq(Leaf)
  /\ nLock \in Readers \cup {NoHolder}
  /\ rpc \in [Readers -> {"idle", "acquire", "check"}]
  /\ rnode \in [Readers -> ReadNodes \cup {None}]
  /\ lastSeen \in [ReadNodes -> Values \cup {None}]
  /\ wpc \in [Waiters -> {"idle", "wait"}]
  /\ wcat \in [Waiters -> {"status", "config"}]
  /\ wcnt \in [Waiters -> Nat] /\ nWaits \in 0..MaxWaits

(* Once daqReadStatusNode(n) has subscribed, the cached value of n is the *)
(* last status value of n that arrived since: the subscription and the    *)
(* leaves interleave only between leaves, and a raising application       *)
(* callback before the setter does not keep the setter from running.      *)
SubscribedValueCurrent ==
  \A n \in ReadNodes : lastSeen[n] # None => nodeValues[n] = lastSeen[n]

(* Every call of daqReadStatusNode() returns, and none waits forever for  *)
(* _nLock, whatever the other readers and the polling thread do.          *)
ReadCompletes ==
  \A r \in Readers : rpc[r] # "idle" ~> rpc[r] = "idle"

(* The spec (4.4): read() registers its subscription the first time a     *)
(* path is read; at most one status callback per node.                    *)
AtMostOneSubscription ==
  \A n \in CbStatusNodes :
    Cardinality({i \in DOMAIN cbacks : cbacks[i] = Setter(n)}) <= 1

=============================================================================
