# TLA+ models of the protoDUNE DAQ client and store synchroniser

This directory models the two Python transports of
`src/software/protoDUNE/python/pylib/`:

- `daq_client.py`, class `DaqClient`. A thread that keeps a TCP stream to an
  RCE device. It splits the stream into `"\f"`-terminated XML messages, mirrors
  the leaves into `_status`/`_config`, runs the registered callbacks, and sends
  configuration and commands on the same socket.
- `daq_mysql.py`, class `DaqMysql`. A thread that polls MySQL tables shared by a
  *client* role and a *server* role. Each role writes its own timestamp and
  serial columns and polls the other role's.

It also models the two RCE status scripts of
`src/software/protoDUNE/rceScripts/`, `find_variable.py` and
`get_rce_status.py`. Each connects to every host in turn, reads one frame,
and prints the leaves below the elements it searches for.

The modules check the concurrent and protocol behaviour of these classes:

- interleavings of the polling thread with application threads;
- stalls and reconnects;
- recv() boundaries;
- the locks;
- the serial cache of the store poller.

## 1. Inventory

### Components

| Component (spec section) | Code | State | Operations |
|---|---|---|---|
| Frame Splitter (4.1) | `DaqClient.run` 486-525 | `data` | `data.find("\f")`, split, `rxMessage` |
| Connection Manager (4.7) | `connect` 450-478, `run`, `sendXml` 116-119, `enable`/`disable` 61-68 | `_sock`, `_sready`, `_tEn`, `_sLock` | port scan, stall timeout, send |
| Markup Parser / Path Flattener (4.2, 4.3) | `rxMessage` 429-447, `findConfigStatus` 209-253 | none (pure) | parse; recursive path building |
| State Mirror (4.4) | `findConfigStatus`, `getStatus`/`waitStatus` 406-426, `daqReadStatusNode` 95-114 | `_status`, `_config`, `_statusCnt`, `_configCnt`, `__nodeValues`, `_nLock` | apply leaf, read, wait, on-demand subscribe |
| Callback Dispatcher (4.5) | `add*Callback` 71-92, loops in `findConfigStatus`, `rxStructure*`, `rxError` | `_cbacks`, `_cbLock` | register, dispatch with per-callback try |
| Structure parser (4.3) | `rxStructure*` 254-389 | placeholders in `_status`/`_config` | build records, dispatch |
| Command Encoder (4.6) | `sendConfig` … `softReset` 122-207 | none | build markup, `sendXml` |
| Store Synchronizer (4.8) | `DaqMysql` 25-321 | table rows, `_ctime`, `_cser`, `_dbLock`, `_cbLock` | `update*`, `add*Entry`, `clearEntries`, `delOldEntries`, `pollTable`/`run` |
| RCE scripts | `find_variable.py`, `get_rce_status.py` | `data`, `varData`/`varValue` | port scan, recv loop, parse, `findLeaf`/`getPath`, print |
| pyrogue/rogue scripts, setup, cern_cfg, TcpClient, DummyDataGenerator | | | GUI, register maps and glue |

### How the parts interact

- The polling thread of `DaqClient` is the only writer of the mirror. It holds
  `_cbLock` while it runs the callbacks of one leaf.
- Application threads call `sendXml` under `_sLock`. The polling thread takes
  the same lock for each `recv()` and in `connect()`.
- `daqReadStatusNode` takes `_nLock` and registers a setter callback. The
  polling thread later runs that setter to store the node's value.
- `DaqMysql` has one polling thread per role. It calls the table callbacks
  under `_cbLock`, and every statement runs under `_dbLock`.

### What is hard here

- **Frames split across recv() calls.**
- **Stalls.** The timeout drops `_sready` but keeps `data`.
- **Locks held across an exception.** `sendXml`, `daqReadStatusNode`,
  `DaqMysql.connect` and `DaqMysql.run` do not use try/finally.
- **Cooperative shutdown.** `_tEn` is read only once per loop.
- **Lazy subscription.**
- **A callback that raises.**
- **Store polling.** The one-second overlap window, the serial cache, resets of
  the serials, and two roles sharing the `value` column.

### Properties each component needs

| Component | Properties |
|---|---|
| Frame Splitter | in-order, whole frames; a buffered frame is eventually delivered |
| Connection Manager | shutdown completes; the scan stays in range |
| State Mirror | a subscribed node holds the latest dispatched value; reads return; one subscription per node |
| Dispatcher | isolation of a raising callback |
| Store Synchronizer | every counterpart write is dispatched by the next pass that returns rows; no write is dispatched twice |

## 2. Modules

Each model except the libraries and FrameChannel has an `MC_` module with the model values and small definitions
for TLC, and one `.cfg` file per run.

### DaqStream: Frame Splitter and Connection Manager

Bytes are abstracted to symbols: frame `f` is `Body(f,1), Body(f,2), Delim`.
This lets a recv() end inside a frame or right after a delimiter.

| Code | Model |
|---|---|
| `self._tEn` | `tEn` |
| `self._sready` | `sready` |
| `self._sock` | `conn` (sockets opened) and `port` |
| `self._sLock` | `sLock` (holder) |
| local `data` of `run()` | `data` |
| bytes in flight on the socket | `wire` |

Actions:

| Action | What it models |
|---|---|
| `Top` | the `while self._tEn` test |
| `Connect` | `connect()`, including the `_sready` early return, the port scan and the failure branch |
| `Recv` | one `recv()` that appends a prefix of `wire` |
| `Stall` | the 5 s timeout branch |
| `Process` | the split and the `rxMessage` call |
| `SendAcquire`, `SendOk`, `SendRaise` | `sendXml`; a raise leaves `_sLock` held |
| `Disable` | `disable()` |
| `DeviceSend` | the device side: the environment |

`Parse` abstracts `parseString`: the text must be exactly one frame body.

### DaqMirror: State Mirror, Dispatcher, and daqReadStatusNode

A parsed message is a sequence of one or two leaves. Each leaf is a status or
config leaf, or a structure variable (`svar`), which stores the `""`
placeholder.

| Action | What it models |
|---|---|
| `ApplyLeaf` | one leaf of `findConfigStatus`: store, count, and run the callbacks in registration order. `Dispatch` is a `FoldLeft` over the list; the setters are the `__cbSetNodeValue` closures; `UserCallback` is an application callback that may raise. |
| `ReadCall`, `ReadAcquire`, `ReadCached`, `ReadSubscribe`, `ReadKeyError` | `daqReadStatusNode`, step by step around `_nLock` |
| (in `ApplyLeaf`) | a callback `AddsCallback` that calls `addStatusCallback()`: the polling thread stops on `_cbLock` (`cbHolder`), and `ReadSubscribe` waits for it |
| `WaitCall`, `WaitReturn` | `waitStatus`/`waitConfig`: `lCnt` is read from `Counter(c)` at the call; the sleep loop returns once the counter differs |

### StoreSync: DaqMysql on one table

The table has two roles:

| Column | Model |
|---|---|
| timestamps (`client_ts`/`server_ts`) | `ts[role]` |
| serials (`client_ser`/`server_ser`) | `ser[role]` |
| `value` | shared by both roles |
| `create_ts` | `create` |

- `SetCol`/`PollCol` are the role swap of `__init__` (`_tsset`, `_tspoll`, …).
- `Update` models `updateConfiguration`/`updateStatus`/`updateCommand`.
- `AddEntry` models the `replace into` of `add*Entry`.
- `ClearEntries` and `DelOldEntries` are the maintenance calls.
- The constant `Resets` is the set of these three calls that a run lets happen, so each can be checked alone.
- `Poll` is one pass of `run()` for the table:
  - `Selected` is the `pollTable` filter `ts > _ctime - 1 s`.
  - `Fires` is the serial comparison.
  - `_ctime` and `_cser` are updated for each returned row.
- A pass that returns no rows changes nothing, so it is a stuttering step.
- The specification is weakly fair on each poller's `Poll` (see section 5).
- `Restart` is a new process for a poller: `_ctime` and `_cser` start empty, as in `__init__`. A crash part way through a pass is a pass followed by a restart.
- Time is whole seconds of the server's `now()` (`Tick`).

Two history variables record what was delivered:

- `log` records each dispatch as an `<<id, write number>>` pair.
- `owed` records the latest write of the other role that is not yet dispatched.

### FrameChannel and the refinement of DaqStream

`FrameChannel` is the abstract promise of the stream transport (spec 4.1 and 4.7).
It is a channel of numbered frames that delivers frames in the order they were
sent, never twice, and may lose some of them.

| Variable | Meaning |
|---|---|
| `sent` | frames the device has written so far |
| `pending` | frames on their way, oldest first |
| `delivered` | frames handed to the reader |

The actions are `Send` (possibly to a dead connection), `Deliver` and `Lose`.
`DaqStream` instantiates it as `Channel` with this refinement mapping:

- `sent` is `srvNext - 1`;
- `pending` is the frames whose first symbol is still in `data` or on the `wire`, sorted;
- `delivered` is the non-zero messages passed to `rxMessage`.

`ImplementsFrameChannel == Channel!Spec` is checked as a temporal property.

### PathCodec and StructureParser: the section handlers

These two modules are libraries of pure operators. `ClientRx` instantiates them.

PathCodec covers the status/config side:

- `FindConfigStatus` and `WalkKids` translate the recursion of `findConfigStatus` as `RECURSIVE` operators.
  - `NodePath` is the path step. A category name resets the path, and the index attaches to the last segment.
  - A node is a leaf only if it has no element children and exactly one child node.
- `ApplyUpdates` stores the leaves in order.
- `EncodeConfig`, `EncodeCommand` and `Nest` are `sendConfig`/`sendCommand`. A path string is its sequence of segments.
- `SpecLeaves`/`SpecSection` are the spec's 4.3 reference flattening, which is not mapped.

StructureParser covers the structure walker:

- `DeviceChild` is one iteration of `rxStructureDevice`'s loop. It carries the locals `index` and `path` (and whether `path` is bound), the records, and whether an exception escaped. `StructureDevice` is the recursion.
- `VarField`/`StructureVariable` are `rxStructureVariable`. The record is keyed like `varData`, including the stray `perInst` key.
- `StructureCommand` is `rxStructureCommand`, and `RxStructureWalk` is `rxStructure`.
- `SpecDevice`/`SpecVariable`/`SpecRecords` are the spec's reference.

### ClientRx: rxMessage() on the mirror

`ClientRx` is the composition of the handlers in `rxMessage()`.

- `RxSection` handles one section:
  - `<status>`/`<config>` through `FindConfigStatus` with the counters;
  - `<structure>` through `RxStructureWalk`, followed by the `""` placeholders (`Placeholders`) and the dispatched records;
  - `<error>` through `rxError`, where an empty `<error/>` raises IndexError.
- `RxMirror` is the section loop. It skips non-element children, and after an exception it applies nothing more: this is the bare `except`.
- The state is the mirror (`status`, `config`, `statusCnt`, `configCnt`) and two histories: `dispatched` (structure records) and `errors` (error callback values). `Init` chooses one of two starting points:
  - the mirror left by an `earlier` message, with any message `msg` to come;
  - an empty mirror, with the markup of a `sendConfig`/`sendCommand` call (`written`) to come.
- `RxMessage` receives `msg`.
- `SpecRxSection`/`SpecRxMirror` are the spec's handling of a whole message. Each section is applied in order, and none is lost.

### DbSession: DaqMysql's connection and locks

DbSession models the control of every statement method, and of `pollTable()`:
`_dbLock.acquire()`, `connect()`, the method's statements, `_dbLock.release()`.
None of them uses try/finally. The server that closes connections is the environment.

| Code | Model |
|---|---|
| `self._dbLock`, `self._cbLock` | `dbLock`, `cbLock` (holder) |
| `self._db` | `db`: `none`, `ok`, or `dead` (closed by the server) |
| local `tries` of `connect()` | `tries` |
| statements still to run | `left` (3 for `clearEntries`/`delOldEntries`, else 1) |
| `self._pollEn` | `pollEn` |

| Action | What it models |
|---|---|
| `Call`, `AcquireDb`, `Execute` | a statement method; `Execute` on a dead connection raises with `_dbLock` held |
| `ConnectTry` | one pass of `connect()`'s `while tries < 5`. The except branch sets `_db = None`, and after the last try it raises. |
| `CallRegister`, `Register` | `addPollCallback()` |
| `PollTop`, `PollAcquireCb`, `PollDispatch` | `run()`: the loop test, `_cbLock` over a pass, and `pollTable()` through the shared statement steps |
| `PollDisable` | `pollDisable()` |
| `ServerClose` | the server closes an idle connection (wait_timeout), or, when `Outages` holds, one in use |

With `Outages` a `connect()` attempt may also fail (`Reachable`). What the
statements do to the rows is StoreSync's part.

### RceScan: the RCE status scripts

One module models both scripts. `Init` chooses `script` and `args` (`sys.argv[2:]`), and sets `targets` to `<<argv[1]>>` or `varList`. The per-host loop is a program counter `pc`.

The host list is `HostList`:
- `find_variable.py` uses `FindHosts`: the arguments as given, or its default list `Hosts`.
- `get_rce_status.py` uses `SelectHosts`: for each argument in order, `MatchIPs` gives every RCE of `RceList` (what `rce_talk` prints) whose name contains the argument.
- A name is a sequence of tokens, so Python's substring test `a in name` is `a \in SubSeqs(name)`.

| Action | What it models |
|---|---|
| `StartHost`, `Finish` | the `for host in hosts` loop: a fresh socket and empty `data`; the printout when the list is done |
| `ConnectTry` | one `s.connect((host, port))` of the scan over `sport..sport+9`. A device that accepts writes `Stream`, which may be cut short when `PeerFaults` holds. |
| `ConnectFail` | `ready == 0`: `sys.exit()` in `find_variable.py`, `continue` in `get_rce_status.py` |
| `Recv`, `RecvTimeout` | `data += s.recv(1024)` while `"\f"` is not in `data`; an uncaught `socket.timeout` on a stalled device |
| `Parse` | `parseString(data[0:-2])`, which raises unless what is left is the document and white space; then the searches, appending `Found(doc, targets)` to the report |

The tree walks are RECURSIVE operators over the chain of ancestors of a node:
- `GetPath` climbs as `getPath()` does;
- `FindLeaf` recurses as `findLeaf()` does;
- `Chains` lists the elements in document order for `getElementsByTagName()`.

`SpecFound` is the reference. It walks top-down from `<system>` and keeps each leaf whose way down passes an element of the target's name.

### Planned modules, most important first

1. **Waiter values.** The value a waiter returns (the structure placeholder or a mid-message value).
2. **Encoder edge cases.** An index value or name containing `(`, `)` or `:`, and the argument-less `sendCommand('', arg)` form.
3. **ClientSystem.** DaqStream composed with ClientRx, so that a parsed frame feeds the section loop.

## 3. Runs

| Run | cfg | Expect | What it shows |
|---|---|---|---|
| stream_safety | `DaqStream_safety.cfg` | pass | `ImplementsFrameChannel`: the transport implements FrameChannel. Frames reach `rxMessage` whole, in order and never twice, through any recv() split, stall and reconnect, with a caller sending and failing. |
| stream_liveness | `DaqStream_liveness.cfg` | pass | `BufferedFrameDelivered`: a frame complete at a buffer boundary is delivered unless the thread is disabled. `ShutdownCompletes`: after `disable()` the thread ends. |
| stream_fragment | `DaqStream_fragment.cfg` | violation | `NoCorruptFrame` fails: after a stall, the old half frame is glued to the new connection's first frame. |
| mirror_safety | `DaqMirror_safety.cfg` | pass | `SubscribedValueCurrent`: once a node's setter is registered, its cache equals the last value dispatched for it, even with a raising user callback ahead in the list. |
| mirror_liveness | `DaqMirror_liveness.cfg` | pass | `ReadCompletes` for RunState: each read returns, under contention for `_nLock`, while a waiter polls the counters. |
| rx_message | `ClientRx_rx.cfg` | pass | `MessageMatchesSpec`: for every one-section message (status/config up to three levels deep, structures up to two devices deep, errors) and every pair of small sections, after an empty mirror or one leaf set earlier, the maps, counters, dispatched records and errors equal the spec's handling. `EncodeRoundTrip`: every `sendConfig`/`sendCommand` reads back as its one leaf, and a config write comes back at its path. |
| store_status | `StoreSync_status.cfg` | pass | `PollDeliversAll`: with the server writing and the client polling, every pass that returns rows delivers every earlier write, including writes in the same second as the last poll, and across a restart of the client. `WriteReachesPoller`: every write eventually reaches the client's callbacks. This also covers the case where no pass selects anything, in which `PollDeliversAll` says nothing. |
| store_resets | `StoreSync_resets.cfg` | pass | `NoDuplicateDispatch`: both roles write and poll, with `add*Entry`, `clearEntries` and `delOldEntries`, and no write reaches a poller twice. |
| store_clear | `StoreSync_clear.cfg` | violation | `PollDeliversAll` fails when `clearEntries` runs between a write and the poll. |
| db_session | `DbSession_idle.cfg` | pass | With a server that closes only idle connections: `DbLockHeldByCall` (the lock is held only inside a method), `CallsReturn` (every call returns) and `PollStops` (`pollDisable()` returns), over all interleavings of two callers and the poller. |
| rce_scan | `RceScan_scan.cfg` | pass | `ReportMatchesDevice`: either script, when it prints, shows for each host with a device in the scan, in host order, the leaves below each target with their full paths, once per target and in document order; this holds through any recv() split and trailing bytes. `ScriptEnds`: the script ends, by printing, exiting or an exception. |
| db_outage | `DbSession_outage.cfg` | violation | `DbLockHeldByCall` fails: the server restarts under a statement, `cursor.execute()` raises with `_dbLock` held, and every later call blocks. The same happens when `connect()` gives up after five tries. |

### Disagreements outside the run list

Twelve more disagreements were found while modelling. Each is reproduced by a
cfg kept beside the runs, which differs from a passing run's cfg in its inputs
and checks the one property named. They are hazards in
`PROJECT.json`.

- **`rxStructureVariable()` loses `<perInstance/>`.** It stores the flag under the key `perInst`.
  - Reproduce: `ClientRx_perinst.cfg` (`VarFields <- MCFieldsPerInstance`).
  - Violated: `MessageMatchesSpec`.
- **`rxStructureDevice()` reads `path` before it is assigned.** A `<variable>`, `<command>` or `<device>` before `<name>` raises UnboundLocalError, and the bare except of `rxMessage()` drops the rest of the message.
  - Reproduce: `ClientRx_unbound.cfg` (`Misordered = TRUE`).
  - Violated: `MessageMatchesSpec`.
- **`findConfigStatus()` resets the path at any element named `status` or `config`.** This applies below the category root too.
  - Reproduce: `ClientRx_category.cfg` (`Names <- MCNamesCategory`).
  - Violated: `MessageMatchesSpec`.
- **`daqReadStatusNode()` fails on a node other than RunState or DataFileCount.** `__cbStatusFunctions[node]` raises KeyError with `_nLock` held, and every later read blocks.
  - Reproduce: `DaqMirror_keyerror.cfg`.
  - Violated: `ReadCompletes`.
- **`daqReadStatusNode()` appends another setter on every read before the first value.**
  - Reproduce: `DaqMirror_resubscribe.cfg` (one reader, two reads).
  - Violated: the invariant `AtMostOneSubscription`.
- **`sendXml()` holds `_sLock` across a raising `send()`.** A send before the first connect, or on a broken socket, raises with the lock held; `run()` then blocks in `connect()` and `disable()`/`join()` never returns.
  - Reproduce: `DaqStream_hang.cfg`.
  - Violated: `ShutdownCompletes`.
- **A status callback that registers a callback deadlocks the polling thread.** `_cbLock` is a plain `Lock`, held while the callbacks run; `addStatusCallback()` (directly, or through `daqReadStatusNode()`) acquires it again on the same thread. Spec 4.5 allows registration during operation. A reader subscribing afterwards blocks too, holding `_nLock`.
  - Reproduce: `DaqMirror_reentrant.cfg` (`Reentrant = TRUE`).
  - Violated: `ReadCompletes`.
- **The RCE scripts report a leaf twice when a register block holds a block of its own name.** `getElementsByTagName()` returns both, and `findLeaf()` runs on each.
  - Reproduce: `RceScan_nested.cfg` (`Docs <- MCAllDocs`).
  - Violated: `ReportMatchesDevice`.
- **`get_rce_status.py` matches host arguments as substrings.** The argument CERN-1 also selects CERN-10, and two overlapping arguments select an RCE twice. The usage line ("host list e.g. CERN-100") names RCEs.
  - Reproduce: `RceScan_hosts.cfg` (`HostArgs <- MCHostArgsPrefix`).
  - Violated: `ScansNamedRces`, in the initial state.
- **The RCE scripts spin when the device closes mid-frame.** `recv()` returns `""` and `while "\f" not in data` never ends.
  - Reproduce: `RceScan_close.cfg` (`PeerCloses = TRUE`).
  - Violated: `ScriptEnds`.
- **`add*Entry` re-creates a row behind the pollers' serial cache.** The `replace into` sets the serials to 0 while `_cser` keeps the old serial, so the next writes are not dispatched. This holds whether the row was deleted by `delOldEntries()` or was still live.
  - Reproduce: `StoreSync_readd.cfg` (`Resets = {"addEntry", "delOldEntries"}`).
  - Violated: `PollDeliversAll`.
- **The two roles share the `value` column.** Spec 4.8 says the roles never contend for a column, but `updateConfiguration()` of either role sets `value`. A poller's own later write is dispatched as the counterpart's.
  - Reproduce: `StoreSync_shared.cfg` (both roles write and poll, no resets).
  - Violated: `PollDeliversAll`.

Every property of a passing run has a mutant in `PROJECT.json`. A mutant is a
plausible bug in the modelled code, and TLC finds the property violated with it.

| Mutant | Property it breaks |
|---|---|
| a scan that goes one port too far | `TypeOK` |
| a frame left in the buffer | `ImplementsFrameChannel` |
| the remainder thrown away | `BufferedFrameDelivered` |
| a loop that ignores `_tEn` | `ShutdownCompletes` |
| a registration for nodes without a setter | `TypeOK` |
| a dispatch loop stopped by the first raising callback | `SubscribedValueCurrent` |
| the cached-value return without release | `ReadCompletes` |
| the declared type used as the category | `TypeOK` (of ClientRx) |
| a nested device walked with the parent's prefix | `MessageMatchesSpec` |
| the index put on the inner element | `EncodeRoundTrip` |
| a cache one past the row serial | `TypeOK` |
| a query without the 1 s overlap | `PollDeliversAll` |
| the window taken on the role's own timestamp column | `WriteReachesPoller` (`PollDeliversAll` still holds) |
| a cache that is never written back | `NoDuplicateDispatch` |
| the lock released one statement late | `TypeOK` (of DbSession) |
| `connect()` retrying on the dead handle | `DbLockHeldByCall` |
| `addPollCallback()` without release | `CallsReturn` |
| a polling loop that ignores `_pollEn` | `PollStops` |
| recv() bytes left on the wire | `TypeOK` (of RceScan) |
| `getPath()` without the index attribute | `ReportMatchesDevice` |
| `continue` that retries the same host | `ScriptEnds` |

## 4. Bounds

### DaqStream

- 3 frames, which makes room for a frame before a stall, a fragment, and a frame after it.
- 2 successful connects, enough for one reconnect.
- Base port 8090 with the device on {8099, 8100}: 8099 is the spec's example and the last port of the scan, and 8100 is just outside it.
- One caller, or none in the liveness run (see below).

### DaqMirror

- Two readers under symmetry, two nodes (RunState, which has a setter, and Temp, which has none), two paths and two values.
- 2 messages of up to two leaves, and 3 reads.
- These are enough for a read before and after a value, two readers contending for `_nLock`, and a raising callback registered before the setter (an initial state).

- The waiters run only in `mirror_liveness`: one waiter and 2 calls, so that a second wait starts after a message moved the counter. No property is stated about them: the loop's return condition is the whole of `WaitReturn`, and the value returned is not modelled.

### StoreSync

- One row, or two in `store_status`. A second row's later timestamp makes a pass return rows while the first row's write sits on the edge of the overlap window.
- Two values, 3 writes, time 0..3, and a retention of 1 s, so that rows do get old.
- One restart in `store_status` (`MaxRestarts`), none elsewhere: each restart makes the next pass dispatch every row again, so the history grows with each one.

### ClientRx

- Status/config sections use:
  - names {board, gain} (or {board, status} to reproduce the category reset);
  - indexes {none, "2"};
  - the text "7".
- A status/config section holds one element up to three levels deep, or two elements up to two levels. Every element is a leaf, empty, or the parent of one element.
- Structures use:
  - device names {Dpm, Reg}, one variable name, one index and one enum value;
  - variables with one or two sub-elements;
  - devices holding a name, perhaps an index in any position, and one body, nested two deep.
- A device's children are kept name-before-body unless `Misordered` is TRUE. The code fails otherwise (see section 3).
- Two-section messages pair sections of one level: a leaf or empty element, a variable or command, or an error. Both orders are included, so a placeholder meets a value of the same name in one message.
- The earlier message is empty or one leaf. A structure then writes its placeholder over that live value.
- There are 80,806 starting points.

### RceScan

- Three hosts, each with a device on port 8099 (the last of the scan) or 8100 (just past it). So a reachable host can follow an unreachable one, and a scan that stops one port early or goes one port too far reports a different set of hosts.
- Documents hold one status section. It has either one element two levels deep (names {board, gain}, indexes {none, "2"}, one text) or two leaves. Register blocks holding a block of their own name are left out; `RceScan_nested.cfg` adds them.
- A connection delivers the whole frame, perhaps followed by the next frame's first two bytes (`Trailing`). It may instead stop after 0, 1 or 2 symbols and stall (`PeerFaults`).
- `find_variable.py` searches for either name; `get_rce_status.py` searches `<<gain, board>>`, standing for `varList`.
- `rce_talk` lists CERN-1, CERN-10 and CERN-2 for the three hosts. `get_rce_status.py` gets no host argument, CERN-2, or CERN-10 and CERN-2, which is an order other than the list's. `find_variable.py` runs on its default list.
- The document a device sends is chosen when it is parsed, and recorded in `seen`. This keeps the state graph small enough for the liveness check.

### DbSession

- Two application threads and the poller.
- 3 calls, of `updateStatus` (one statement) and `clearEntries` (three).
- 5 tries, as in the code.

These allow two callers contending with the poller for both locks, and a
three-statement method interrupted between statements.

## 5. Fairness

### DaqStream

- The polling thread is weakly fair on its own steps. The stall timer is wall-clock time, so `Stall` cannot be put off forever.
- Its steps wait for `_sLock`, and Python's lock is not fair. A thread waiting on a lock that callers release and retake is therefore not assumed to get it, so the thread gets no strong fairness.
- The liveness run has no callers. With a caller that raises inside `sendXml`, the lock is never released; `DaqStream_hang.cfg` reproduces that.
- The device and `disable()` get no fairness, because nothing in the code forces them.

### DaqMirror

- The polling thread is weakly fair in finishing the message it is applying.
- A reader holding `_nLock` finishes its call.
- A reader blocked on `_nLock` gets it under strong fairness.
- A waiter whose counter has moved is weakly fair: its sleep loop polls every 0.1 s.

### RceScan

- The script is one sequential process, so it is weakly fair on its whole next-state relation.
- The device is part of the same steps. A stalled device ends the wait by the socket timeout (`RecvTimeout`); a closed one makes `recv()` return `""`, which is a stuttering step.

### DbSession

- A thread that can take a step inside a method (`ConnectTry`, `Execute`) does: weak fairness.
- Taking `_dbLock` or `_cbLock` is strongly fair. Unlike DaqStream's polling thread, which retakes `_sLock` at once, DbSession's poller sleeps `_pollPer` on every pass of `run()` (daq_mysql.py:289) with both locks free, and each call holds a lock for one statement. So a blocked thread sees the lock free again and again with a real pause each time. `PollTop` leaves that sleep out, because it changes no state.
- The poller's loop test and release are weakly fair.
- Application calls, `pollDisable()` and the server get no fairness.

### StoreSync

- `run()` loops while `_pollEn` and sleeps `_pollPer` between passes. A poller whose query would return rows therefore polls: weak fairness on `Poll(p)`.
- Writers, resets, restarts and the clock get no fairness, because nothing in the code forces them.

### ClientRx

- It has only safety properties and no fairness.

### CHECK_DEADLOCK FALSE

All runs set `CHECK_DEADLOCK FALSE`. Each model may stop for a reason the code
allows:

- the stream thread ends after `disable()`;
- ClientRx stops after its one message;
- RceScan stops when the script prints, exits or raises;
- DbSession stops when the calls are used up and the poller has ended;
- the mirror and store models stop when their bounds on messages, reads, writes and time are used up.

## 6. Not modelled

- **pyrogue/rogue GUI and DMA scripts, setup.py, cern_cfg.py, TcpClient.py, DummyDataGenerator.py.** They are glue around libraries outside this repository and have no concurrent state.
- **Text formatting.** This covers the XML and SQL formatting, the missing quote escaping in `updateConfiguration`, and `updateCommand` storing `'None'`. Values are model values; unit tests on the formatting functions reach these.
- **Open sockets.** `connect()` assigns a new socket to `self._sock` without closing the old one. This is not a leak: CPython's reference counting closes the old socket when the attribute is reassigned. A partial `send()` is not modelled either, because the device's reading of commands is outside the model.
- **A second `enable()`.**
- **The `rce_talk` subprocess and the printout's column width.** The model takes what `rce_talk` prints as the constant `RceList`. The column width is layout.
- **`DaqMysql.addError()` and `disconnect()`.** `addError()` has the lock pattern DbSession models, and `disconnect()` is never called.
