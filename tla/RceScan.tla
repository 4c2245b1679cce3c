------------------------------- MODULE RceScan -------------------------------
(***************************************************************************)
(* The RCE status scripts rceScripts/find_variable.py and                 *)
(* get_rce_status.py. For each host in turn the script scans ports        *)
(* sport..sport+9, reads with recv() until the buffer holds "\f", parses  *)
(* data[0:-2], and for every element named like a target appends the     *)
(* leaves below it, with the path getPath() climbs to <system>, to the    *)
(* report it prints at the end. find_variable.py searches one target and  *)
(* calls sys.exit() when a host cannot be reached; get_rce_status.py      *)
(* searches varList and goes on with the next host.                       *)
(*                                                                         *)
(* The device stream is abstracted to symbols: a frame is its document    *)
(* (one of Docs, chosen as it is read), then "\n", then "\f"; the next frame    *)
(* starts with the two bytes "<s".                                         *)
(***************************************************************************)
EXTENDS Naturals, Sequences, SequencesExt

CONSTANTS
  Names, Indexes, Texts,  \* element names, index values, leaf texts
  Hosts,        \* find_variable.py's default host list
  RceList,      \* the lines `rce_talk CERN- list` prints: [RCE |-> name, IP |-> address]
  HostArgs,     \* the possible sys.argv[2:] of get_rce_status.py (RCE names)
  SPort,        \* sport = 8090
  DevicePorts,  \* ports a device may listen on
  VarList,      \* varList of get_rce_status.py
  Docs,         \* documents a device may send
  Trailing,     \* whether the device's next frame may follow its first at once
  PeerFaults,   \* whether the device may stop sending before "\f"
  PeerCloses    \* whether, having stopped, it closes the connection

P == INSTANCE PathCodec

Body == "document"   \* the device's document, up to its closing tag
NL == "\n"
FF == "\f"
Next1 == "<"   \* the first two bytes of the device's next frame
Next2 == "s"

\* what the device writes on a new connection
Stream == <<Body, NL, FF>> \o (IF Trailing THEN <<Next1, Next2>> ELSE <<>>)

\* parseString(): one document, then only white space
ParsesAs(text) == text \in {<<Body>>, <<Body, NL>>}

\* the addresses of the RCEs whose name contains a (Python's `a in name`)
MatchIPs(a) ==
  LET m == SelectSeq(RceList, LAMBDA r : a \in SubSeqs(r.RCE))
  IN [k \in DOMAIN m |-> m[k].IP]

(* get_rce_status.py's hosts: for each argument in order, every RCE of    *)
(* the list whose name contains it; no argument, every RCE. A name is a  *)
(* sequence of tokens, so that the substring test is SubSeqs.            *)
SelectHosts(args) ==
  IF args = <<>> THEN [k \in DOMAIN RceList |-> RceList[k].IP]
  ELSE FoldLeft(LAMBDA acc, a : acc \o MatchIPs(a), <<>>, args)

\* find_variable.py's hosts: the arguments as given, or its default list
FindHosts(args) == IF args = <<>> THEN Hosts ELSE args

-----------------------------------------------------------------------------
(* The tree walks. A node is known by its chain of ancestors from         *)
(* <system>: getPath() climbs node.parentNode.                            *)

\* (mutant: the index attribute is not read)
RECURSIVE GetPathNoIndex(_, _)
GetPathNoIndex(pathIn, chain) ==
  LET node == Last(chain)
      path == <<P!Seg(node.name, P!NoIndex)>> \o pathIn
  IN IF node.name = "system" THEN path ELSE GetPathNoIndex(path, Front(chain))

\* getPath(pathIn, node): name(index), then "/" pathIn, up to <system>
RECURSIVE GetPath(_, _)
GetPath(pathIn, chain) ==
  LET node == Last(chain)
      path == <<P!Seg(node.name, node.index)>> \o pathIn
  IN IF node.name = "system" THEN path ELSE GetPath(path, Front(chain))

\* findLeaf(node): the element children first; a node without element
\* children and with a child node appends its path and first child's value
RECURSIVE FindLeaf(_)
FindLeaf(chain) ==
  LET node == Last(chain)
      elems == SelectSeq(node.kids, P!IsElement)
  IN IF elems = <<>>
       THEN IF node.kids # <<>> THEN <<<<GetPath(<<>>, chain), node.kids[1].text>>>> ELSE <<>>
       ELSE FoldLeft(LAMBDA acc, e : acc \o FindLeaf(Append(chain, e)), <<>>, elems)

\* the elements of the document in document order (getElementsByTagName)
RECURSIVE Chains(_)
Chains(chain) ==
  <<chain>> \o FoldLeft(LAMBDA acc, e : acc \o Chains(Append(chain, e)), <<>>,
                        SelectSeq(Last(chain).kids, P!IsElement))

\* for target in targets: for found in dom.getElementsByTagName(target): findLeaf(found)
Found(doc, targets) ==
  FoldLeft(LAMBDA acc, t :
             acc \o FoldLeft(LAMBDA a, c : a \o FindLeaf(c), <<>>,
                             SelectSeq(Chains(<<doc>>), LAMBDA c : Last(c).name = t)),
           <<>>, targets)

-----------------------------------------------------------------------------
(* The reference: what a user asking for a name is shown. Every leaf with *)
(* an element of that name on its way down from <system>, once per name  *)
(* asked for, with its full path; computed top-down.                      *)

RECURSIVE SpecLeafs(_, _, _)
SpecLeafs(prefix, names, node) ==
  LET path == Append(prefix, P!Seg(node.name, node.index))
      nms == names \cup {node.name}
      elems == SelectSeq(node.kids, P!IsElement)
  IN IF elems # <<>>
       THEN FoldLeft(LAMBDA acc, e : acc \o SpecLeafs(path, nms, e), <<>>, elems)
     ELSE IF node.kids # <<>>
       THEN <<[path |-> path, value |-> node.kids[1].text, names |-> nms]>>
     ELSE <<>>

SpecFound(doc, targets) ==
  LET all == SpecLeafs(<<>>, {}, doc) IN
  FoldLeft(LAMBDA acc, t :
             LET m == SelectSeq(all, LAMBDA l : t \in l.names)
             IN acc \o [i \in DOMAIN m |-> <<m[i].path, m[i].value>>],
           <<>>, targets)

-----------------------------------------------------------------------------
VARIABLES
  script,   \* which of the two scripts runs
  args,     \* sys.argv[2:]: host arguments
  targets,  \* <<sys.argv[1]>> or varList
  devPort,  \* the port each host's device listens on
  hi,       \* index of the current host in the for loop
  pc,       \* program point
  port,     \* port
  data,     \* data
  wire,     \* what the device still has for this connection
  closed,   \* the device closed the connection
  report,   \* varData / varValue, in order
  seen      \* history: the hosts parsed and the document each sent

vars == <<script, args, targets, devPort, hi, pc, port, data, wire, closed, report, seen>>

Scripts == {"find_variable", "get_rce_status"}

Init ==
  /\ script \in Scripts
  /\ targets \in IF script = "find_variable" THEN {<<t>> : t \in Names} ELSE {VarList}
  /\ args \in IF script = "find_variable" THEN {<<>>} ELSE HostArgs
  /\ devPort \in [ToSet(Hosts) \cup {r.IP : r \in ToSet(RceList)} -> DevicePorts]
  /\ hi = 1
  /\ pc = "start"
  /\ port = SPort
  /\ data = <<>>
  /\ wire = <<>>
  /\ closed = FALSE
  /\ report = <<>>
  /\ seen = <<>>

\* hosts, as the script computed it before the loop
HostList == IF script = "find_variable" THEN FindHosts(args) ELSE SelectHosts(args)

Host == HostList[hi]

\* the next host: a fresh socket, no connection yet, and an empty buffer
StartHost ==
  /\ pc = "start"
  /\ hi <= Len(HostList)
  /\ pc' = "scan"
  /\ port' = SPort
  /\ data' = <<>>
  /\ wire' = <<>>
  /\ closed' = FALSE
  /\ UNCHANGED <<script, args, targets, devPort, hi, report, seen>>

\* the for loop is over: the report is printed
Finish ==
  /\ pc = "start"
  /\ hi > Len(HostList)
  /\ pc' = "done"
  /\ UNCHANGED <<script, args, targets, devPort, hi, port, data, wire, closed, report, seen>>

(* One s.connect((host, port)) of while ready == 0 and port < sport+10.   *)
(* A device that accepts sends its frame; it may stop part way, and then  *)
(* close the connection or stay silent.                                  *)
ConnectTry ==
  /\ pc = "scan"
  /\ port < SPort + 10
  /\ IF port = devPort[Host]
       THEN /\ pc' = "recv"
            /\ wire' \in {Stream} \cup IF PeerFaults THEN {SubSeq(Stream, 1, k) : k \in 0..2} ELSE {}
            /\ closed' \in IF PeerCloses THEN BOOLEAN ELSE {FALSE}
            /\ UNCHANGED port
       ELSE /\ port' = port + 1
            /\ UNCHANGED <<pc, wire, closed>>
  /\ UNCHANGED <<script, args, targets, devPort, hi, data, report, seen>>

\* (mutant: continue retries the same host)
ConnectFailRetry ==
  /\ pc = "scan"
  /\ port >= SPort + 10
  /\ pc' = IF script = "find_variable" THEN "exit" ELSE "start"
  /\ UNCHANGED <<script, args, targets, devPort, hi, port, data, wire, closed, report, seen>>

(* ready == 0 after the scan: get_rce_status.py continues with the next   *)
(* host, find_variable.py calls sys.exit() before printing anything.      *)
ConnectFail ==
  /\ pc = "scan"
  /\ port >= SPort + 10
  /\ IF script = "find_variable"
       THEN /\ pc' = "exit"
            /\ UNCHANGED hi
       ELSE /\ pc' = "start"
            /\ hi' = hi + 1
  /\ UNCHANGED <<script, args, targets, devPort, port, data, wire, closed, report, seen>>

\* (mutant: the bytes read stay on the wire)
RecvNoConsume ==
  /\ pc = "recv"
  /\ ~Contains(data, FF)
  /\ \E k \in 1..Len(wire) : data' = data \o SubSeq(wire, 1, k)
  /\ UNCHANGED <<script, args, targets, devPort, hi, pc, port, wire, closed, report, seen>>

\* data += s.recv(1024) while "\f" is not in data: some bytes arrive
Recv ==
  /\ pc = "recv"
  /\ ~Contains(data, FF)
  /\ \E k \in 1..Len(wire) :
       /\ data' = data \o SubSeq(wire, 1, k)
       /\ wire' = SubSeq(wire, k + 1, Len(wire))
  /\ UNCHANGED <<script, args, targets, devPort, hi, pc, port, closed, report, seen>>

(* Nothing arrives for settimeout(10) seconds (1 in find_variable.py):    *)
(* recv() raises socket.timeout, which nothing catches. On a closed       *)
(* connection recv() returns "" instead, and the loop spins: a stuttering *)
(* step of this model.                                                    *)
RecvTimeout ==
  /\ pc = "recv"
  /\ ~Contains(data, FF)
  /\ wire = <<>>
  /\ ~closed
  /\ pc' = "crash"
  /\ UNCHANGED <<script, args, targets, devPort, hi, port, data, wire, closed, report, seen>>

(* s.close(); dom = parseString(data[0:-2]); then the searches. A         *)
(* ParseError is not caught.                                              *)
Parse ==
  /\ pc = "recv"
  /\ Contains(data, FF)
  /\ IF ParsesAs(SubSeq(data, 1, Len(data) - 2))
       THEN /\ \E doc \in Docs :
                 /\ report' = report \o Found(doc, targets)
                 /\ seen' = Append(seen, <<Host, doc>>)
            /\ hi' = hi + 1
            /\ pc' = "start"
       ELSE /\ pc' = "crash"
            /\ UNCHANGED <<hi, report, seen>>
  /\ UNCHANGED <<script, args, targets, devPort, port, data, wire, closed>>

Next == StartHost \/ Finish \/ ConnectTry \/ ConnectFail \/ Recv \/ RecvTimeout \/ Parse

\* a script runs alone on its process: whatever step it can take, it takes
Spec == Init /\ [][Next]_vars /\ WF_vars(Next)

-----------------------------------------------------------------------------
TypeOK ==
  /\ script \in Scripts
  /\ pc \in {"start", "scan", "recv", "done", "exit", "crash"}
  /\ hi \in 1..Len(HostList) + 1
  /\ port \in SPort..SPort + 10
  /\ closed \in BOOLEAN
  /\ IsPrefix(data \o wire, Stream)
  /\ \A i \in DOMAIN report : Len(report[i][1]) <= 4 /\ report[i][2] \in Texts

(* A script that prints its report shows, host after host for every host *)
(* with a device on a port of the scan, the leaves below each element     *)
(* named like a target, once per target and in document order, with the  *)
(* full path from <system> and the leaf's text. Runs that end in a crash  *)
(* are not constrained, so a wrong slice of the received data shows only  *)
(* as a crash. This is about the port scan's bound, the continue of       *)
(* get_rce_status.py, and the recursions of findLeaf() and getPath().     *)
ReportMatchesDevice ==
  pc = "done" =>
    /\ [i \in DOMAIN seen |-> seen[i][1]] = SelectSeq(HostList, LAMBDA h : devPort[h] \in SPort..SPort + 9)
    /\ report = FoldLeft(LAMBDA acc, hd : acc \o SpecFound(hd[2], targets), <<>>, seen)

(* The usage line of get_rce_status.py ("[host list e.g. CERN-100]"):   *)
(* the script scans the RCEs its arguments name, each once, and no other. *)
(* This is about the substring test and the nested loops that build hosts.*)
ScansNamedRces ==
  script = "get_rce_status" /\ args # <<>> =>
    /\ IsInjective(HostList)
    /\ ToSet(HostList) = {r.IP : r \in {r \in ToSet(RceList) : r.RCE \in ToSet(args)}}

(* The script ends: it prints its report, exits, or dies of an exception *)
(* (a timeout, a parse error), but never loops forever in the scan or in  *)
(* the recv() loop.                                                       *)
ScriptEnds ==
  <>(pc \in {"done", "exit", "crash"})

=============================================================================
