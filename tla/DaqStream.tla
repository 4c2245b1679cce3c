------------------------------ MODULE DaqStream ------------------------------
(***************************************************************************)
(* The stream transport of DaqClient (daq_client.py): the polling thread   *)
(* run() with its frame splitter, connect() with its port scan and the     *)
(* stall timeout, the socket lock _sLock that the thread shares with the   *)
(* application threads calling sendXml(), and enable()/disable().          *)
(*                                                                         *)
(* Bytes are abstracted to symbols: frame f is sent as the three symbols   *)
(* Body(f,1), Body(f,2), Delim, so that a recv() may end inside a frame.   *)
(* rxMessage() is abstracted to its parse: a message parses iff it is the  *)
(* body of exactly one frame; what a parsed message does to the mirror is  *)
(* the subject of DaqMirror.                                               *)
(***************************************************************************)
EXTENDS Naturals, Sequences, SequencesExt

CONSTANTS
  Callers,      \* application threads that call sendConfig/sendCommand/...
  MaxFrames,    \* frames the device sends over a whole behaviour
  MaxConnects,  \* successful connect() calls in a behaviour (bounds reconnects)
  BasePort,     \* the port passed to DaqClient(dhost, dport)
  DevicePorts,  \* ports on which the device may be accepting connections
  SendCanFail,  \* whether _sock.send() may raise on an open socket
  NoHolder,     \* model value: _sLock is free
  None          \* model value: _sock is None / no port connected

ASSUME MaxFrames \in Nat /\ MaxConnects \in Nat /\ SendCanFail \in BOOLEAN

Delim == [frame |-> 0, part |-> 0]
Body(f, k) == [frame |-> f, part |-> k]
FrameBytes(f) == <<Body(f, 1), Body(f, 2), Delim>>
Symbols == {Delim} \cup {Body(f, k) : f \in 1..MaxFrames, k \in 1..2}

\* connect() tries port, port+1, ... while port < self._port+10
ScanPorts == BasePort..(BasePort + 9)

VARIABLES
  wpc,      \* program point of the polling thread: "top", "connect", "read", "done"
  tEn,      \* self._tEn
  sready,   \* self._sready
  conn,     \* number of sockets connect() has opened; 0 means _sock is None
  port,     \* port of the open socket, or None
  sLock,    \* holder of self._sLock
  data,     \* the receive buffer `data` of run()
  wire,     \* bytes in flight on the current socket, device to client
  srvNext,  \* next frame the device sends
  msgs,     \* history: what run() handed to rxMessage (frame, or 0 if unparsable)
  cpc       \* program point of each caller thread: "idle" or "locked"

vars == <<wpc, tEn, sready, conn, port, sLock, data, wire, srvNext, msgs, cpc>>

-----------------------------------------------------------------------------
(* Frame splitting: data.find("\f") and the parse of data[0:pos].          *)

\* pos = data.find("\f"), 0 standing for -1
DelimPos(d) == SelectInSeq(d, LAMBDA s : s = Delim)

HasDelim(d) == DelimPos(d) > 0

\* parseString(xml) succeeds iff xml is the body of one whole frame
Parse(xml) ==
  IF \E f \in 1..MaxFrames : xml = <<Body(f, 1), Body(f, 2)>>
    THEN xml[1].frame
    ELSE 0

\* mutant: the scan also tries self._port+10 (port <= self._port+10)
FirstAcceptingPastEnd(accepting) ==
  LET open == (ScanPorts \cup {BasePort + 10}) \cap accepting
  IN IF open = {} THEN None ELSE Min(open)

\* the first port of the scan on which the device accepts, or None
FirstAccepting(accepting) ==
  LET open == ScanPorts \cap accepting
  IN IF open = {} THEN None ELSE Min(open)

-----------------------------------------------------------------------------
Init ==
  /\ wpc = "top"
  /\ tEn = TRUE            \* enable(): _tEn = True, then start()
  /\ sready = FALSE
  /\ conn = 0
  /\ port = None
  /\ sLock = NoHolder
  /\ data = <<>>
  /\ wire = <<>>
  /\ srvNext = 1
  /\ msgs = <<>>
  /\ cpc = [c \in Callers |-> "idle"]

\* mutant: the loop does not test _tEn (while True)
TopIgnoresEnable ==
  /\ wpc = "top"
  /\ wpc' = "connect"
  /\ UNCHANGED <<tEn, sready, conn, port, sLock, data, wire, srvNext, msgs, cpc>>

(* Top of the while self._tEn loop of run(): leave it, or go on to call   *)
(* connect(). The flag is read once, before connect() waits for _sLock.    *)
Top ==
  /\ wpc = "top"
  /\ wpc' = IF tEn THEN "connect" ELSE "done"
  /\ UNCHANGED <<tEn, sready, conn, port, sLock, data, wire, srvNext, msgs, cpc>>

(* connect() takes _sLock, returns at once when _sready and otherwise      *)
(* scans the ports; on failure it sleeps and returns False, and run() goes *)
(* on to look for a frame already in the buffer.                           *)
Connect ==
  /\ wpc = "connect"
  /\ sLock = NoHolder
  /\ wpc' = "read"
  /\ \/ /\ sready
        /\ UNCHANGED <<sready, conn, port, wire>>
     \/ /\ ~sready
        /\ \E accepting \in SUBSET DevicePorts :
             LET p == FirstAccepting(accepting) IN
             IF p # None /\ conn < MaxConnects
               THEN /\ sready' = TRUE
                    /\ conn' = conn + 1
                    /\ port' = p
                    /\ wire' = <<>>
               ELSE UNCHANGED <<sready, conn, port, wire>>
  /\ UNCHANGED <<tEn, sLock, data, srvNext, msgs, cpc>>

(* One pass of while pos < 0 and self._sready: recv() under _sLock        *)
(* appends what has arrived (any non-empty prefix of the bytes in flight). *)
(* A recv() that times out leaves every variable unchanged.                *)
Recv ==
  /\ wpc = "read"
  /\ sready /\ ~HasDelim(data)
  /\ sLock = NoHolder
  /\ \E k \in 1..Len(wire) :
       /\ data' = data \o SubSeq(wire, 1, k)
       /\ wire' = SubSeq(wire, k + 1, Len(wire))
  /\ UNCHANGED <<wpc, tEn, sready, conn, port, sLock, srvNext, msgs, cpc>>

(* No delimiter and more than 5 s since `last`: "Message timeout", and    *)
(* _sready = False under _sLock. The socket is not closed and `data` is   *)
(* kept.                                                                   *)
Stall ==
  /\ wpc = "read"
  /\ sready /\ ~HasDelim(data)
  /\ sLock = NoHolder
  /\ sready' = FALSE
  /\ UNCHANGED <<wpc, tEn, conn, port, sLock, data, wire, srvNext, msgs, cpc>>

\* mutant: the processed frame is left in the buffer (no data = data[pos+1:])
ProcessKeepsFrame ==
  /\ wpc = "read"
  /\ HasDelim(data) \/ ~sready
  /\ wpc' = "top"
  /\ IF HasDelim(data)
       THEN msgs' = Append(msgs, Parse(SubSeq(data, 1, DelimPos(data) - 1)))
       ELSE UNCHANGED msgs
  /\ UNCHANGED <<tEn, sready, conn, port, sLock, data, wire, srvNext, cpc>>

\* mutant: the rest of the buffer is thrown away with the frame (data = "")
ProcessDropsRest ==
  /\ wpc = "read"
  /\ HasDelim(data) \/ ~sready
  /\ wpc' = "top"
  /\ IF HasDelim(data)
       THEN /\ msgs' = Append(msgs, Parse(SubSeq(data, 1, DelimPos(data) - 1)))
            /\ data' = <<>>
       ELSE UNCHANGED <<msgs, data>>
  /\ UNCHANGED <<tEn, sready, conn, port, sLock, wire, srvNext, cpc>>

(* The inner loop has ended: if pos >= 0, xml = data[0:pos],              *)
(* data = data[pos+1:], rxMessage(xml); then back to the top.              *)
Process ==
  /\ wpc = "read"
  /\ HasDelim(data) \/ ~sready
  /\ wpc' = "top"
  /\ IF HasDelim(data)
       THEN LET pos == DelimPos(data) IN
            /\ msgs' = Append(msgs, Parse(SubSeq(data, 1, pos - 1)))
            /\ data' = SubSeq(data, pos + 1, Len(data))
       ELSE UNCHANGED <<msgs, data>>
  /\ UNCHANGED <<tEn, sready, conn, port, sLock, wire, srvNext, cpc>>

-----------------------------------------------------------------------------
(* sendXml(): _sLock.acquire(); _sock.send(xmlOut); _sLock.release().     *)
(* send() raises when _sock is None and may raise on an open socket; the  *)
(* exception leaves the method before release().                          *)

SendAcquire(c) ==
  /\ cpc[c] = "idle"
  /\ sLock = NoHolder
  /\ sLock' = c
  /\ cpc' = [cpc EXCEPT ![c] = "locked"]
  /\ UNCHANGED <<wpc, tEn, sready, conn, port, data, wire, srvNext, msgs>>

SendOk(c) ==
  /\ cpc[c] = "locked"
  /\ conn > 0
  /\ sLock' = NoHolder
  /\ cpc' = [cpc EXCEPT ![c] = "idle"]
  /\ UNCHANGED <<wpc, tEn, sready, conn, port, data, wire, srvNext, msgs>>

SendRaise(c) ==
  /\ cpc[c] = "locked"
  /\ conn = 0 \/ SendCanFail
  /\ cpc' = [cpc EXCEPT ![c] = "idle"]
  /\ UNCHANGED <<wpc, tEn, sready, conn, port, sLock, data, wire, srvNext, msgs>>

\* disable(): _tEn = False, then join()
Disable ==
  /\ tEn
  /\ tEn' = FALSE
  /\ UNCHANGED <<wpc, sready, conn, port, sLock, data, wire, srvNext, msgs, cpc>>

(* The device writes its next frame on the socket it has accepted. Once   *)
(* the client has given that socket up, what is written there is never    *)
(* read.                                                                   *)
DeviceSend ==
  /\ srvNext <= MaxFrames
  /\ conn > 0
  /\ srvNext' = srvNext + 1
  /\ wire' = IF sready THEN wire \o FrameBytes(srvNext) ELSE wire
  /\ UNCHANGED <<wpc, tEn, sready, conn, port, sLock, data, msgs, cpc>>

Worker == Top \/ Connect \/ Recv \/ Stall \/ Process

Next ==
  \/ Worker
  \/ \E c \in Callers : SendAcquire(c) \/ SendOk(c) \/ SendRaise(c)
  \/ Disable
  \/ DeviceSend

(* The polling thread is a Python thread that the scheduler keeps running; *)
(* the stall timer is wall-clock time, so Stall cannot be put off forever. *)
(* Its steps wait for _sLock. Python's Lock is not fair, so a thread      *)
(* blocked on a lock that callers release and retake is not assumed to get *)
(* it: weak fairness only. A caller that holds _sLock returns from send(). *)
(* The device and the application's calls of disable() are not assumed.   *)
Fairness ==
  /\ WF_vars(Worker)
  /\ \A c \in Callers : WF_vars(SendOk(c) \/ SendRaise(c))

Spec == Init /\ [][Next]_vars /\ Fairness

-----------------------------------------------------------------------------
TypeOK ==
  /\ wpc \in {"top", "connect", "read", "done"}
  /\ tEn \in BOOLEAN /\ sready \in BOOLEAN
  /\ conn \in 0..MaxConnects
  /\ port \in ScanPorts \cup {None}
  /\ sLock \in Callers \cup {NoHolder}
  /\ data \in Seq(Symbols) /\ wire \in Seq(Symbols)
  /\ srvNext \in 1..(MaxFrames + 1)
  /\ msgs \in Seq(0..MaxFrames)
  /\ cpc \in [Callers -> {"idle", "locked"}]

Delivered(f) == \E i \in DOMAIN msgs : msgs[i] = f

(* The stream transport implements the frame channel of the spec. The    *)
(* frames on their way are those whose first byte is in the receive buffer *)
(* or on the current socket; what rxMessage() parsed is what was          *)
(* delivered. Across recv() boundaries, stalls, reconnects and sends, the *)
(* splitter never replays, reorders or invents a frame, and whatever      *)
(* leaves the buffer unparsed was lost in one step of the channel.        *)
Channel == INSTANCE FrameChannel WITH
  sent <- srvNext - 1,
  pending <- SetToSortSeq({f \in 1..MaxFrames : Body(f, 1) \in ToSet(data \o wire)}, <),
  delivered <- SelectSeq(msgs, LAMBDA m : m # 0)

ImplementsFrameChannel == Channel!Spec

(* Every message run() hands to rxMessage is one whole frame the device   *)
(* sent (the spec: a stalled connection is torn down and re-established). *)
NoCorruptFrame ==
  \A i \in DOMAIN msgs : msgs[i] # 0

\* the whole of frame f is in the buffer and starts at a frame boundary
InBuffer(f) ==
  \E i \in 1..(Len(data) - 2) :
    /\ SubSeq(data, i, i + 2) = FrameBytes(f)
    /\ i = 1 \/ data[i - 1] = Delim

(* A frame that is whole in the receive buffer reaches rxMessage while    *)
(* the thread stays enabled, even if no more bytes arrive and the device  *)
(* is unreachable: run() looks for a delimiter before it reads again.     *)
BufferedFrameDelivered ==
  \A f \in 1..MaxFrames : (InBuffer(f) /\ tEn) ~> (Delivered(f) \/ ~tEn)

(* disable() returns: once _tEn is False the polling thread leaves run(), *)
(* whatever the socket and the application threads do.                    *)
ShutdownCompletes ==
  ~tEn ~> (wpc = "done")

=============================================================================
