------------------------------- MODULE ClientRx -------------------------------
(***************************************************************************)
(* rxMessage() of DaqClient (daq_client.py): the parsed message's sections *)
(* are handled in document order, <status>/<config> by findConfigStatus(), *)
(* <structure> by rxStructure(), <error> by rxError(), on the one mirror    *)
(* _status/_config that all of them write. An exception in a section ends  *)
(* the loop in the bare except of rxMessage(): what the earlier sections   *)
(* did stays, the later sections are lost.                                 *)
(*                                                                         *)
(* The mirror may already hold what an earlier message set; then one       *)
(* message is received. The section handlers are the operators of         *)
(* PathCodec and StructureParser.                                          *)
(***************************************************************************)
EXTENDS Naturals, Sequences, SequencesExt, TLC

CONSTANTS
  Names, Indexes, Texts,                      \* of PathCodec
  DevNames, VarNames, IndexVals, EnumVals,    \* of StructureParser
  VarFields, Misordered,
  ErrorTexts                                  \* texts of <error> sections

P == INSTANCE PathCodec
S == INSTANCE StructureParser

Root(secs) == P!Elem("system", P!NoIndex, secs)
ErrorSection(t) == P!Elem("error", P!NoIndex, <<P!Text(t)>>)

\* the mirror: the maps, their counters and the callbacks' histories
Empty == [status |-> <<>>, config |-> <<>>, statusCnt |-> 0, configCnt |-> 0,
          dispatched |-> <<>>, errors |-> <<>>]

\* rxStructureVariable(): self._status[name] = "" or self._config[name] = ""
Placeholders(m, recs, kind) ==
  FoldLeft(LAMBDA acc, r : IF r.kind = kind THEN (r.name :> "") @@ acc ELSE acc, m, recs)

-----------------------------------------------------------------------------
(* The code. st carries the mirror and whether an exception was raised.   *)

(* One section of the message: findConfigStatus("status", "", item) and   *)
(* its config twin, rxStructure(item), or rxError(item), whose            *)
(* node.childNodes[0] raises IndexError on an empty <error/>.             *)
RxSection(st, sec) ==
  CASE sec.name \in P!Categories ->
         LET ups == P!FindConfigStatus(<<>>, sec) IN
         IF sec.name = "status"
           THEN [st EXCEPT !.status = P!ApplyUpdates(@, ups), !.statusCnt = @ + Len(ups)]
           ELSE [st EXCEPT !.config = P!ApplyUpdates(@, ups), !.configCnt = @ + Len(ups)]
    [] sec.name = "structure" ->
         LET w == S!RxStructureWalk(sec) IN
         [st EXCEPT !.dispatched = @ \o w.recs,
                    !.status = Placeholders(@, w.recs, "status"),
                    !.config = Placeholders(@, w.recs, "config"),
                    !.ok = w.ok]
    [] sec.name = "error" ->
         IF sec.kids = <<>> THEN [st EXCEPT !.ok = FALSE]
         ELSE [st EXCEPT !.errors = Append(@, sec.kids[1].text)]
    [] OTHER -> st

\* rxMessage(msg): the element children of the root, until one raises
RxMirror(mirror, m) ==
  LET st == FoldLeft(LAMBDA acc, sec : IF acc.ok THEN RxSection(acc, sec) ELSE acc,
                     ("ok" :> TRUE) @@ mirror, SelectSeq(m.kids, P!IsElement))
  IN [f \in DOMAIN mirror |-> st[f]]

-----------------------------------------------------------------------------
(* The reference (spec 4.2, 4.3, 4.5): every section of a message is      *)
(* applied in order; a section's leaves are recorded and counted; every   *)
(* variable and command of a structure is dispatched and each variable    *)
(* stored as an empty placeholder; every error event is dispatched.       *)

SpecRxSection(mi, sec) ==
  CASE sec.name \in P!Categories ->
         LET ups == P!SpecSection(sec) IN
         IF sec.name = "status"
           THEN [mi EXCEPT !.status = P!ApplyUpdates(@, ups), !.statusCnt = @ + Len(ups)]
           ELSE [mi EXCEPT !.config = P!ApplyUpdates(@, ups), !.configCnt = @ + Len(ups)]
    [] sec.name = "structure" ->
         LET recs == S!SpecRecords(sec) IN
         [mi EXCEPT !.dispatched = @ \o recs,
                    !.status = Placeholders(@, recs, "status"),
                    !.config = Placeholders(@, recs, "config")]
    [] sec.name = "error" -> [mi EXCEPT !.errors = Append(@, sec.kids[1].text)]
    [] OTHER -> mi

SpecRxMirror(mirror, m) ==
  FoldLeft(SpecRxSection, mirror, SelectSeq(m.kids, P!IsElement))

-----------------------------------------------------------------------------
(* The messages: one section of any shape the walkers are checked on, or  *)
(* two small sections in either order. The earlier message left a leaf    *)
(* of the mirror set, or nothing.                                         *)

SmallSections ==
  {P!Elem(c, P!NoIndex, <<e>>) : c \in P!Categories, e \in P!E1}
  \cup {S!Elem("structure", <<b>>) : b \in S!Bodies0}
  \cup {ErrorSection(t) : t \in ErrorTexts}

Messages ==
  {Root(<<s>>) : s \in P!Sections \cup S!Sections \cup {ErrorSection(t) : t \in ErrorTexts}}
  \cup {Root(<<a, b>>) : a, b \in SmallSections}

Earlier ==
  {Root(<<>>)}
  \cup {Root(<<P!Elem(c, P!NoIndex, <<P!Elem(n, i, <<P!Text(t)>>)>>)>>) :
          c \in P!Categories, n \in Names, i \in Indexes, t \in Texts}

None == [cat |-> "none"]

VARIABLES
  earlier,     \* the message received before
  msg,         \* the message being received
  written,     \* the sendConfig/sendCommand call whose markup msg is, or None
  status, config, statusCnt, configCnt,   \* self._status, ... (as in the code)
  dispatched,  \* history: the records the structure callbacks received
  errors,      \* history: the values the error callbacks received
  received     \* rxMessage(msg) has run

mirror == [status |-> status, config |-> config, statusCnt |-> statusCnt,
           configCnt |-> configCnt, dispatched |-> dispatched, errors |-> errors]

vars == <<earlier, msg, written, status, config, statusCnt, configCnt,
          dispatched, errors, received>>

\* the mirror's variables take the values of mi
SetMirror(mi) ==
  /\ status' = mi.status /\ config' = mi.config
  /\ statusCnt' = mi.statusCnt /\ configCnt' = mi.configCnt
  /\ dispatched' = mi.dispatched /\ errors' = mi.errors

(* Any message after any earlier one, or the markup of a write, as the    *)
(* device reports the value back to an empty mirror.                      *)
Init ==
  /\ \/ earlier \in Earlier /\ msg \in Messages /\ written = None
     \/ earlier = Root(<<>>) /\ \E w \in P!Writes : written = w /\ msg = P!Encode(w)
  /\ LET mi == RxMirror(Empty, earlier) IN
       /\ status = mi.status /\ config = mi.config
       /\ statusCnt = mi.statusCnt /\ configCnt = mi.configCnt
       /\ dispatched = mi.dispatched /\ errors = mi.errors
  /\ received = FALSE

\* rxMessage(msg)
RxMessage ==
  /\ ~received
  /\ SetMirror(RxMirror(mirror, msg))
  /\ received' = TRUE
  /\ UNCHANGED <<earlier, msg, written>>

Next == RxMessage

Spec == Init /\ [][Next]_vars

-----------------------------------------------------------------------------
PathSegs == P!SegSet \cup {P!Seg(n, i) : n \in DevNames \cup VarNames, i \in IndexVals \cup {P!NoIndex}}

TypeOK ==
  /\ \A m \in {status, config} :
       \A p \in DOMAIN m : p \in Seq(PathSegs) /\ Len(p) <= 3 /\ m[p] \in Texts \cup {""}
  /\ statusCnt \in Nat /\ configCnt \in Nat
  /\ \A k \in DOMAIN dispatched : dispatched[k] \in S!VarRecord \cup S!CmdRecord
  /\ errors \in Seq(ErrorTexts)
  /\ received \in BOOLEAN

(* Spec 4.3-4.5: after rxMessage() the mirror is what the spec's handling *)
(* of the earlier and this message gives: each leaf of a status or config *)
(* section recorded at its synthesized path and counted, each variable    *)
(* and command of a structure dispatched once in document order with its  *)
(* device path and every known field, each variable's placeholder stored, *)
(* each error dispatched, and no section lost. This is about the          *)
(* recursions of findConfigStatus() and rxStructureDevice(), the fields   *)
(* of rxStructureVariable(), and the section loop of rxMessage().         *)
MessageMatchesSpec ==
  received => mirror = SpecRxMirror(SpecRxMirror(Empty, earlier), msg)

(* The markup sendConfig(path, value) or sendCommand(path, arg) builds   *)
(* carries the path: read by the spec's flattening it is the one leaf     *)
(* <<path, value>> of its section, and a config write that comes back is  *)
(* recorded by findConfigStatus() at the path it was written to. This is  *)
(* about the nesting and index placement of the encoders.                 *)
EncodeRoundTrip ==
  received /\ written # None =>
    /\ P!SpecSection(msg.kids[1]) = <<<<written.path, written.value>>>>
    /\ written.cat = "config" => config = (written.path :> written.value)

=============================================================================
