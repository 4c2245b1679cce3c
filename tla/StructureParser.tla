--------------------------- MODULE StructureParser ---------------------------
(***************************************************************************)
(* The structure walker of DaqClient (daq_client.py): rxStructure(),      *)
(* rxStructureDevice(), rxStructureVariable() and rxStructureCommand(),   *)
(* which turn the device description in a <structure> section into       *)
(* variable and command records, store a "" placeholder for each variable *)
(* in _status or _config, and dispatch each record to the structure       *)
(* callbacks. The walk reports whether it raised; ClientRx applies it to  *)
(* the mirror.                                                             *)
(*                                                                         *)
(* A name path "Dpm(0):Reg:gain" is the sequence of its segments; a       *)
(* device's "(index):" or ":" suffix is the index of its segment.         *)
(***************************************************************************)
EXTENDS Naturals, Sequences, SequencesExt, Functions, TLC

CONSTANTS
  DevNames,    \* device names
  VarNames,    \* variable and command names
  IndexVals,   \* values of <index> elements
  EnumVals,    \* values of <enum> elements
  VarFields,   \* the sub-elements a variable description may hold
  Misordered   \* whether a device's variable may come before its <name>

Text(t) == [type |-> "text", text |-> t]
Elem(n, ks) == [type |-> "element", name |-> n, kids |-> ks]
Leaf(n, v) == Elem(n, <<Text(v)>>)
Flag(n) == Elem(n, <<>>)
IsElement(nd) == nd.type = "element"
ElemKids(nd) == SelectSeq(nd.kids, IsElement)

Seg(n, i) == [name |-> n, index |-> i]
NoIndex == ""

\* val = item.childNodes[0].nodeValue, or "" for an empty element
Val(item) == IF item.kids = <<>> THEN "" ELSE item.kids[1].text

-----------------------------------------------------------------------------
(* rxStructureVariable(path, node): defaults, then one pass over the      *)
(* sub-elements; the record is keyed like varData.                         *)

VarDefaults ==
  [name |-> <<>>, type |-> "", enum |-> <<>>, perInstance |-> "False",
   hidden |-> "False"]

(* One sub-element: name is path + val; enum values are joined with ","   *)
(* (a sequence here); perInstance sets varData['perInst'], a key of its   *)
(* own that the record did not have.                                      *)
VarField(path, vd, item) ==
  CASE item.name = "name"        -> [vd EXCEPT !.name = Append(path, Seg(Val(item), NoIndex))]
    [] item.name = "type"        -> [vd EXCEPT !.type = Val(item)]
    [] item.name = "enum"        -> [vd EXCEPT !.enum = Append(@, Val(item))]
    [] item.name = "perInstance" -> ("perInst" :> "True") @@ vd
    [] item.name = "hidden"      -> [vd EXCEPT !.hidden = "True"]
    [] OTHER                     -> vd

\* mutant: the declared type string is used as the category
StructureVariableRawType(path, node) ==
  LET vd == FoldLeft(LAMBDA acc, it : VarField(path, acc, it), VarDefaults, ElemKids(node))
  IN ("kind" :> vd.type) @@ vd

StructureVariable(path, node) ==
  LET vd == FoldLeft(LAMBDA acc, it : VarField(path, acc, it), VarDefaults, ElemKids(node))
  IN ("kind" :> IF vd.type = "Status" THEN "status" ELSE "config") @@ vd

\* rxStructureCommand(path, node)
StructureCommand(path, node) ==
  LET Field(cd, it) ==
        CASE it.name = "name"   -> [cd EXCEPT !.name = Append(path, Seg(Val(it), NoIndex))]
          [] it.name = "hasArg" -> [cd EXCEPT !.hasArg = "True"]
          [] OTHER              -> cd
  IN FoldLeft(LAMBDA acc, it : Field(acc, it),
              [kind |-> "command", name |-> <<>>, hasArg |-> "False"], ElemKids(node))

-----------------------------------------------------------------------------
(* rxStructureDevice(pathIn, node): one pass over the children carrying   *)
(* the locals index and path. path is assigned at <name>; a variable,     *)
(* command or device child met before it reads an unassigned local and   *)
(* raises UnboundLocalError. The walk is the records it dispatched and    *)
(* whether it ended normally.                                              *)

Walk(recs, ok) == [recs |-> recs, ok |-> ok]

RECURSIVE StructureDevice(_, _)

\* mutant: a nested device is walked with the parent's prefix, not its own path
DeviceChildFlat(pathIn, st, it) ==
  IF ~st.ok THEN st
  ELSE IF it.name \in {"variable", "command", "device"} /\ ~st.bound
    THEN [st EXCEPT !.ok = FALSE]
  ELSE CASE it.name = "index" -> [st EXCEPT !.index = Val(it)]
         [] it.name = "name" ->
              [st EXCEPT !.path = Append(pathIn, Seg(Val(it), st.index)), !.bound = TRUE]
         [] it.name = "variable" ->
              [st EXCEPT !.recs = Append(@, StructureVariable(st.path, it))]
         [] it.name = "command" ->
              [st EXCEPT !.recs = Append(@, StructureCommand(st.path, it))]
         [] it.name = "device" ->
              LET w == StructureDevice(pathIn, it)
              IN [st EXCEPT !.recs = @ \o w.recs, !.ok = w.ok]
         [] OTHER -> st

\* one child of a device, with the locals st = [index, path, bound, recs, ok]
DeviceChild(pathIn, st, it) ==
  IF ~st.ok THEN st
  ELSE IF it.name \in {"variable", "command", "device"} /\ ~st.bound
    THEN [st EXCEPT !.ok = FALSE]
  ELSE CASE it.name = "index" -> [st EXCEPT !.index = Val(it)]
         [] it.name = "name" ->
              [st EXCEPT !.path = Append(pathIn, Seg(Val(it), st.index)), !.bound = TRUE]
         [] it.name = "variable" ->
              [st EXCEPT !.recs = Append(@, StructureVariable(st.path, it))]
         [] it.name = "command" ->
              [st EXCEPT !.recs = Append(@, StructureCommand(st.path, it))]
         [] it.name = "device" ->
              LET w == StructureDevice(st.path, it)
              IN [st EXCEPT !.recs = @ \o w.recs, !.ok = w.ok]
         [] OTHER -> st

StructureDevice(pathIn, node) ==
  LET st == FoldLeft(LAMBDA acc, it : DeviceChild(pathIn, acc, it),
                     [index |-> NoIndex, path |-> <<>>, bound |-> FALSE, recs |-> <<>>, ok |-> TRUE],
                     ElemKids(node))
  IN Walk(st.recs, st.ok)

\* rxStructure(node): the top-level devices, variables and commands
RxStructureWalk(node) ==
  FoldLeft(LAMBDA w, it :
             IF ~w.ok THEN w
             ELSE CASE it.name = "device" ->
                         LET d == StructureDevice(<<>>, it) IN Walk(w.recs \o d.recs, d.ok)
                    [] it.name = "variable" -> Walk(Append(w.recs, StructureVariable(<<>>, it)), TRUE)
                    [] it.name = "command" -> Walk(Append(w.recs, StructureCommand(<<>>, it)), TRUE)
                    [] OTHER -> w,
           Walk(<<>>, TRUE), ElemKids(node))

-----------------------------------------------------------------------------
(* The device descriptions: a <structure> section holding one variable,  *)
(* command or device; a device holds a <name>, perhaps an <index>, and one *)
(* variable, command or device of depth one, in any order the constants   *)
(* allow.                                                                  *)

VarAtoms ==
  {Leaf("name", n) : n \in VarNames}
  \cup (IF "type" \in VarFields THEN {Leaf("type", "Status"), Leaf("type", "Config")} ELSE {})
  \cup (IF "enum" \in VarFields THEN {Leaf("enum", e) : e \in EnumVals} ELSE {})
  \cup {Flag(f) : f \in VarFields \cap {"perInstance", "hidden"}}

Variables == {Elem("variable", <<a>>) : a \in VarAtoms}
             \cup {Elem("variable", <<a, b>>) : a, b \in VarAtoms}

CmdAtoms == {Leaf("name", n) : n \in VarNames} \cup {Flag("hasArg")}

Commands == {Elem("command", <<a>>) : a \in CmdAtoms}
            \cup {Elem("command", <<a, b>>) : a, b \in CmdAtoms}

\* the orders of items in which the body does not come before the name
Orders(items) ==
  {p \in [1..Len(items) -> 1..Len(items)] :
     /\ Range(p) = 1..Len(items)
     /\ Misordered \/ \A i, j \in 1..Len(items) :
           items[p[i]].name = "name" /\ items[p[j]].name # "name"
             /\ items[p[j]].name # "index" => i < j}

Devices(bodies) ==
  UNION {{Elem("device", [k \in 1..Len(items) |-> items[p[k]]]) : p \in Orders(items)} :
           items \in {<<Leaf("name", d), b>> : d \in DevNames, b \in bodies}
                 \cup {<<Leaf("index", i), Leaf("name", d), b>> :
                          i \in IndexVals, d \in DevNames, b \in bodies}}

Bodies0 == Variables \cup Commands
Bodies1 == Bodies0 \cup Devices(Bodies0)

Sections == {Elem("structure", <<b>>) : b \in Bodies1 \cup Devices(Bodies1 \ Bodies0)}

-----------------------------------------------------------------------------
(* The reference of the spec (4.3): a device's path is the prefix joined  *)
(* with its name, with the index of an <index> element that precedes the  *)
(* <name>; a variable collects every known sub-field, perInstance         *)
(* included; every variable and command yields one record and one         *)
(* dispatch, in document order; unknown elements are ignored.             *)

SpecVarField(path, vd, item) ==
  CASE item.name = "name"        -> [vd EXCEPT !.name = Append(path, Seg(Val(item), NoIndex))]
    [] item.name = "type"        -> [vd EXCEPT !.type = Val(item)]
    [] item.name = "enum"        -> [vd EXCEPT !.enum = Append(@, Val(item))]
    [] item.name = "perInstance" -> [vd EXCEPT !.perInstance = "True"]
    [] item.name = "hidden"      -> [vd EXCEPT !.hidden = "True"]
    [] OTHER                     -> vd

SpecVariable(path, node) ==
  LET vd == FoldLeft(LAMBDA acc, it : SpecVarField(path, acc, it), VarDefaults, ElemKids(node))
  IN ("kind" :> IF vd.type = "Status" THEN "status" ELSE "config") @@ vd

RECURSIVE SpecDevice(_, _)
SpecDevice(prefix, node) ==
  LET ks == ElemKids(node)
      at == CHOOSE k \in DOMAIN ks : ks[k].name = "name"
      before == {k \in DOMAIN ks : k < at /\ ks[k].name = "index"}
      index == IF before = {} THEN NoIndex ELSE Val(ks[Max(before)])
      path == Append(prefix, Seg(Val(ks[at]), index))
  IN FoldLeft(LAMBDA acc, it :
                CASE it.name = "variable" -> Append(acc, SpecVariable(path, it))
                  [] it.name = "command" -> Append(acc, StructureCommand(path, it))
                  [] it.name = "device" -> acc \o SpecDevice(path, it)
                  [] OTHER -> acc,
              <<>>, ks)

SpecRecords(node) ==
  FoldLeft(LAMBDA acc, it :
             CASE it.name = "device" -> acc \o SpecDevice(<<>>, it)
               [] it.name = "variable" -> Append(acc, SpecVariable(<<>>, it))
               [] it.name = "command" -> Append(acc, StructureCommand(<<>>, it))
               [] OTHER -> acc,
           <<>>, ElemKids(node))

-----------------------------------------------------------------------------
NamePaths == {<<>>} \cup {p \in Seq({Seg(n, i) : n \in DevNames \cup VarNames,
                                                i \in IndexVals \cup {NoIndex}}) : Len(p) <= 3}

VarRecord ==
  [kind : {"status", "config"}, name : NamePaths, type : {"", "Status", "Config"},
   enum : Seq(EnumVals), perInstance : {"False", "True"}, hidden : {"False", "True"}]

CmdRecord == [kind : {"command"}, name : NamePaths, hasArg : {"False", "True"}]

=============================================================================
