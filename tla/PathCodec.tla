------------------------------ MODULE PathCodec ------------------------------
(***************************************************************************)
(* The markup side of DaqClient (daq_client.py): how rxMessage() and the   *)
(* recursive findConfigStatus() flatten a parsed document into the path -> *)
(* value maps _status/_config with their counters, and how sendConfig()    *)
(* and sendCommand() nest a colon-separated path into markup.              *)
(*                                                                         *)
(* A parsed document is a tree of element and text nodes. A path string   *)
(* "board(2):gain" is the sequence of its segments; the code builds it by  *)
(* concatenation, which the operators below follow segment by segment.    *)
(* An index of "" stands for no index attribute (getAttribute returns "").*)
(* The operators are pure; ClientRx applies them to the mirror.           *)
(***************************************************************************)
EXTENDS Naturals, Sequences, SequencesExt, TLC

CONSTANTS
  Names,     \* element names the device uses below a category
  Indexes,   \* index attribute values; "" is no attribute
  Texts      \* leaf texts (non-empty: an empty element has no text node)

NoIndex == ""
Categories == {"status", "config"}

Text(t) == [type |-> "text", text |-> t]
Elem(n, i, ks) == [type |-> "element", name |-> n, index |-> i, kids |-> ks]
IsElement(nd) == nd.type = "element"

Seg(n, i) == [name |-> n, index |-> i]

-----------------------------------------------------------------------------
(* findConfigStatus(xmlType, pathIn, node): the updates it makes, in       *)
(* document order, as <<path, value>> pairs.                               *)

\* path = path + "(" + attr + ")": the index attaches to the last segment
WithIndex(path, attr) ==
  IF path = <<>> THEN <<Seg("", attr)>>
  ELSE [path EXCEPT ![Len(path)].index = attr]

\* mutant: the index is dropped from the path
NodePathNoIndex(pathIn, node) ==
  IF node.name \in Categories THEN <<>> ELSE Append(pathIn, Seg(node.name, NoIndex))

\* mutant: only the name test of the category root is lost (every element adds a segment)
NodePathNoReset(pathIn, node) ==
  LET path == Append(pathIn, Seg(node.name, NoIndex))
  IN IF node.index # NoIndex THEN WithIndex(path, node.index) ELSE path

\* the path of node: a category element resets it to "", wherever it is
NodePath(pathIn, node) ==
  LET path == IF node.name \in Categories THEN <<>>
              ELSE Append(pathIn, Seg(node.name, NoIndex))
  IN IF node.index # NoIndex THEN WithIndex(path, node.index) ELSE path

RECURSIVE FindConfigStatus(_, _), WalkKids(_, _)

\* the for item in node.childNodes loop: element children, in order
WalkKids(path, ks) ==
  IF ks = <<>> THEN <<>>
  ELSE (IF IsElement(Head(ks)) THEN FindConfigStatus(path, Head(ks)) ELSE <<>>)
       \o WalkKids(path, Tail(ks))

(* A node with element children recurses; one without is a leaf, recorded *)
(* only when it has exactly one child node (its text).                    *)
FindConfigStatus(pathIn, node) ==
  LET path == NodePath(pathIn, node) IN
  IF \E k \in DOMAIN node.kids : IsElement(node.kids[k])
    THEN WalkKids(path, node.kids)
  ELSE IF Len(node.kids) = 1
    THEN <<<<path, node.kids[1].text>>>>
  ELSE <<>>

\* self._status[path] = value for each update; a later update of a path wins
ApplyUpdates(m, ups) == FoldLeft(LAMBDA acc, u : (u[1] :> u[2]) @@ acc, m, ups)

-----------------------------------------------------------------------------
(* sendConfig(path, value) / sendCommand(path, arg): for each segment      *)
(* re.split('\(|\)') gives the name and the index; the segments nest, the  *)
(* value is the innermost text. str(value) of "" would give no text node.  *)

TextKids(v) == IF v = "" THEN <<>> ELSE <<Text(v)>>

RECURSIVE Nest(_, _)
Nest(segs, v) ==
  IF segs = <<>> THEN TextKids(v)
  ELSE <<Elem(Head(segs).name, Head(segs).index, Nest(Tail(segs), v))>>

\* mutant: the index attribute goes on the element inside the one it belongs to
RECURSIVE NestShifted(_, _, _)
NestShifted(segs, v, idx) ==
  IF segs = <<>> THEN TextKids(v)
  ELSE <<Elem(Head(segs).name, idx, NestShifted(Tail(segs), v, Head(segs).index))>>

EncodeConfigShifted(segs, v) ==
  Elem("system", NoIndex, <<Elem("config", NoIndex, NestShifted(segs, v, NoIndex))>>)

\* <system><config> ... value ... </config></system>
EncodeConfig(segs, v) ==
  Elem("system", NoIndex, <<Elem("config", NoIndex, Nest(segs, v))>>)

\* sendCommand(''...) sends <arg/>; otherwise the path nests around arg
EncodeCommand(segs, arg) ==
  Elem("system", NoIndex,
       <<Elem("command", NoIndex,
              IF segs = <<>> THEN <<Elem(arg, NoIndex, <<>>)>> ELSE Nest(segs, arg))>>)

-----------------------------------------------------------------------------
(* The category sections the device may send: one element up to three    *)
(* levels deep or two up to two levels, each element a leaf with text, an *)
(* empty element, or the parent of one element.                            *)

Shapes(sub) ==
  {Elem(n, i, <<Text(t)>>) : n \in Names, i \in Indexes, t \in Texts}
  \cup {Elem(n, i, <<>>) : n \in Names, i \in Indexes}
  \cup {Elem(n, i, <<e>>) : n \in Names, i \in Indexes, e \in sub}

E1 == Shapes({})
E2 == Shapes(E1)
E3 == Shapes(E2)

Sections ==
  {Elem(c, NoIndex, ks) : c \in Categories, ks \in {<<e>> : e \in E3} \cup {<<a, b>> : a, b \in E2}}

SegSeqs == {<<s>> : s \in {Seg(n, i) : n \in Names, i \in Indexes}}
           \cup {<<s, t>> : s, t \in {Seg(n, i) : n \in Names, i \in Indexes}}

-----------------------------------------------------------------------------
\* sendConfig(path, value) and sendCommand(path, arg) calls with a path
Writes == [cat : {"config", "command"}, path : SegSeqs, value : Texts]

Encode(w) ==
  IF w.cat = "config" THEN EncodeConfig(w.path, w.value)
  ELSE EncodeCommand(w.path, w.value)

-----------------------------------------------------------------------------
(* The reference flattening of the spec (4.3): the path of an element is   *)
(* parent_path : name[(index)], the category root contributing no         *)
(* segment; an element without element children is a leaf, recorded when  *)
(* it has a single text child.                                             *)

RECURSIVE SpecLeaves(_, _)
SpecLeaves(prefix, node) ==
  LET path == Append(prefix, Seg(node.name, node.index))
      elems == SelectSeq(node.kids, IsElement)
  IN IF elems # <<>>
       THEN FoldLeft(LAMBDA acc, e : acc \o SpecLeaves(path, e), <<>>, elems)
     ELSE IF Len(node.kids) = 1 /\ ~IsElement(node.kids[1])
       THEN <<<<path, node.kids[1].text>>>>
     ELSE <<>>

\* the leaves of one category section, in document order
SpecSection(sec) ==
  FoldLeft(LAMBDA acc, e : acc \o SpecLeaves(<<>>, e), <<>>, SelectSeq(sec.kids, IsElement))

-----------------------------------------------------------------------------
SegSet == {Seg(n, i) : n \in Names \cup {""}, i \in Indexes}

=============================================================================
