------------------------------ MODULE MC_RceScan ------------------------------
(* Instantiates RceScan for TLC: three hosts, which rce_talk lists as    *)
(* three RCEs; a device on the last port of the scan, sport+9, or on     *)
(* sport+10, just past it; documents with one status section of one     *)
(* element two levels deep or two leaves with text, named board or gain;  *)
(* two target names.                                                      *)
EXTENDS RceScan

MCNames == {"board", "gain"}
MCIndexes == {"", "2"}
MCTexts == {"7"}
MCHosts == <<"dpm0", "dpm1", "dpm2">>
\* what rce_talk lists: CERN-1, CERN-10 and CERN-2, as tokens
MCRceList == <<[RCE |-> <<"CERN-", "1">>, IP |-> "dpm0"],
               [RCE |-> <<"CERN-", "1", "0">>, IP |-> "dpm1"],
               [RCE |-> <<"CERN-", "2">>, IP |-> "dpm2"]>>
\* no host argument, one RCE, or two in an order other than the list's
MCHostArgs == {<<>>, <<<<"CERN-", "2">>>>, <<<<"CERN-", "1", "0">>, <<"CERN-", "2">>>>}
\* and CERN-1, whose name is part of CERN-10's
MCHostArgsPrefix == MCHostArgs \cup {<<<<"CERN-", "1">>>>}
MCDevicePorts == {8099, 8100}
MCVarList == <<"gain", "board">>

Doc(ks) == P!Elem("system", P!NoIndex, <<P!Elem("status", P!NoIndex, ks)>>)

\* an element whose child element has its own name
Nested(e) == e.kids # <<>> /\ P!IsElement(e.kids[1]) /\ e.kids[1].name = e.name

MCAllDocs ==
  {Doc(<<e>>) : e \in P!E2}
  \cup {Doc(<<a, b>>) : a, b \in {P!Elem(n, P!NoIndex, <<P!Text(t)>>) : n \in Names, t \in Texts}}

\* the register maps of the device: no block holds a block of its own name
MCDocs == {d \in MCAllDocs : ~Nested(d.kids[1].kids[1])}
=============================================================================
