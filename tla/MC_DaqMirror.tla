---------------------------- MODULE MC_DaqMirror ----------------------------
(* Instantiates DaqMirror for TLC: the device reports RunState and one    *)
(* other path, with two values; messages of up to two leaves.             *)
EXTENDS DaqMirror, TLC

MCPaths == {"RunState", "Temp"}
MCValues == {"v1", "v2"}

\* the reader threads are interchangeable (safety runs only)
Sym == Permutations(Readers)
=============================================================================
