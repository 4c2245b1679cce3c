---------------------------- MODULE MC_StoreSync ----------------------------
(* Instantiates StoreSync for TLC: one or two rows, two values, a few      *)
(* seconds. Two rows let one row's later timestamp make a pass return     *)
(* rows while the other row's write sits at the edge of the window.       *)
EXTENDS StoreSync

MCIds == {"gain"}
MCIds2 == {"gain", "bias"}
MCValues == {"v1", "v2"}
=============================================================================
