---------------------------- MODULE MC_DaqStream ----------------------------
(* Instantiates DaqStream for TLC: one application thread, three frames,  *)
(* two connections, and a device that may accept on the last port of the  *)
(* scan (8099) or just past it (8100).                                    *)
EXTENDS DaqStream

MCMaxFrames == 3
MCMaxConnects == 2
MCBasePort == 8090
MCDevicePorts == {8099, 8100}
=============================================================================
