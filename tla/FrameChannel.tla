----------------------------- MODULE FrameChannel -----------------------------
(***************************************************************************)
(* What the stream transport of DaqClient promises its reader (spec 4.1,   *)
(* 4.7): a channel from the device to rxMessage() that carries frames in  *)
(* the order the device sent them, never twice and never one that was not *)
(* sent. Frames may be lost: the connection may be given up with frames   *)
(* still on it, and a frame that does not parse reaches no one.           *)
(***************************************************************************)
EXTENDS Naturals, Sequences, SequencesExt

CONSTANTS MaxFrames   \* frames the device sends over a whole behaviour

VARIABLES
  sent,       \* frames the device has written so far (frame k is the k-th)
  pending,    \* frames on their way, oldest first
  delivered   \* frames handed to the reader, in order

vars == <<sent, pending, delivered>>

Init ==
  /\ sent = 0
  /\ pending = <<>>
  /\ delivered = <<>>

\* the device writes the next frame; written to a dead connection it is lost
Send ==
  /\ sent < MaxFrames
  /\ sent' = sent + 1
  /\ pending' \in {Append(pending, sent + 1), pending}
  /\ UNCHANGED delivered

\* the oldest frame on its way reaches the reader
Deliver ==
  /\ pending # <<>>
  /\ delivered' = Append(delivered, Head(pending))
  /\ pending' = Tail(pending)
  /\ UNCHANGED sent

\* some of the frames on their way are lost; the others keep their order
Lose ==
  /\ \E gone \in SUBSET ToSet(pending) \ {{}} :
       pending' = SelectSeq(pending, LAMBDA f : f \notin gone)
  /\ UNCHANGED <<sent, delivered>>

Next == Send \/ Deliver \/ Lose

Spec == Init /\ [][Next]_vars

=============================================================================
