----------------------------- MODULE MCSelfCopy -----------------------------
(***************************************************************************)
(* SelfCopy for TLC: one worker that opens two streams.                    *)
(***************************************************************************)
EXTENDS SelfCopy

OneWorker == {"w"}
TwoStreams == {"s1", "s2"}
ByOneWorker == [s \in TwoStreams |-> "w"]
=============================================================================
