--------------------------- MODULE MCHdlcReceiver ---------------------------
(***************************************************************************)
(* Instances of HdlcReceiver for TLC.                                      *)
(***************************************************************************)
EXTENDS HdlcReceiver

MCStaleControl == {[frame |-> I_FRAME, seq_no |-> 5]}
MCPassed == {0, INT_MAX - 1}

(* A whole frame, one with a wrong fcs, one cut in two within an escape    *)
(* sequence, noise with an escape in it, flags alone.                      *)
GoodFrame == hdlc_frame_data([frame |-> I_FRAME, seq_no |-> 2], <<126>>)
MCChunk ==
  {GoodFrame, <<126, 255, 1, 2, 3, 126>>,
   SubSeq(GoodFrame, 1, 4), SubSeq(GoodFrame, 5, Len(GoodFrame)),
   <<125, 0>>, <<126, 126>>}

(* All that a disturbance of up to five bytes may leave.                   *)
Disturbance == {0, 32, 125, 126}
ShortChunk == UNION {[1 .. n -> Disturbance] : n \in 0 .. 5}
NothingPassed == {0}

=============================================================================
