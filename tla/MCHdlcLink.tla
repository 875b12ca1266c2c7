----------------------------- MODULE MCHdlcLink -----------------------------
(***************************************************************************)
(* An instance of HdlcLink for TLC.                                        *)
(***************************************************************************)
EXTENDS HdlcLink

Ctl(frame, seq_no) == [frame |-> frame, seq_no |-> seq_no]
Ack == [control |-> Ctl(S_FRAME, 0), data |-> <<>>]
Stuffing == [control |-> Ctl(I_FRAME, 3), data |-> <<125, 126>>]
Reject == [control |-> Ctl(S_FRAME_NACK, 7), data |-> <<>>]

MCStaleControl == {Ctl(I_FRAME, 5)}

(* An acknowledgement, a data frame whose payload needs stuffing, a NACK.  *)
MCMessage == {Ack, Stuffing, Reject}
MCPassed == {0}
MCNoiseByte == {0, 125, 126}
MCLead == {<<>>, <<0, 125>>}
MCChunkSize == {0, 1, 4}

=============================================================================
