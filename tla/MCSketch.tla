------------------------------ MODULE MCSketch ------------------------------
(***************************************************************************)
(* Instances of Sketch for TLC.  The arrays are shorter than those of the  *)
(* sketch; the one sent in the data loop is still longer than the ring,    *)
(* the one the connect loop receives in holds two frames.                  *)
(***************************************************************************)
EXTENDS Sketch

MCPassed == {0}
MCStaleControl == {[frame |-> S_FRAME, seq_no |-> 0]}
MCStaleByte == {0, 126}

MCSendSize == [connect |-> 8, data |-> 16]
MCReceiveSize == [connect |-> 13, data |-> 10]

Info(n, bytes) == [control |-> [frame |-> I_FRAME, seq_no |-> n], data |-> bytes]
Ready0 == [control |-> [frame |-> S_FRAME, seq_no |-> 0], data |-> <<>>]

MCUserData == {<<1>>}
MCPeerMessage == {Ready0, Info(0, <<11>>), Info(4, <<12>>)}
OneAnswer == {Ready0}

=============================================================================
