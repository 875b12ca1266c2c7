------------------------------ MODULE MCClient ------------------------------
(***************************************************************************)
(* Instances of Client for TLC.                                            *)
(***************************************************************************)
EXTENDS Client

MCPassed == {0}
MCStaleControl == {[frame |-> S_FRAME, seq_no |-> 0], [frame |-> I_FRAME, seq_no |-> 5]}
MCStaleByte == {0}

Info(n, data) == [control |-> [frame |-> I_FRAME, seq_no |-> n], data |-> data]
Ready(n) == [control |-> [frame |-> S_FRAME, seq_no |-> n], data |-> <<>>]
Nack == [control |-> [frame |-> S_FRAME_NACK, seq_no |-> 0], data |-> <<>>]

(* Payloads of one byte, of which the flag must be stuffed, and one that   *)
(* is refused; answers in sequence and out of it.                          *)
ShortUserData == {<<126>>, <<1>>, [k \in 1 .. 65 |-> 0]}
MCPeerMessage == {Ready(0), Ready(4), Nack, Info(0, <<11>>), Info(0, <<9, 126, 7>>), Info(4, <<12>>)}

(* An answer.                                                              *)
ReadyMessage == {Ready(0)}

=============================================================================
