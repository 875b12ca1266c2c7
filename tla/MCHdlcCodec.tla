---------------------------- MODULE MCHdlcCodec ----------------------------
(***************************************************************************)
(* An instance of HdlcCodec for TLC.                                       *)
(***************************************************************************)
EXTENDS HdlcCodec

(* Every control field there is.                                           *)
MCHeader == Control

(* Any byte first, which uses every entry of the table, then bytes that    *)
(* need stuffing, their stuffed forms, the extremes and the single bits.   *)
MCDataByte == <<Byte, {0, 93, 94, 125, 126, 255} \cup {2 ^ k : k \in 0 .. 7}>>

=============================================================================
