------------------------------ MODULE MCUartRx ------------------------------
(***************************************************************************)
(* An instance of UartRx for TLC: a counter of two bytes of four values    *)
(* each, about to carry, and a ring of three slots.                        *)
(***************************************************************************)
EXTENDS UartRx

MCStartTime == {2}
MCLength == {1, 2}

=============================================================================
