---------------------------- MODULE HdlcReceiver ----------------------------
(***************************************************************************)
(* The decoder under any caller of hdlc.h: chunks of any bytes, a reset at *)
(* any time between calls, and the state saved with hdlc_get_state and put *)
(* back later with hdlc_set_state.                                         *)
(***************************************************************************)
EXTENDS HdlcParser

CONSTANTS
  Chunk,    \* what a call of hdlc_get_data may be given
  MaxCalls  \* bound: calls of hdlc_get_data

ASSUME ChunkAssumption == Chunk \subseteq Seq(Byte)

VARIABLES
  saved,  \* the caller's copy of the decoder state
  calls   \* calls made so far

vars == <<parserVars, saved, calls>>

Init == ParserInit /\ saved = hdlc_state /\ calls = 0

Call(chunk) ==
  /\ calls < MaxCalls
  /\ calls' = calls + 1
  /\ GetData(chunk, control, dest)
  /\ UNCHANGED saved

(* hdlc_get_data_reset between two calls.                                  *)
hdlc_get_data_reset ==
  /\ phase = "idle"
  /\ hdlc_state' = hdlc_get_data_reset_with_state(hdlc_state)
  /\ UNCHANGED <<control, dest, src, i, phase, saved, calls>>

hdlc_get_state ==
  /\ phase = "idle"
  /\ saved' = hdlc_state
  /\ UNCHANGED <<parserVars, calls>>

hdlc_set_state ==
  /\ phase = "idle"
  /\ hdlc_state' = saved
  /\ UNCHANGED <<control, dest, src, i, phase, saved, calls>>

Decode ==
  /\ Scan \/ ReturnNoMessage \/ ReturnBadFrame \/ ReturnFrame
  /\ UNCHANGED <<saved, calls>>

Next ==
  \/ \E chunk \in Chunk : Call(chunk)
  \/ hdlc_get_data_reset
  \/ hdlc_get_state
  \/ hdlc_set_state
  \/ Decode

Spec == Init /\ [][Next]_vars

----------------------------------------------------------------------------
(* Every variable holds a value its C type can hold.                       *)
TypeOK == ParserTypeOK /\ saved \in HdlcState /\ calls \in Nat

=============================================================================
