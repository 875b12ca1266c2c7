----------------------------- MODULE HdlcProofs -----------------------------
(***************************************************************************)
(* What holds of the decoder for every int size and every caller.          *)
(***************************************************************************)
EXTENDS HdlcReceiver, HdlcLemmas

----------------------------------------------------------------------------
(* A saved state is one the decoder was in between two calls.              *)
SavedBetweenCalls == saved \in HdlcState /\ Fresh(saved) /\ saved.end_index < 0

IInv == ParserInv /\ SavedBetweenCalls /\ calls \in Nat

(* Initially the decoder is fresh, whatever noise has gone by.             *)
LEMMA InitIInv == Init => IInv
<1> SUFFICES ASSUME Init PROVE IInv
  OBVIOUS
<1>1. ParserInv /\ phase = "idle"
  BY InitParserInv DEF Init, ParserInit
<1> QED
  BY <1>1 DEF Init, IInv, SavedBetweenCalls, ParserInv, ParserTypeOK, FreshBetweenFrames,
              EndOnlyAtFlag

(* The calls that touch only the state, between two calls of the decoder.  *)
LEMMA StateCallsIInv ==
  ASSUME IInv, hdlc_get_data_reset \/ hdlc_get_state \/ hdlc_set_state
  PROVE  IInv'
<1>1. CASE hdlc_get_data_reset
  <2>1. hdlc_state \in HdlcState
    BY DEF IInv, ParserInv, ParserTypeOK
  <2> QED
    BY <1>1, <2>1, ResetState
    DEF hdlc_get_data_reset, IInv, SavedBetweenCalls, ParserInv, ParserTypeOK,
        FreshBetweenFrames, EndOnlyAtFlag
<1>2. CASE hdlc_get_state
  <2>1. ParserInv'
    BY <1>2, ParserStutter DEF hdlc_get_state, IInv
  <2>2. SavedBetweenCalls' /\ calls' \in Nat
    BY <1>2
    DEF hdlc_get_state, IInv, SavedBetweenCalls, ParserInv, ParserTypeOK,
        FreshBetweenFrames, Fresh, EndOnlyAtFlag
  <2> QED
    BY <2>1, <2>2 DEF IInv
<1>3. CASE hdlc_set_state
  BY <1>3
  DEF hdlc_set_state, IInv, SavedBetweenCalls, ParserInv, ParserTypeOK,
      FreshBetweenFrames, Fresh, EndOnlyAtFlag
<1> QED
  BY <1>1, <1>2, <1>3

LEMMA NextIInv == IInv /\ [Next]_vars => IInv'
<1> SUFFICES ASSUME IInv, [Next]_vars PROVE IInv'
  OBVIOUS
<1>1. ASSUME NEW chunk \in Chunk, Call(chunk) PROVE IInv'
  <2>1. /\ chunk \in Seq(Byte) /\ control \in Control
        /\ DOMAIN dest \subseteq Int16 /\ \A k \in DOMAIN dest : dest[k] \in Byte
    BY ChunkAssumption DEF IInv, ParserInv, ParserTypeOK
  <2>2. ParserInv'
    BY <1>1, <2>1, GetDataInv DEF Call, IInv
  <2> QED
    BY <1>1, <2>2 DEF Call, IInv, SavedBetweenCalls, Fresh
<1>2. CASE Decode
  <2>1. ParserInv'
    BY <1>2, ScanInv, ReturnInv DEF Decode, IInv
  <2> QED
    BY <1>2, <2>1 DEF Decode, IInv, SavedBetweenCalls, Fresh
<1>3. CASE UNCHANGED vars
  BY <1>3, ParserStutter DEF vars, IInv, SavedBetweenCalls, Fresh
<1> QED
  BY <1>1, <1>2, <1>3, StateCallsIInv DEF Next

THEOREM Invariance == Spec => []IInv
  BY InitIInv, NextIInv, PTL DEF Spec

----------------------------------------------------------------------------
(* Every variable of the decoder keeps its C type, for every int size, every *)
(* chunk and every sequence of calls: in particular the running fcs stays    *)
(* 16 bits wide and control holds a control field.                           *)
THEOREM TypeCorrect == Spec => []TypeOK
<1>1. IInv => TypeOK
  BY DEF IInv, ParserInv, SavedBetweenCalls, TypeOK
<1> QED
  BY <1>1, Invariance, PTL

(* Whatever the caller does between calls (save, restore, reset, or nothing) *)
(* and whatever noise went by, a frame is always opened on a clean slate.    *)
THEOREM Freshness == Spec => []FreshBetweenFrames
<1>1. IInv => FreshBetweenFrames
  BY DEF IInv, ParserInv
<1> QED
  BY <1>1, Invariance, PTL

(* The return value always points at the closing flag of the frame.          *)
THEOREM FlagIsKept == Spec => []KeptByteIsFlag
<1>1. IInv => KeptByteIsFlag
  BY FlagKept DEF IInv
<1> QED
  BY <1>1, Invariance, PTL

=============================================================================
