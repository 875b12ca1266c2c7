----------------------------- MODULE HdlcCodec -----------------------------
(***************************************************************************)
(* The calculations of the frame encoder against what they are meant to    *)
(* compute.  A frame grows by one payload byte at a time; fcs is the       *)
(* register of hdlc_frame_data after the bytes so far.                     *)
(***************************************************************************)
EXTENDS Hdlc, Division, FiniteSets

CONSTANTS
  Header,   \* the control fields tried
  DataByte  \* DataByte[k]: the bytes tried as the k-th of a payload

ASSUME HeaderAssumption == Header \subseteq Control
ASSUME DataByteAssumption == DataByte \in Seq(SUBSET Byte)

VARIABLES header, data, fcs

vars == <<header, data, fcs>>

Init ==
  /\ header \in Header
  /\ data = <<>>
  /\ fcs = FoldLeft(calc_fcs, FCS_INIT_VALUE, FrameBody(header, <<>>))

(* One turn of the payload loop of hdlc_frame_data.                        *)
AddByte(b) ==
  /\ header.frame = I_FRAME
  /\ data' = Append(data, b)
  /\ fcs' = calc_fcs(fcs, b)
  /\ UNCHANGED header

Next ==
  /\ Len(data) < Len(DataByte)
  /\ \E b \in DataByte[Len(data) + 1] : AddByte(b)

Spec == Init /\ [][Next]_vars

----------------------------------------------------------------------------
(* The table-driven register is the remainder of the CRC-16/CCITT division *)
(* of the address, control and payload bytes: one wrong entry of the 256   *)
(* in fcs.c would go unnoticed by two stations built from the same table.  *)
FcsIsRemainder == Bits(fcs) = Crc(FrameBody(header, data))

(* Whatever the frame, its own trailer drives the register to 0xF0B8, the  *)
(* value the decoder compares with (hdlc.c:195).                           *)
TrailerLeavesResidue ==
  FoldLeft(calc_fcs, fcs, FcsTrailer(fcs)) = FCS_GOOD_VALUE

(* Between the flags of a frame there is no flag, every escape byte is     *)
(* followed by a byte that stands for a flag or an escape, and removing    *)
(* the stuffing gives the body and its fcs back.                           *)
Transparent ==
  LET frame == hdlc_frame_data(header, data)
      inner == SubSeq(frame, 2, Len(frame) - 1)
      Escapes == {k \in DOMAIN inner : inner[k] = HDLC_CONTROL_ESCAPE}
      plain == [k \in DOMAIN inner |->
                  IF k \in Escapes THEN <<>>
                  ELSE IF k - 1 \in Escapes THEN <<Flip20(inner[k])>>
                  ELSE <<inner[k]>>]
  IN  /\ \A k \in DOMAIN inner : inner[k] # HDLC_FLAG_SEQUENCE
      /\ \A k \in Escapes :
           /\ k < Len(inner)
           /\ Flip20(inner[k + 1]) \in {HDLC_FLAG_SEQUENCE, HDLC_CONTROL_ESCAPE}
      /\ FlattenSeq(plain) = FrameBody(header, data) \o FcsTrailer(fcs)

(* The control byte of a frame is read back as the control it was made     *)
(* from, although the two directions use different bits per frame type.    *)
ControlSurvives ==
  hdlc_get_control_type(hdlc_frame_control_type(header)) = header

=============================================================================
