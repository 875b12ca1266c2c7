-------------------------------- MODULE Hdlc --------------------------------
(***************************************************************************)
(* The functions of hdlc.c that keep no state: the control byte, byte      *)
(* stuffing and hdlc_frame_data.  The incremental decoder is HdlcParser.   *)
(***************************************************************************)
EXTENDS Fcs, Sequences, SequencesExt

HDLC_FLAG_SEQUENCE == 126     \* 0x7E
HDLC_CONTROL_ESCAPE == 125    \* 0x7D
HDLC_ALL_STATION_ADDR == 255  \* 0xFF

I_FRAME == "I_FRAME"
S_FRAME == "S_FRAME"
S_FRAME_NACK == "S_FRAME_NACK"

(* hdlc_control_t: seq_no is a 3-bit field.                                *)
Control == [frame : {I_FRAME, S_FRAME, S_FRAME_NACK}, seq_no : 0 .. 7]

----------------------------------------------------------------------------
(* Bit 0 tells S-frames from I-frames; bits 2-3 of an S-frame say receive  *)
(* ready (0) or, for anything else, NACK; the number is in bits 5-7 of an  *)
(* S-frame and in bits 1-3 of an I-frame.  Without the 3-bit field seq_no  *)
(* (the mutant UnmaskedControlType) the poll bit would be left in it.      *)
UnmaskedControlType(control) ==
  IF control % 2 = 1
  THEN [frame  |-> IF (control \div 4) % 4 = 0 THEN S_FRAME ELSE S_FRAME_NACK,
        seq_no |-> control \div 32]
  ELSE [frame |-> I_FRAME, seq_no |-> control \div 2]

hdlc_get_control_type(control) ==
  IF control % 2 = 1
  THEN [frame  |-> IF (control \div 4) % 4 = 0 THEN S_FRAME ELSE S_FRAME_NACK,
        seq_no |-> control \div 32]
  ELSE [frame |-> I_FRAME, seq_no |-> (control \div 2) % 8]

(* The inverse: an I-frame carries the poll bit (16), a NACK the reject    *)
(* type (2 << 2).  Mutant: the reject type is forgotten.                   *)
NoRejectType(control) ==
  CASE control.frame = I_FRAME      -> 2 * control.seq_no + 16
    [] control.frame = S_FRAME      -> 32 * control.seq_no + 1
    [] control.frame = S_FRAME_NACK -> 32 * control.seq_no + 1

hdlc_frame_control_type(control) ==
  CASE control.frame = I_FRAME      -> 2 * control.seq_no + 16
    [] control.frame = S_FRAME      -> 32 * control.seq_no + 1
    [] control.frame = S_FRAME_NACK -> 32 * control.seq_no + 9

(* value ^ 0x20                                                            *)
Flip20(value) == IF (value \div 32) % 2 = 1 THEN value - 32 ELSE value + 32

(* Mutant: the escape byte itself is not escaped.                          *)
EscapeFlagOnly(value) ==
  IF value = HDLC_FLAG_SEQUENCE
  THEN <<HDLC_CONTROL_ESCAPE, Flip20(value)>>
  ELSE <<value>>

hdlc_escape_value(value) ==
  IF value \in {HDLC_FLAG_SEQUENCE, HDLC_CONTROL_ESCAPE}
  THEN <<HDLC_CONTROL_ESCAPE, Flip20(value)>>
  ELSE <<value>>

Stuffed(bytes) == FlattenSeq([k \in DOMAIN bytes |-> hdlc_escape_value(bytes[k])])

----------------------------------------------------------------------------
(* The inverted fcs, low byte first, that closes a frame.  Mutant: the     *)
(* high byte first.                                                        *)
BigEndianTrailer(fcs) ==
  LET inverted == FCS_INVERT_MASK - fcs IN <<inverted \div 256, inverted % 256>>

FcsTrailer(fcs) ==
  LET inverted == FCS_INVERT_MASK - fcs IN <<inverted % 256, inverted \div 256>>

(* The bytes between the flags, before stuffing: only an I-frame has data. *)
FrameBody(control, data) ==
  LET head == <<HDLC_ALL_STATION_ADDR, hdlc_frame_control_type(control)>>
  IN  IF control.frame = I_FRAME THEN head \o data ELSE head

hdlc_frame_data(control, data) ==
  LET body == FrameBody(control, data)
      fcs  == FoldLeft(calc_fcs, FCS_INIT_VALUE, body)
      flag == <<HDLC_FLAG_SEQUENCE>>
  IN  flag \o Stuffed(body \o FcsTrailer(fcs)) \o flag

=============================================================================
