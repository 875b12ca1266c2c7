----------------------------- MODULE HdlcParser -----------------------------
(***************************************************************************)
(* The incremental decoder hdlc_get_data_with_state of hdlc.c, one action  *)
(* per branch of its loop body and one per way of returning.  hdlc_state   *)
(* outlives a call; control and dest belong to the caller.  A module that  *)
(* EXTENDS this one is the caller: it starts a call with GetData and ends  *)
(* it with ReturnNoMessage, ReturnBadFrame or ReturnFrame.                 *)
(***************************************************************************)
EXTENDS Hdlc

CONSTANTS
  INT_MAX,      \* the largest int of the build: 32767 on the ATmega328P
  Passed,       \* how many noise bytes earlier calls may have passed over
  StaleControl  \* what the caller's control variable may hold at first

ASSUME IntMaxAssumption == INT_MAX \in Nat /\ INT_MAX >= 7
ASSUME PassedAssumption == Passed \subseteq 0 .. INT_MAX
ASSUME StaleControlAssumption == StaleControl \subseteq Control

VARIABLES
  hdlc_state,  \* struct hdlc_state_t, static in hdlc.c
  control,     \* *control
  dest,        \* the caller's dest buffer: index |-> byte, where written
  src,         \* the chunk of the current call
  i,           \* the loop index
  phase        \* "idle" between calls, "scan" in the loop, "return" after break

parserVars == <<hdlc_state, control, dest, src, i, phase>>

Int16 == (-INT_MAX - 1) .. INT_MAX

(* A sum that overflows int wraps, as the AVR's 16-bit addition does; a    *)
(* negative int converted to size_t, unsigned and as wide, wraps too.      *)
Wrap(n) == IF n > INT_MAX THEN n - 2 * (INT_MAX + 1) ELSE n
SizeT(n) == IF n < 0 THEN n + 2 * (INT_MAX + 1) ELSE n

FcsSize == 2  \* sizeof(FCS_SIZE)

(* The reset before the next frame.  Mutants: a pending escape survives    *)
(* it; the place of the next data byte does.                               *)
ResetKeepsEscape(state) ==
  [state EXCEPT !.fcs = FCS_INIT_VALUE, !.start_index = -1, !.end_index = -1,
                !.src_index = 0, !.dest_index = 0]

ResetKeepsDestIndex(state) ==
  [state EXCEPT !.fcs = FCS_INIT_VALUE, !.start_index = -1, !.end_index = -1,
                !.src_index = 0, !.control_escape = FALSE]

hdlc_get_data_reset_with_state(state) ==
  [state EXCEPT !.fcs = FCS_INIT_VALUE, !.start_index = -1, !.end_index = -1,
                !.src_index = 0, !.dest_index = 0, !.control_escape = FALSE]

(* The static initialiser of hdlc_state, and what noise without a flag     *)
(* leaves of it: src_index counts the bytes passed over.                   *)
ParserInit ==
  /\ \E n \in Passed :
       hdlc_state = [control_escape |-> FALSE, fcs |-> FCS_INIT_VALUE,
                     start_index |-> -1, end_index |-> -1,
                     src_index |-> n, dest_index |-> 0]
  /\ control \in StaleControl
  /\ dest = <<>>
  /\ src = <<>>
  /\ i = 0
  /\ phase = "idle"

----------------------------------------------------------------------------
(* The caller passes a chunk and its control and dest variables.           *)
GetData(chunk, callerControl, callerDest) ==
  /\ phase = "idle"
  /\ phase' = "scan"
  /\ src' = chunk
  /\ i' = 0
  /\ control' = callerControl
  /\ dest' = callerDest
  /\ UNCHANGED hdlc_state

Scanning == phase = "scan" /\ i < Len(src)
InFrame == hdlc_state.start_index >= 0
Here == src[i + 1]
AtFlag == Here = HDLC_FLAG_SEQUENCE
FlagFollows == i < Len(src) - 1 /\ src[i + 2] = HDLC_FLAG_SEQUENCE
JustOpened == Wrap(hdlc_state.start_index + 1) = hdlc_state.src_index

Advance(state) ==
  /\ i' = i + 1
  /\ hdlc_state' = [state EXCEPT !.src_index = Wrap(@ + 1)]
  /\ UNCHANGED <<src, phase>>

(* Bytes before any start flag are passed over.                            *)
SkipNoise ==
  /\ Scanning /\ ~InFrame /\ ~AtFlag
  /\ Advance(hdlc_state)
  /\ UNCHANGED <<control, dest>>

(* A flag next to another one is dropped, and src_index does not count it. *)
RedundantFlag == FlagFollows \/ (InFrame /\ JustOpened)
DiscardFlag ==
  /\ Scanning /\ AtFlag /\ RedundantFlag
  /\ i' = i + 1
  /\ UNCHANGED <<hdlc_state, control, dest, src, phase>>

OpenFrame ==
  /\ Scanning /\ ~InFrame /\ AtFlag /\ ~RedundantFlag
  /\ Advance([hdlc_state EXCEPT !.start_index = hdlc_state.src_index])
  /\ UNCHANGED <<control, dest>>

(* The break: the closing flag itself is not consumed.  Mutant: it is.     *)
ConsumeClosingFlag ==
  /\ Scanning /\ InFrame /\ AtFlag /\ ~RedundantFlag
  /\ hdlc_state' = [hdlc_state EXCEPT !.end_index = hdlc_state.src_index]
  /\ phase' = "return"
  /\ i' = i + 1
  /\ UNCHANGED <<control, dest, src>>

CloseFrame ==
  /\ Scanning /\ InFrame /\ AtFlag /\ ~RedundantFlag
  /\ hdlc_state' = [hdlc_state EXCEPT !.end_index = hdlc_state.src_index]
  /\ phase' = "return"
  /\ UNCHANGED <<control, dest, src, i>>

EscapeByte ==
  /\ Scanning /\ InFrame /\ Here = HDLC_CONTROL_ESCAPE
  /\ Advance([hdlc_state EXCEPT !.control_escape = TRUE])
  /\ UNCHANGED <<control, dest>>

(* Any other byte: undo the stuffing, fold it into the fcs, and use it     *)
(* according to its distance from the start flag: the control field is two *)
(* bytes on, the data come after it.                                       *)
Value == IF hdlc_state.control_escape THEN Flip20(Here) ELSE Here
ControlIndex == Wrap(hdlc_state.start_index + 2)
IsControl == hdlc_state.src_index = ControlIndex
IsData == hdlc_state.src_index > ControlIndex
TakeByte ==
  /\ Scanning /\ InFrame /\ ~AtFlag /\ Here # HDLC_CONTROL_ESCAPE
  /\ control' = IF IsControl THEN hdlc_get_control_type(Value) ELSE control
  /\ dest' = IF IsData
             THEN [k \in DOMAIN dest \cup {hdlc_state.dest_index} |->
                     IF k = hdlc_state.dest_index THEN Value ELSE dest[k]]
             ELSE dest
  /\ Advance([hdlc_state EXCEPT
                !.control_escape = FALSE,
                !.fcs = calc_fcs(@, Value),
                !.dest_index = IF IsData THEN Wrap(@ + 1) ELSE @])

----------------------------------------------------------------------------
(* The three ways out of the call.                                         *)
Returning == phase = "return" \/ (phase = "scan" /\ i = Len(src))
FrameFound == hdlc_state.start_index >= 0 /\ hdlc_state.end_index >= 0

(* The length is the distance of the flags.  Mutant: no fcs comparison.    *)
LengthOnly == hdlc_state.end_index >= Wrap(hdlc_state.start_index + 4)
FrameValid ==
  /\ hdlc_state.end_index >= Wrap(hdlc_state.start_index + 4)
  /\ hdlc_state.fcs = FCS_GOOD_VALUE

(* *dest_len of a valid frame.  Mutant: its fcs counts as data.            *)
FcsInData == SizeT(hdlc_state.dest_index)
DataLength == SizeT(hdlc_state.dest_index - FcsSize)

LeaveCall(state) ==
  /\ phase' = "idle"
  /\ hdlc_state' = state
  /\ src' = <<>>
  /\ i' = 0
  /\ UNCHANGED <<control, dest>>

(* -ENOMSG: the state is kept for the next chunk.  Mutant: it is not.      *)
ForgetPartialFrame ==
  /\ Returning /\ ~FrameFound
  /\ LeaveCall(hdlc_get_data_reset_with_state(hdlc_state))

ReturnNoMessage == Returning /\ ~FrameFound /\ LeaveCall(hdlc_state)

(* -EIO                                                                    *)
ReturnBadFrame ==
  /\ Returning /\ FrameFound /\ ~FrameValid
  /\ LeaveCall(hdlc_get_data_reset_with_state(hdlc_state))

(* Success.                                                                *)
ReturnFrame ==
  /\ Returning /\ FrameFound /\ FrameValid
  /\ LeaveCall(hdlc_get_data_reset_with_state(hdlc_state))

Scan ==
  \/ SkipNoise \/ DiscardFlag \/ OpenFrame \/ CloseFrame \/ EscapeByte \/ TakeByte

----------------------------------------------------------------------------
HdlcState ==
  [control_escape : BOOLEAN, fcs : FcsValue, start_index : Int16,
   end_index : Int16, src_index : Int16, dest_index : Int16]

(* Every variable of the decoder holds a value its C type can hold.        *)
ParserTypeOK ==
  /\ hdlc_state \in HdlcState
  /\ control \in Control
  /\ DOMAIN dest \subseteq Int16 /\ \A k \in DOMAIN dest : dest[k] \in Byte
  /\ src \in Seq(Byte)
  /\ i \in 0 .. Len(src)
  /\ phase \in {"idle", "scan", "return"}

(* Between frames the decoder holds no byte, no running fcs and no pending *)
(* escape, so nothing of an earlier frame, of one that was given up or of  *)
(* noise can leak into the next (hdlc.c:206).                              *)
Fresh(state) ==
  state.start_index < 0 =>
     /\ state.fcs = FCS_INIT_VALUE
     /\ ~state.control_escape
     /\ state.dest_index = 0

FreshBetweenFrames == Fresh(hdlc_state)

(* The byte from which the caller is told to go on after a frame, good or  *)
(* bad, is the flag that closed it: that flag may open the next frame      *)
(* (hdlc.h:56 "size of returned value should be discarded").               *)
KeptByteIsFlag == Returning /\ FrameFound => i < Len(src) /\ AtFlag

(* hdlc.c:193 "A frame is at least 4 bytes in size": a frame that is       *)
(* accepted has an address, a control field and two bytes of fcs, so the   *)
(* two bytes taken off dest_index were written.                            *)
AcceptedFramesAreWhole ==
  Returning /\ FrameFound /\ FrameValid => hdlc_state.dest_index >= FcsSize

=============================================================================
