------------------------------- MODULE Sketch -------------------------------
(***************************************************************************)
(* main of sketch_sep19a.ino over the client, the decoder and the          *)
(* transmit ring: it connects, sends its data, and shows the reply.  The   *)
(* two loops that wait have the same shape; loop says which one it is.     *)
(* UART_receive is one step, as UartRx promises it.  What happens outside  *)
(* main is put where main looks at what it changes: bytes leave the        *)
(* transmit ring before UART_send starts to copy and when it finds the     *)
(* ring full, and the peer sends before UART_receive.                      *)
(***************************************************************************)
EXTENDS Client, UartTx

CONSTANTS
  TimerStarted,  \* does some other code call timerInit?
  SEND,          \* a state the sketch names and client.h does not define
  SendSize,      \* sizeof buffer, buffer_data: 10 and 72 bytes
  ReceiveSize,   \* sizeof buffer_recive, buffer_recive_data: 20 and 144
  RejectSize,    \* sizeof buffer_rej: 20
  MaxHeard       \* bound: frames acted on in a turn that is not the last

Loop == {"connect", "data"}

ASSUME TimerAssumption == TimerStarted \in BOOLEAN
ASSUME SendStateAssumption == SEND \in State \ {READY_STATE}
ASSUME SizeAssumption ==
  SendSize \in [Loop -> Nat] /\ ReceiveSize \in [Loop -> Nat] /\ RejectSize \in Nat
  /\ MaxHeard \in Nat

VARIABLES
  pc,             \* where main is
  back,           \* where it goes on after UART_send
  loop,           \* which loop it is in, or about to enter
  buffer_recive,  \* the array of that loop
  shown           \* history: the bytes handed to protocol_decode and printLcd

mainVars == <<pc, back, loop, buffer_recive, shown>>
sketchVars == <<vars, txVars, mainVars>>

(* An array of the stack before it is written: any bytes, or what the      *)
(* array of the loop before it left in the same place.                     *)
StackArrays(size, before) ==
  {[k \in 1 .. size |-> b] : b \in StaleByte}
    \cup {[k \in 1 .. size |-> IF k <= Len(before) THEN before[k] ELSE b] : b \in StaleByte}

SketchInit ==
  /\ Init
  /\ TxInit
  /\ pc = "setup" /\ back = "receive" /\ loop = "connect"
  /\ buffer_recive \in StackArrays(ReceiveSize["connect"], <<>>)
  /\ shown = <<>>

----------------------------------------------------------------------------
(* UART_init and Lcd_inciliation come first; neither starts the timer.     *)
Setup ==
  /\ pc = "setup" /\ pc' = "connect"
  /\ init_hdlc_client
  /\ UNCHANGED <<txVars, back, loop, buffer_recive, shown>>

Connect ==
  /\ pc = "connect" /\ pc' = "frame"
  /\ hdlc_connect
  /\ UNCHANGED <<txVars, back, loop, buffer_recive, shown>>

(* sizeof the array is sent, whatever the length of the frame in it.  What *)
(* lies behind the frame was never written; here it is 0, as nobody reads  *)
(* it.                                                                     *)
InArray(frame, size) == [k \in 1 .. size |-> IF k <= Len(frame) THEN frame[k] ELSE 0]

Transmit(frame, size, next) ==
  /\ hdlc_get_raw_frame(frame)
  /\ UART_send(InArray(raw', size))
  /\ pc' = "send" /\ back' = next
  /\ UNCHANGED <<loop, buffer_recive, shown>>

(* The frame made ready last, at first and after a timeout.                *)
TransmitPrepared ==
  /\ pc = "frame"
  /\ Transmit(IF loop = "connect" THEN client.frameS ELSE client.frameI,
              SendSize[loop], "receive")

TransmitReject ==
  /\ pc = "reject"
  /\ Transmit(client.frame_rej, RejectSize, "return")

Copy ==
  /\ pc = "send" /\ ~CopyEnds
  /\ CopyByte
  /\ UNCHANGED <<vars, mainVars>>

EndSend ==
  /\ pc = "send" /\ pc' = back
  /\ SendReturns
  /\ UNCHANGED <<vars, back, loop, buffer_recive, shown>>

(* UART_receive returns what has come in before the line paused; how much  *)
(* it is main does not ask, and the array keeps what it held behind it.    *)
Receive ==
  /\ pc = "receive" /\ pc' = "timeout"
  /\ TimerStarted /\ Len(heard) < MaxHeard
  /\ \E n \in 0 .. Len(line) :
       /\ n \in {0, Len(line)} \/ AnyCut
       /\ buffer_recive' =
            [k \in 1 .. ReceiveSize[loop] |-> IF k <= n THEN line[k] ELSE buffer_recive[k]]
       /\ line' = SubSeq(line, n + 1, Len(line))
  /\ UNCHANGED <<parserVars, clientVars, peerSent, txVars, back, loop, shown>>

CheckTimeout ==
  /\ pc = "timeout"
  /\ hdlc_timeout_handler
  /\ pc' = IF ret' = "ERR_FRAME_TIME_OUT" THEN "frame" ELSE "decode"
  /\ UNCHANGED <<txVars, back, loop, buffer_recive, shown>>

Decode ==
  /\ pc = "decode" /\ pc' = "decoding"
  /\ hdlc_decode_recived_raw_data(buffer_recive)
  /\ UNCHANGED <<line, txVars, back, loop, buffer_recive, shown>>

Decoding ==
  /\ pc = "decoding"
  /\ Scan
  /\ UNCHANGED <<clientVars, line, peerSent, txVars, mainVars>>

(* Every negative result but one ends main.                                *)
DecodingFails ==
  /\ pc = "decoding" /\ pc' = "return"
  /\ DecodeError
  /\ UNCHANGED <<txVars, back, loop, buffer_recive, shown>>

DecodingRejects ==
  /\ pc = "decoding" /\ pc' = "reject"
  /\ DecodeReject
  /\ UNCHANGED <<txVars, back, loop, buffer_recive, shown>>

(* What the loop waits for.  Mutant: the reply is taken for one whatever   *)
(* it was.                                                                 *)
AnyFrameEnds == loop = "data" \/ client'.state = READY_STATE
LoopEnds == client'.state = IF loop = "connect" THEN READY_STATE ELSE SEND

DecodingAccepts ==
  /\ pc = "decoding"
  /\ DecodeAccept
  /\ pc' = IF ~LoopEnds THEN "receive" ELSE IF loop = "connect" THEN "data" ELSE "print"
  /\ UNCHANGED <<txVars, back, loop, buffer_recive, shown>>

(* What protocol_encode made is passed on; the result is not looked at.    *)
SendData ==
  /\ pc = "data" /\ pc' = "frame"
  /\ \E bytes \in UserData : hdlc_send_data(bytes)
  /\ loop' = "data"
  /\ buffer_recive' \in StackArrays(ReceiveSize["data"], buffer_recive)
  /\ UNCHANGED <<txVars, back, shown>>

(* The client has stored one byte, and the length one.                     *)
Display ==
  /\ pc = "print" /\ pc' = "return"
  /\ shown' = Append(shown, recived_data[Len(recived_data)])
  /\ UNCHANGED <<vars, txVars, back, loop, buffer_recive>>

Main ==
  \/ Setup \/ Connect \/ TransmitPrepared \/ TransmitReject \/ Copy \/ EndSend
  \/ Receive \/ CheckTimeout \/ Decode \/ Decoding
  \/ DecodingFails \/ DecodingRejects \/ DecodingAccepts
  \/ SendData \/ Display

ShiftOut ==
  /\ pc = "send" /\ (copied = 0 \/ buffer_full(usartTxBuffer))
  /\ USART_UDRE_vect
  /\ UNCHANGED <<vars, mainVars>>

PeerActs ==
  /\ pc \in {"receive", "return"}
  /\ \E m \in PeerMessage : PeerSend(m)
  /\ UNCHANGED <<txVars, mainVars>>

SketchNext == Main \/ ShiftOut \/ PeerActs

(* Nothing blocks main for ever while the timer runs; nothing is promised  *)
(* of the peer.                                                            *)
SketchSpec == SketchInit /\ [][SketchNext]_sketchVars /\ WF_sketchVars(Main)

----------------------------------------------------------------------------
Label ==
  {"setup", "connect", "frame", "send", "reject", "receive", "timeout", "decode",
   "decoding", "data", "print", "return"}

(* Every variable has its type.                                            *)
SketchTypeOK ==
  /\ TypeOK /\ TxTypeOK
  /\ pc \in Label /\ back \in {"receive", "return"} /\ loop \in Loop
  /\ buffer_recive \in [1 .. ReceiveSize[loop] -> Byte]
  /\ shown \in Seq(Byte)

(* The stages of the exchange main goes through.  A turn of either loop,   *)
(* with the frame sent before it, is one stage.                            *)
Waits ==
  \/ pc \in {"frame", "receive", "timeout", "decode", "decoding"}
  \/ pc = "send" /\ back = "receive"

StageOfMain ==
  CASE pc \in {"setup", "connect"}      -> "down"
    [] Waits /\ loop = "connect"        -> "asked"
    [] pc = "data"                      -> "confirmed"
    [] Waits /\ loop = "data"           -> "used"
    [] pc = "print"                     -> "answered"
    [] pc = "return" /\ shown # <<>>    -> "shown"
    [] OTHER                            -> "given up"

Agreed == INSTANCE Exchange
            WITH Heard <- Control, Ready <- S_FRAME, Information <- I_FRAME,
                 stage <- StageOfMain, heard <- heard

(* main does not send data before it has heard a ready frame, shows        *)
(* nothing before it has heard an information frame after that, and stops  *)
(* at a reject: although it looks neither at how much it has received nor  *)
(* at what hdlc_send_data says (ino:31, 68, 79).                           *)
ImplementsExchange == Agreed!Spec

(* Whatever the arrays hold behind the bytes that have come in, main acts  *)
(* on no control field that the peer has not sent (ino:40, 88 decode the   *)
(* whole of an array that is never cleared).                               *)
HeardWasSent == \A k \in DOMAIN heard : \E j \in DOMAIN peerSent : heard[k] = peerSent[j].control

(* The transmit ring always has room for the frame at the start of the     *)
(* array, if not for the array: only a reject of main's data loop may find *)
(* it full of the array sent before (ino:72, uart.c:21).                   *)
FramesLeaveWhole ==
  [][EndSend => copied >= Len(raw) \/ (loop = "data" /\ back = "return")]_sketchVars

(* Neither loop ever reports a timeout: a turn ends in a frame that is     *)
(* accepted, which starts the timeout again, or in the end of main.  So    *)
(* what main would do after a timeout (ino:34-38, 82-86) is never done.    *)
NeverTimesOut == ret # "ERR_FRAME_TIME_OUT"

Holds(m) ==
  LET frame == hdlc_frame_data(m.control, m.data)
  IN  SubSeq(buffer_recive, 1, Len(frame)) = frame

(* An answer that is there when main looks makes it ready.                 *)
AnswerConnects ==
  (pc = "timeout" /\ loop = "connect" /\ Holds([control |-> Control_(S_FRAME), data |-> <<>>]))
     ~> client.state = READY_STATE

(* A reply that is there when main looks is shown, provided no further     *)
(* answer has taken the client back to READY_STATE before (ino:99).        *)
ReplyThere ==
  /\ pc = "timeout" /\ loop = "data" /\ client.state = SEND
  /\ buffer_recive[4] \notin {HDLC_FLAG_SEQUENCE, HDLC_CONTROL_ESCAPE}
  /\ Holds([control |-> Control_(I_FRAME), data |-> <<buffer_recive[4]>>])

ReplyIsShown == ReplyThere ~> shown = <<buffer_recive[4]>>

----------------------------------------------------------------------------
(* A peer that answers once the connect frame is in the transmit ring, or  *)
(* after main has ended: main cannot hope for more.                        *)
Answer ==
  /\ pc \in {"receive", "return"} /\ peerSent = <<>>
  /\ \E m \in PeerMessage :
       /\ m.control = Control_(S_FRAME)
       /\ PeerSend(m)
       /\ line' = line \o hdlc_frame_data(m.control, m.data)
  /\ UNCHANGED <<txVars, mainVars>>

AnsweringSpec == SketchSpec /\ WF_sketchVars(Answer)

(* README.md:66-67 "the board sends an S-frame and waits for the peer's    *)
(* acknowledgement, retransmitting on timeout, until it reaches the READY  *)
(* state".                                                                 *)
Connects == <>(client.state = READY_STATE)

=============================================================================
