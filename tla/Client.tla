------------------------------- MODULE Client -------------------------------
(***************************************************************************)
(* The client state machine of client.c on top of the decoder of hdlc.c,   *)
(* used by one application, and a peer that sends frames to it.  The       *)
(* application hands hdlc_decode_recived_raw_data bytes that have come in, *)
(* a buffer at a time.  The decoder's state outlives that call, the call's *)
(* local variables do not.                                                 *)
(***************************************************************************)
EXTENDS HdlcParser

CONSTANTS
  ConnectTimeout,  \* what init_hdlc_client is given: 200 in the sketch
  UserData,        \* the payloads the application may send
  PeerMessage,     \* [control, data]: what the peer may send
  AnyCut,          \* may a buffer end in the middle of a frame?
  StaleByte,       \* what memory beyond a buffer may hold
  MaxPeer,         \* bound: frames the peer sends
  MaxWait          \* bound: how far the timeout counter runs below zero

SIZE_DATA_BUFFERS == 64

(* A longer payload would be filled up from client->frame_rej.             *)
ASSUME UserDataAssumption ==
  \A data \in UserData :
     /\ data \in Seq(Byte)
     /\ Len(data) \in 1 .. 4 \/ Len(data) > SIZE_DATA_BUFFERS
ASSUME TimeoutAssumption == ConnectTimeout \in 1 .. INT_MAX /\ MaxWait \in 0 .. INT_MAX
ASSUME BufferAssumption == AnyCut \in BOOLEAN /\ StaleByte \subseteq Byte

ASSUME PeerAssumption ==
  \A m \in PeerMessage : m.control \in Control /\ m.data \in Seq(Byte)

UNINITIALIZED_STATE == "UNINITIALIZED_STATE"
IDLE_STATE == "IDLE_STATE"
READY_STATE == "READY_STATE"
CONNECTING == "CONNECTING"
DISCONNECTING == "DISCONNECTING"
RECIVING == "RECIVING"

NoFrame == [frame |-> "none", seq_no |-> 0]  \* a frame member not yet written

VARIABLES
  client,        \* struct Client
  ret,           \* what the last call of the client returned
  recived_data,  \* the bytes stored through recived_data, in that order
  raw,           \* the bytes hdlc_get_raw_frame made last
  line,          \* bytes that have come in and have not been decoded
  asked,         \* history: the payload last accepted by hdlc_send_data
  connected,     \* history: hdlc_connect has been called
  heard,         \* history: the control fields the client acted on
  peerSent,      \* history: what the peer sent
  silent         \* history: handler time since a frame was last accepted

clientVars == <<client, ret, recived_data, raw, asked, connected, heard, silent>>
vars == <<parserVars, clientVars, line, peerSent>>

Init ==
  /\ ParserInit
  /\ client =
       [state |-> UNINITIALIZED_STATE, connecting_frame_timeout |-> 0,
        current_index_frame |-> 0, frameS |-> NoFrame, frameI |-> NoFrame,
        data_i_frame |-> 0, len_data_i_frame |-> 0, frame_rej |-> NoFrame]
  /\ ret = "none" /\ recived_data = <<>> /\ raw = <<>> /\ line = <<>>
  /\ asked = <<>> /\ connected = FALSE /\ heard = <<>> /\ peerSent = <<>>
  /\ silent = 0

Up == phase = "idle" /\ client.state # UNINITIALIZED_STATE
Control_(frame) == [frame |-> frame, seq_no |-> 0]

----------------------------------------------------------------------------
(* The index 20 is no 3-bit number: nothing can match it before a connect. *)
(* Mutant: the index starts at 0.                                          *)
InitIndexZero ==
  /\ phase = "idle" /\ client.state = UNINITIALIZED_STATE
  /\ client' = [client EXCEPT !.state = IDLE_STATE,
                              !.connecting_frame_timeout = ConnectTimeout,
                              !.current_index_frame = 0]
  /\ UNCHANGED <<parserVars, ret, recived_data, raw, line, asked, connected, heard,
                 peerSent, silent>>

init_hdlc_client ==
  /\ phase = "idle" /\ client.state = UNINITIALIZED_STATE
  /\ client' = [client EXCEPT !.state = IDLE_STATE,
                              !.connecting_frame_timeout = ConnectTimeout,
                              !.current_index_frame = 20]
  /\ UNCHANGED <<parserVars, ret, recived_data, raw, line, asked, connected, heard,
                 peerSent, silent>>

hdlc_connect ==
  /\ Up
  /\ client' = [client EXCEPT !.state = CONNECTING,
                              !.frameS = Control_(S_FRAME),
                              !.current_index_frame = 0]
  /\ connected' = TRUE
  /\ UNCHANGED <<parserVars, ret, recived_data, raw, line, asked, heard, peerSent, silent>>

(* The state is changed before the size is checked.                        *)
hdlc_send_data(data) ==
  /\ Up
  /\ \/ /\ client.state # READY_STATE
        /\ ret' = "ERR_INVALID_STATE"
        /\ UNCHANGED <<client, asked>>
     \/ /\ client.state = READY_STATE /\ Len(data) > SIZE_DATA_BUFFERS
        /\ client' = [client EXCEPT !.state = RECIVING]
        /\ ret' = "ERR_INVALID_DATA_SIZE"
        /\ UNCHANGED asked
     \/ /\ client.state = READY_STATE /\ Len(data) <= SIZE_DATA_BUFFERS
        /\ client' = [client EXCEPT !.state = RECIVING,
                                    !.frameI = Control_(I_FRAME),
                                    !.data_i_frame = data[1],
                                    !.len_data_i_frame = Len(data),
                                    !.current_index_frame = 0]
        /\ asked' = data
        /\ ret' = "0"
  /\ UNCHANGED <<parserVars, recived_data, raw, line, connected, heard, peerSent, silent>>

(* The payload is read from the address of the member data_i_frame, a      *)
(* pointer that holds the first payload byte: after its low byte come its  *)
(* high byte and the two bytes of len_data_i_frame.  Mutant: the pointer   *)
(* is stored high byte first.                                              *)
MemoryHighFirst ==
  <<0, client.data_i_frame,
    client.len_data_i_frame \div 256, client.len_data_i_frame % 256>>

Memory ==
  <<client.data_i_frame, 0,
    client.len_data_i_frame % 256, client.len_data_i_frame \div 256>>

(* The caller passes one of the frames it has been given.                  *)
Frames == {client.frameS, client.frameI, client.frame_rej} \ {NoFrame}

hdlc_get_raw_frame(frame) ==
  /\ Up
  /\ raw' = hdlc_frame_data(frame, SubSeq(Memory, 1, client.len_data_i_frame))
  /\ ret' = "0"
  /\ UNCHANGED <<parserVars, client, recived_data, line, asked, connected, heard,
                 peerSent, silent>>

----------------------------------------------------------------------------
(* hdlc_decode_recived_raw_data.  recv_control is a local variable that is *)
(* not initialised: it holds anything until the decoder writes it.         *)
hdlc_decode_recived_raw_data(buffer) ==
  /\ Up
  /\ \E stale \in StaleControl : GetData(buffer, stale, <<>>)
  /\ UNCHANGED <<clientVars, peerSent>>

(* The application passes what has come in, or the beginning of it.        *)
DecodeArrived(n) ==
  /\ n = Len(line) \/ AnyCut
  /\ hdlc_decode_recived_raw_data(SubSeq(line, 1, n))
  /\ line' = SubSeq(line, n + 1, Len(line))

DecodeError ==
  /\ \/ ReturnNoMessage /\ ret' = "-ENOMSG"
     \/ ReturnBadFrame /\ ret' = "-EIO"
  /\ UNCHANGED <<client, recived_data, raw, line, asked, connected, heard, peerSent, silent>>

Rejected == [client EXCEPT !.state = DISCONNECTING, !.frame_rej = Control_(S_FRAME_NACK)]

(* The number is not the expected one, or the frame is a NACK.             *)
DecodeReject ==
  /\ ReturnFrame
  /\ control.seq_no # client.current_index_frame \/ control.frame = S_FRAME_NACK
  /\ client' = Rejected
  /\ ret' = "ERR_INVALID_SEQ_NUMBER_FRAME"
  /\ heard' = Append(heard, control)
  /\ UNCHANGED <<recived_data, raw, line, asked, connected, peerSent, silent>>

(* The byte reported for an I-frame is buffer[3], the fourth byte of the   *)
(* buffer as it came in, whatever precedes the frame and is stuffed in it. *)
(* Mutant: the byte before it, the control field.                          *)
ReportedControl == IF Len(src) > 3 THEN {src[3]} ELSE StaleByte
ReportedByte == IF Len(src) > 3 THEN {src[4]} ELSE StaleByte

(* Mutant: an accepted frame does not start the timeout again.             *)
AcceptWithoutRearm ==
  /\ ReturnFrame
  /\ control.seq_no = client.current_index_frame
  /\ \/ /\ control.frame = S_FRAME
        /\ client' = [client EXCEPT !.state = READY_STATE]
        /\ UNCHANGED recived_data
     \/ /\ control.frame = I_FRAME
        /\ UNCHANGED client
        /\ \E byte \in ReportedByte : recived_data' = Append(recived_data, byte)
  /\ ret' = "0"
  /\ heard' = Append(heard, control)
  /\ silent' = 0
  /\ UNCHANGED <<raw, line, asked, connected, peerSent>>

DecodeAccept ==
  /\ ReturnFrame
  /\ control.seq_no = client.current_index_frame
  /\ \/ /\ control.frame = S_FRAME
        /\ client' = [client EXCEPT !.state = READY_STATE,
                                    !.connecting_frame_timeout = ConnectTimeout]
        /\ UNCHANGED recived_data
     \/ /\ control.frame = I_FRAME
        /\ client' = [client EXCEPT !.connecting_frame_timeout = ConnectTimeout]
        /\ \E byte \in ReportedByte : recived_data' = Append(recived_data, byte)
  /\ ret' = "0"
  /\ heard' = Append(heard, control)
  /\ silent' = 0
  /\ UNCHANGED <<raw, line, asked, connected, peerSent>>

(* One unit of time at a time, as the sketch and the harness pass it.      *)
hdlc_timeout_handler ==
  /\ Up
  /\ client.connecting_frame_timeout > -MaxWait
  /\ client' = [client EXCEPT !.connecting_frame_timeout = @ - 1]
  /\ silent' = silent + 1
  /\ ret' = IF client'.connecting_frame_timeout <= 0 THEN "ERR_FRAME_TIME_OUT" ELSE "0"
  /\ UNCHANGED <<parserVars, recived_data, raw, line, asked, connected, heard, peerSent>>

----------------------------------------------------------------------------
(* The peer sends a frame.  It arrives, or it is lost, or its start flag   *)
(* or its control field is changed on the way.  A frame without its end    *)
(* flag is one more frame in the middle of which a buffer may end.         *)
Arrivals(frame) ==
  {frame, <<>>, [frame EXCEPT ![1] = 0], [frame EXCEPT ![3] = 0]}

PeerSend(m) ==
  /\ Len(peerSent) < MaxPeer
  /\ peerSent' = Append(peerSent, m)
  /\ \E bytes \in Arrivals(hdlc_frame_data(m.control, m.data)) : line' = line \o bytes
  /\ UNCHANGED <<parserVars, clientVars>>

Next ==
  \/ init_hdlc_client
  \/ hdlc_connect
  \/ \E data \in UserData : hdlc_send_data(data)
  \/ \E frame \in Frames : hdlc_get_raw_frame(frame)
  \/ \E n \in 1 .. Len(line) : DecodeArrived(n)
  \/ Scan /\ UNCHANGED <<clientVars, line, peerSent>>
  \/ DecodeError
  \/ DecodeReject
  \/ DecodeAccept
  \/ hdlc_timeout_handler
  \/ \E m \in PeerMessage : PeerSend(m)

Spec == Init /\ [][Next]_vars

----------------------------------------------------------------------------
State == {UNINITIALIZED_STATE, IDLE_STATE, READY_STATE, CONNECTING, DISCONNECTING, RECIVING}
Frame == Control \cup {NoFrame}
Return ==
  {"none", "0", "-ENOMSG", "-EIO", "ERR_INVALID_STATE", "ERR_INVALID_DATA_SIZE",
   "ERR_INVALID_SEQ_NUMBER_FRAME", "ERR_FRAME_TIME_OUT"}

(* Every variable holds a value its C type can hold.                       *)
TypeOK ==
  /\ ParserTypeOK
  /\ client \in
       [state : State, connecting_frame_timeout : Int16,
        current_index_frame : Byte, frameS : Frame, frameI : Frame,
        data_i_frame : Byte, len_data_i_frame : 0 .. SIZE_DATA_BUFFERS,
        frame_rej : Frame]
  /\ ret \in Return
  /\ recived_data \in Seq(Byte) /\ raw \in Seq(Byte) /\ line \in Seq(Byte)
  /\ asked \in Seq(Byte) /\ connected \in BOOLEAN /\ heard \in Seq(Control)
  /\ peerSent \in Seq(PeerMessage) /\ silent \in Nat

SentControls == [k \in DOMAIN peerSent |-> peerSent[k].control]
Channel == INSTANCE FrameChannel WITH Message <- Control, sent <- SentControls, got <- heard

(* The control fields the client checks and acts on are those of frames    *)
(* the peer sent, in that order and none twice, as a lossy link promises:  *)
(* never what the variable recv_control held before the call (client.c:83, *)
(* ARCHITECTURE.md:80 "parse frames incrementally from one or more input   *)
(* chunks").                                                               *)
ActsOnWhatWasSent == Channel!Spec

(* The decoder writes only to bytes of recive, which is as long as the     *)
(* buffer (client.c:84; hdlc.h:53 asks for room for a whole frame).        *)
DestInsideRecive == phase # "idle" => DOMAIN dest \subseteq 0 .. Len(src) - 1

(* Data can be sent only after a call of hdlc_connect: no frame, whatever  *)
(* its number, makes a client ready that has not asked for a connection.   *)
ReadyNeedsConnect == client.state \in {READY_STATE, RECIVING} => connected

(* A timeout is reported only when the whole of the timeout has passed     *)
(* without a frame that the client accepted (client.c:115, 119-126).       *)
TimeoutMeansSilence == ret = "ERR_FRAME_TIME_OUT" => silent >= ConnectTimeout

FramesWithoutData ==
  {hdlc_frame_data(frame, <<>>) : frame \in {client.frameS, client.frame_rej} \ {NoFrame}}

(* ARCHITECTURE.md:97-100: hdlc_send_data prepares an I-frame with the     *)
(* caller's payload and hdlc_get_raw_frame serialises it: the bytes it     *)
(* makes for that frame are the frame of the payload last accepted.        *)
RawFrameCarriesPayload ==
  [][raw' \notin {raw} \cup FramesWithoutData
       => raw' = hdlc_frame_data(client.frameI, asked)]_vars

(* The byte stored through recived_data is the first payload byte that the *)
(* decoder recovered, when the frame begins with the buffer and that byte  *)
(* needed no stuffing: whatever cut, lost or damaged frame came before     *)
(* (client.c:105 takes it from the raw buffer, not from recive).           *)
FrameBeginsBuffer ==
  Len(src) > 3 /\ SubSeq(src, 1, 2) = <<HDLC_FLAG_SEQUENCE, HDLC_ALL_STATION_ADDR>>

ReportsPayload ==
  [][recived_data' # recived_data /\ FrameBeginsBuffer /\ src[4] # HDLC_CONTROL_ESCAPE
       => recived_data'[Len(recived_data')] = dest[0]]_vars

=============================================================================
