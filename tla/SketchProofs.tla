---------------------------- MODULE SketchProofs ----------------------------
(***************************************************************************)
(* What holds of the client and of the main program that calls it.  The    *)
(* theorems about Spec are those of the client alone: for every int size,  *)
(* timeout, payload and answer, and however the line is cut into buffers.  *)
(* The theorems about SketchSpec are those of main, for every timeout,     *)
(* answer and size of its arrays; main only calls the client, so each of   *)
(* its steps keeps the client's invariant.                                 *)
(***************************************************************************)
EXTENDS Sketch, HdlcLemmas

----------------------------------------------------------------------------
(* What the steps rely on: client has the members of struct Client, and    *)
(* only an initialised client decodes.                                     *)
Members ==
  client = [state |-> client.state,
            connecting_frame_timeout |-> client.connecting_frame_timeout,
            current_index_frame |-> client.current_index_frame,
            frameS |-> client.frameS, frameI |-> client.frameI,
            data_i_frame |-> client.data_i_frame,
            len_data_i_frame |-> client.len_data_i_frame,
            frame_rej |-> client.frame_rej]

ClientShape ==
  /\ Members
  /\ client.connecting_frame_timeout \in Int
  /\ phase # "idle" => client.state # UNINITIALIZED_STATE
  /\ line \in Seq(Byte)
  /\ silent \in Nat

(* Before a connect the index is one that no frame can carry.              *)
Unconnected ==
  ~connected => /\ client.state \notin {READY_STATE, RECIVING}
                /\ client.state # UNINITIALIZED_STATE => client.current_index_frame = 20

(* What is left of the timeout is what the silence has not used up.        *)
TimeoutAccount ==
  /\ client.state = UNINITIALIZED_STATE => ret = "none" /\ silent = 0
  /\ client.state # UNINITIALIZED_STATE =>
       client.connecting_frame_timeout + silent = ConnectTimeout
  /\ TimeoutMeansSilence

IInv == ParserInv /\ ClientShape /\ Unconnected /\ TimeoutAccount

LEMMA InitIInv == Init => IInv
<1> SUFFICES ASSUME Init PROVE IInv
  OBVIOUS
<1>1. ParserInv /\ phase = "idle"
  BY InitParserInv DEF Init, ParserInit
<1>2. ClientShape
  BY <1>1 DEF Init, ClientShape, Members
<1> QED
  BY <1>1, <1>2
  DEF Init, IInv, Unconnected, TimeoutAccount, TimeoutMeansSilence, UNINITIALIZED_STATE,
      READY_STATE, RECIVING

----------------------------------------------------------------------------
(* A control field carries a number of three bits, never 20.               *)
LEMMA NumberBelow20 ==
  ASSUME ParserTypeOK
  PROVE  control.seq_no \in 0 .. 7 /\ control.seq_no # 20
BY DEF ParserTypeOK, Control

(* Whatever becomes of a frame on the way, bytes come out.                 *)
LEMMA ArrivalType ==
  ASSUME NEW m \in PeerMessage, NEW bytes \in Arrivals(hdlc_frame_data(m.control, m.data))
  PROVE  bytes \in Seq(Byte)
<1> DEFINE frame == hdlc_frame_data(m.control, m.data)
<1>1. frame \in Seq(Byte)
  BY PeerAssumption, FrameShape
<1> HIDE DEF frame
<1>2. PICK n \in Nat : frame \in [1 .. n -> Byte]
  BY <1>1, SeqDef
<1> 0 \in Byte
  BY DEF Byte
<1>3. \A k \in Nat : [frame EXCEPT ![k] = 0] \in [1 .. n -> Byte]
  BY <1>2
<1>4. \A k \in Nat : [frame EXCEPT ![k] = 0] \in Seq(Byte)
  BY <1>3, SeqDef
<1>5. bytes \in {frame, <<>>, [frame EXCEPT ![1] = 0], [frame EXCEPT ![3] = 0]}
  BY DEF Arrivals, frame
<1> QED
  BY <1>1, <1>4, <1>5

(* A step that leaves the account of silence and timeout alone.            *)
Untimed ==
  /\ client'.connecting_frame_timeout = client.connecting_frame_timeout
  /\ client.state # UNINITIALIZED_STATE /\ client'.state # UNINITIALIZED_STATE
  /\ silent' = silent
  /\ ret' # ret => ret' # "ERR_FRAME_TIME_OUT"

LEMMA UntimedAccount == TimeoutAccount /\ Untimed => TimeoutAccount'
BY DEF TimeoutAccount, Untimed, TimeoutMeansSilence

(* The calls that leave the decoder alone, one by one.                     *)
LEMMA InitClientIInv ==
  ASSUME IInv, init_hdlc_client
  PROVE  IInv'
<1>1. ParserInv'
  BY ParserStutter DEF IInv, init_hdlc_client
<1>2. /\ client' = [client EXCEPT !.state = IDLE_STATE,
                                 !.connecting_frame_timeout = ConnectTimeout,
                                 !.current_index_frame = 20]
      /\ client.state = UNINITIALIZED_STATE /\ UNCHANGED <<ret, phase, connected, silent, line>>
  BY DEF init_hdlc_client, parserVars
<1>3. ret = "none" /\ silent = 0 /\ ConnectTimeout \in Int
  BY <1>2, TimeoutAssumption DEF IInv, TimeoutAccount
<1>4. /\ Members' /\ client'.state = IDLE_STATE
      /\ client'.connecting_frame_timeout = ConnectTimeout
      /\ client'.current_index_frame = 20
  BY <1>2 DEF IInv, ClientShape, Members
<1>5. ClientShape'
  BY <1>2, <1>3, <1>4 DEF IInv, ClientShape, IDLE_STATE, UNINITIALIZED_STATE
<1> QED
  BY <1>1, <1>2, <1>3, <1>4, <1>5
  DEF IInv, Unconnected, TimeoutAccount, TimeoutMeansSilence, UNINITIALIZED_STATE,
      IDLE_STATE, READY_STATE, RECIVING

LEMMA ConnectIInv ==
  ASSUME IInv, hdlc_connect
  PROVE  IInv'
<1>1. ParserInv'
  BY ParserStutter DEF IInv, hdlc_connect
<1>2. /\ client' = [client EXCEPT !.state = CONNECTING, !.frameS = Control_(S_FRAME),
                                 !.current_index_frame = 0]
      /\ client.state # UNINITIALIZED_STATE /\ connected'
      /\ UNCHANGED <<ret, phase, silent, line>>
  BY DEF hdlc_connect, Up, parserVars
<1>3. /\ Members' /\ client'.state = CONNECTING
      /\ client'.connecting_frame_timeout = client.connecting_frame_timeout
  BY <1>2 DEF IInv, ClientShape, Members
<1>4. ClientShape' /\ Untimed
  BY <1>2, <1>3 DEF IInv, ClientShape, Untimed, CONNECTING, UNINITIALIZED_STATE
<1> QED
  BY <1>1, <1>2, <1>4, UntimedAccount DEF IInv, Unconnected

LEMMA SendIInv ==
  ASSUME IInv, NEW data \in UserData, hdlc_send_data(data)
  PROVE  IInv'
<1>1. ParserInv'
  BY ParserStutter DEF IInv, hdlc_send_data
<1>2. /\ client.state # UNINITIALIZED_STATE
      /\ UNCHANGED <<phase, silent, line, connected>>
      /\ ret' # "ERR_FRAME_TIME_OUT"
  BY DEF hdlc_send_data, Up, parserVars
<1>3. CASE client.state # READY_STATE
  <2>1. client' = client
    BY <1>3 DEF hdlc_send_data
  <2>2. ClientShape' /\ Untimed /\ Unconnected'
    BY <1>2, <2>1 DEF IInv, ClientShape, Members, Untimed, Unconnected
  <2> QED
    BY <1>1, <2>2, UntimedAccount DEF IInv
<1>4. CASE client.state = READY_STATE
  <2>1. \/ client' = [client EXCEPT !.state = RECIVING]
        \/ client' = [client EXCEPT !.state = RECIVING,
                                    !.frameI = Control_(I_FRAME),
                                    !.data_i_frame = data[1],
                                    !.len_data_i_frame = Len(data),
                                    !.current_index_frame = 0]
    BY <1>4 DEF hdlc_send_data
  <2>2. /\ Members' /\ client'.state = RECIVING
        /\ client'.connecting_frame_timeout = client.connecting_frame_timeout
    BY <2>1 DEF IInv, ClientShape, Members
  <2>3. ClientShape' /\ Untimed
    BY <1>2, <2>2 DEF IInv, ClientShape, Untimed, RECIVING, UNINITIALIZED_STATE
  <2>4. Unconnected'
    BY <1>2, <1>4 DEF IInv, Unconnected
  <2> QED
    BY <1>1, <2>3, <2>4, UntimedAccount DEF IInv
<1> QED
  BY <1>3, <1>4

LEMMA RawFrameIInv ==
  ASSUME IInv, NEW frame, hdlc_get_raw_frame(frame)
  PROVE  IInv'
<1>1. ParserInv'
  BY ParserStutter DEF IInv, hdlc_get_raw_frame
<1>2. /\ UNCHANGED <<client, phase, silent, line, connected>> /\ ret' = "0"
      /\ client.state # UNINITIALIZED_STATE
  BY DEF hdlc_get_raw_frame, Up, parserVars
<1>3. ClientShape' /\ Untimed /\ Unconnected'
  BY <1>2 DEF IInv, ClientShape, Members, Untimed, Unconnected
<1> QED
  BY <1>1, <1>3, UntimedAccount DEF IInv

LEMMA TimeoutIInv ==
  ASSUME IInv, hdlc_timeout_handler
  PROVE  IInv'
<1>1. ParserInv'
  BY ParserStutter DEF IInv, hdlc_timeout_handler
<1>2. /\ client' = [client EXCEPT !.connecting_frame_timeout =
                                  client.connecting_frame_timeout - 1]
      /\ client.state # UNINITIALIZED_STATE /\ silent' = silent + 1
      /\ ret' = "ERR_FRAME_TIME_OUT" => client'.connecting_frame_timeout <= 0
      /\ UNCHANGED <<phase, line, connected>>
  BY DEF hdlc_timeout_handler, Up, parserVars
<1>3. /\ Members' /\ client'.state = client.state
      /\ client'.connecting_frame_timeout = client.connecting_frame_timeout - 1
      /\ client'.current_index_frame = client.current_index_frame
  BY <1>2 DEF IInv, ClientShape, Members
<1>4. ClientShape' /\ Unconnected'
  BY <1>2, <1>3 DEF IInv, ClientShape, Unconnected
<1>5. TimeoutAccount'
  BY <1>2, <1>3, TimeoutAssumption
  DEF IInv, ClientShape, TimeoutAccount, TimeoutMeansSilence
<1> QED
  BY <1>1, <1>4, <1>5 DEF IInv

----------------------------------------------------------------------------
(* A buffer is handed to the decoder.                                      *)
LEMMA DecodeCallIInv ==
  ASSUME IInv, NEW n \in 1 .. Len(line), DecodeArrived(n)
  PROVE  IInv'
<1>1. line \in Seq(Byte)
  BY DEF IInv, ClientShape
<1>2. SubSeq(line, 1, n) \in Seq(Byte) /\ SubSeq(line, n + 1, Len(line)) \in Seq(Byte)
  BY <1>1
<1>3. PICK stale \in StaleControl : GetData(SubSeq(line, 1, n), stale, <<>>)
  BY DEF DecodeArrived, hdlc_decode_recived_raw_data
<1> DEFINE noBytes == <<>>
<1> stale \in Control /\ DOMAIN noBytes = {}
  BY StaleControlAssumption
<1> HIDE DEF noBytes
<1>4. ParserInv'
  BY <1>2, <1>3, GetDataInv DEF IInv, noBytes
<1>5. /\ UNCHANGED <<client, ret, silent, connected>> /\ client.state # UNINITIALIZED_STATE
      /\ line' = SubSeq(line, n + 1, Len(line))
  BY DEF DecodeArrived, hdlc_decode_recived_raw_data, Up, clientVars
<1>6. ClientShape' /\ Untimed /\ Unconnected'
  BY <1>2, <1>5 DEF IInv, ClientShape, Members, Untimed, Unconnected
<1> QED
  BY <1>4, <1>6, UntimedAccount DEF IInv

LEMMA ScanIInv ==
  ASSUME IInv, Scan, UNCHANGED <<clientVars, line>>
  PROVE  IInv'
<1>1. ParserInv'
  BY ScanInv DEF IInv
<1>2. phase # "idle" /\ client.state # UNINITIALIZED_STATE
  BY DEF Scan, SkipNoise, DiscardFlag, OpenFrame, CloseFrame, EscapeByte, TakeByte,
         Scanning, IInv, ClientShape
<1>3. UNCHANGED <<client, ret, silent, connected, line>>
  BY DEF clientVars
<1>4. ClientShape' /\ Untimed /\ Unconnected'
  BY <1>2, <1>3 DEF IInv, ClientShape, Members, Untimed, Unconnected
<1> QED
  BY <1>1, <1>4, UntimedAccount DEF IInv

(* A return leaves the decoder idle, and was a call of a running client.   *)
LEMMA ReturnIdle ==
  ASSUME IInv, ReturnNoMessage \/ ReturnBadFrame \/ ReturnFrame
  PROVE  phase' = "idle" /\ client.state # UNINITIALIZED_STATE /\ ParserInv'
<1>1. ParserInv'
  BY ReturnInv DEF IInv
<1> QED
  BY <1>1
  DEF ReturnNoMessage, ReturnBadFrame, ReturnFrame, LeaveCall, Returning, IInv, ClientShape

LEMMA DecodeErrorIInv ==
  ASSUME IInv, DecodeError
  PROVE  IInv'
<1>1. /\ phase' = "idle" /\ client.state # UNINITIALIZED_STATE /\ ParserInv'
      /\ UNCHANGED <<client, silent, connected, line>> /\ ret' # "ERR_FRAME_TIME_OUT"
  BY ReturnIdle DEF DecodeError
<1>2. ClientShape' /\ Untimed /\ Unconnected'
  BY <1>1 DEF IInv, ClientShape, Members, Untimed, Unconnected
<1> QED
  BY <1>1, <1>2, UntimedAccount DEF IInv

LEMMA DecodeRejectIInv ==
  ASSUME IInv, DecodeReject
  PROVE  IInv'
<1>1. /\ phase' = "idle" /\ client.state # UNINITIALIZED_STATE /\ ParserInv'
      /\ UNCHANGED <<silent, connected, line>> /\ ret' # "ERR_FRAME_TIME_OUT"
      /\ client' = [client EXCEPT !.state = DISCONNECTING,
                                  !.frame_rej = Control_(S_FRAME_NACK)]
  BY ReturnIdle DEF DecodeReject, Rejected
<1>2. /\ Members' /\ client'.state = DISCONNECTING
      /\ client'.connecting_frame_timeout = client.connecting_frame_timeout
      /\ client'.current_index_frame = client.current_index_frame
  BY <1>1 DEF IInv, ClientShape, Members
<1>3. ClientShape' /\ Untimed /\ Unconnected'
  BY <1>1, <1>2
  DEF IInv, ClientShape, Untimed, Unconnected, UNINITIALIZED_STATE, DISCONNECTING,
      READY_STATE, RECIVING
<1> QED
  BY <1>1, <1>3, UntimedAccount DEF IInv

(* Here the two numbers meet: the one of the frame, of three bits, and the *)
(* index, 20 unless the client has been told to connect.                   *)
LEMMA DecodeAcceptIInv ==
  ASSUME IInv, DecodeAccept
  PROVE  IInv'
<1>1. /\ phase' = "idle" /\ client.state # UNINITIALIZED_STATE /\ ParserInv'
      /\ UNCHANGED <<connected, line>> /\ silent' = 0 /\ ret' = "0"
      /\ control.seq_no = client.current_index_frame
      /\ \/ client' = [client EXCEPT !.state = READY_STATE,
                                     !.connecting_frame_timeout = ConnectTimeout]
         \/ client' = [client EXCEPT !.connecting_frame_timeout = ConnectTimeout]
  BY ReturnIdle DEF DecodeAccept
<1>2. connected
  BY <1>1, NumberBelow20 DEF IInv, ParserInv, Unconnected
<1>3. /\ Members' /\ client'.state \in {client.state, READY_STATE}
      /\ client'.connecting_frame_timeout = ConnectTimeout
  BY <1>1 DEF IInv, ClientShape, Members
<1>4. ClientShape' /\ client'.state # UNINITIALIZED_STATE
  BY <1>1, <1>3, TimeoutAssumption
  DEF IInv, ClientShape, UNINITIALIZED_STATE, READY_STATE
<1>5. TimeoutAccount'
  BY <1>1, <1>3, <1>4, TimeoutAssumption DEF TimeoutAccount, TimeoutMeansSilence
<1> QED
  BY <1>1, <1>2, <1>4, <1>5 DEF IInv, Unconnected

LEMMA PeerSendIInv ==
  ASSUME IInv, NEW m \in PeerMessage, PeerSend(m)
  PROVE  IInv'
<1>1. ParserInv'
  BY ParserStutter DEF IInv, PeerSend
<1>2. UNCHANGED <<client, ret, silent, connected, phase>>
  BY DEF PeerSend, clientVars, parserVars
<1>3. line' \in Seq(Byte)
  BY ArrivalType DEF PeerSend, IInv, ClientShape
<1> QED
  BY <1>1, <1>2, <1>3
  DEF IInv, ClientShape, Members, Unconnected, TimeoutAccount, TimeoutMeansSilence

LEMMA NextIInv == IInv /\ [Next]_vars => IInv'
<1> SUFFICES ASSUME IInv, [Next]_vars PROVE IInv'
  OBVIOUS
<1>1. CASE UNCHANGED vars
  BY <1>1, ParserStutter
  DEF vars, clientVars, parserVars, IInv, ClientShape, Members, Unconnected, TimeoutAccount,
      TimeoutMeansSilence
<1>2. CASE Next
  BY <1>2, InitClientIInv, ConnectIInv, SendIInv, RawFrameIInv, DecodeCallIInv, ScanIInv,
     DecodeErrorIInv, DecodeRejectIInv, DecodeAcceptIInv, TimeoutIInv, PeerSendIInv
  DEF Next
<1> QED
  BY <1>1, <1>2

THEOREM Invariance == Spec => []IInv
  BY InitIInv, NextIInv, PTL DEF Spec

----------------------------------------------------------------------------
(* No frame, whatever its number and however it is cut, makes a client     *)
(* ready that has not asked for a connection: the index 20 of              *)
(* init_hdlc_client is out of reach of a 3-bit number.                     *)
THEOREM ConnectBeforeReady == Spec => []ReadyNeedsConnect
<1>1. IInv => ReadyNeedsConnect
  BY DEF IInv, Unconnected, ReadyNeedsConnect
<1> QED
  BY <1>1, Invariance, PTL

(* A timeout is reported only when the whole timeout has gone by since the *)
(* last accepted frame, whatever was sent, rejected or reconnected.        *)
THEOREM TimeoutNeedsSilence == Spec => []TimeoutMeansSilence
<1>1. IInv => TimeoutMeansSilence
  BY DEF IInv, TimeoutAccount
<1> QED
  BY <1>1, Invariance, PTL

(* Frames split over buffers, damaged or lost: the decoder always starts a *)
(* frame on a clean slate, also below the client.                          *)
THEOREM FreshUnderClient == Spec => []FreshBetweenFrames
<1>1. IInv => FreshBetweenFrames
  BY DEF IInv, ParserInv
<1> QED
  BY <1>1, Invariance, PTL

----------------------------------------------------------------------------
(* The types.  The length of a payload that was accepted is that of one of *)
(* the short payloads, so serialising it reads no memory behind the member *)
(* data_i_frame and the length after it.                                   *)
ShortPayload == client.len_data_i_frame \in 0 .. 4

ClientRecord ==
  [state : State, connecting_frame_timeout : Int16,
   current_index_frame : Byte, frameS : Frame, frameI : Frame,
   data_i_frame : Byte, len_data_i_frame : 0 .. SIZE_DATA_BUFFERS,
   frame_rej : Frame]

CallTypes ==
  /\ ret \in Return
  /\ recived_data \in Seq(Byte) /\ raw \in Seq(Byte)
  /\ asked \in Seq(Byte) /\ connected \in BOOLEAN /\ heard \in Seq(Control)
  /\ peerSent \in Seq(PeerMessage)

Types == client \in ClientRecord /\ ShortPayload /\ CallTypes

LEMMA SmallTypes ==
  /\ 0 \in Byte /\ 20 \in Byte /\ 0 \in Int16 /\ ConnectTimeout \in Int16
  /\ {UNINITIALIZED_STATE, IDLE_STATE, READY_STATE, CONNECTING, DISCONNECTING, RECIVING}
       = State
  /\ NoFrame \in Frame
  /\ Control_(S_FRAME) \in Frame /\ Control_(I_FRAME) \in Frame
  /\ Control_(S_FRAME_NACK) \in Frame
<1>1. 0 \in Byte /\ 20 \in Byte
  BY DEF Byte
<1>2. 0 \in Int16 /\ ConnectTimeout \in Int16
  BY IntMaxAssumption, TimeoutAssumption DEF Int16
<1>3. \A kind \in {I_FRAME, S_FRAME, S_FRAME_NACK} : Control_(kind) \in Control
  BY DEF Control_, Control
<1> QED
  BY <1>1, <1>2, <1>3 DEF State, Frame

LEMMA InitTypes == Init => Types
<1> SUFFICES ASSUME Init PROVE Types
  OBVIOUS
<1>1. client \in ClientRecord /\ ShortPayload
  BY SmallTypes DEF Init, ClientRecord, ShortPayload, SIZE_DATA_BUFFERS
<1>2. CallTypes
  <2>1. connected \in BOOLEAN /\ ret \in Return
    BY DEF Init, Return
  <2>2. /\ recived_data = <<>> /\ raw = <<>> /\ asked = <<>> /\ heard = <<>>
        /\ peerSent = <<>>
    BY DEF Init
  <2>3. <<>> \in Seq(Byte) /\ <<>> \in Seq(Control) /\ <<>> \in Seq(PeerMessage)
    OBVIOUS
  <2> QED
    BY <2>1, <2>2, <2>3, Zenon DEF CallTypes
<1> QED
  BY <1>1, <1>2 DEF Types

(* What is serialised, and what the bytes of it are.                       *)
LEMMA SerialisedType ==
  ASSUME Types, NEW frame \in Frames
  PROVE  /\ frame \in Control
         /\ SubSeq(Memory, 1, client.len_data_i_frame) \in Seq(Byte)
         /\ hdlc_frame_data(frame, SubSeq(Memory, 1, client.len_data_i_frame)) \in Seq(Byte)
<1> DEFINE n == client.len_data_i_frame
           first == client.data_i_frame
<1>1. frame \in Control
  BY DEF Types, ClientRecord, Frames, Frame
<1>2. n \in 0 .. 4 /\ first \in Byte
  BY DEF Types, ClientRecord, ShortPayload
<1>3. Memory = <<first, 0, n % 256, n \div 256>>
  BY DEF Memory
<1>4. 0 \in Byte /\ n % 256 \in Byte /\ n \div 256 \in Byte
  BY <1>2 DEF Byte
<1> HIDE DEF n, first
<1>5. Memory \in Seq(Byte) /\ Len(Memory) = 4
  BY <1>2, <1>3, <1>4
<1>6. SubSeq(Memory, 1, n) \in Seq(Byte)
  BY <1>2, <1>5
<1> QED
  BY <1>1, <1>6, FrameShape DEF n

LEMMA SendTypes ==
  ASSUME Types, NEW data \in UserData, hdlc_send_data(data)
  PROVE  Types'
<1>1. CallTypes'
  BY UserDataAssumption DEF Types, CallTypes, hdlc_send_data, Return
<1>2. CASE client' = client
  BY <1>1, <1>2 DEF Types, ShortPayload
<1>3. CASE client' = [client EXCEPT !.state = RECIVING]
  BY <1>1, <1>3, SmallTypes DEF Types, ShortPayload, ClientRecord
<1>4. CASE /\ Len(data) <= SIZE_DATA_BUFFERS
           /\ client' = [client EXCEPT !.state = RECIVING, !.frameI = Control_(I_FRAME),
                                       !.data_i_frame = data[1],
                                       !.len_data_i_frame = Len(data),
                                       !.current_index_frame = 0]
  <2>1. data \in Seq(Byte) /\ Len(data) \in 1 .. 4
    BY <1>4, UserDataAssumption DEF SIZE_DATA_BUFFERS
  <2>2. data[1] \in Byte
    BY <2>1
  <2>3. client'.len_data_i_frame = Len(data)
    BY <1>4 DEF Types, ClientRecord
  <2>4. Len(data) \in 0 .. SIZE_DATA_BUFFERS /\ Len(data) \in 0 .. 4
    BY <2>1 DEF SIZE_DATA_BUFFERS
  <2>5. client' \in ClientRecord
    BY <1>4, <2>2, <2>4, SmallTypes DEF Types, ClientRecord
  <2> QED
    BY <1>1, <2>3, <2>4, <2>5 DEF Types, ShortPayload
<1> QED
  BY <1>2, <1>3, <1>4 DEF hdlc_send_data

(* The other calls of the application.                                     *)
LEMMA CallTypesKept ==
  ASSUME Types, \/ init_hdlc_client \/ hdlc_connect \/ hdlc_timeout_handler
                \/ \E frame \in Frames : hdlc_get_raw_frame(frame)
  PROVE  Types'
<1>1. CASE init_hdlc_client
  BY <1>1, SmallTypes DEF init_hdlc_client, Types, ShortPayload, ClientRecord, CallTypes
<1>2. CASE hdlc_connect
  BY <1>2, SmallTypes DEF hdlc_connect, Types, ShortPayload, ClientRecord, CallTypes
<1>3. CASE hdlc_timeout_handler
  <2>1. client.connecting_frame_timeout - 1 \in Int16
    BY <1>3, IntMaxAssumption, TimeoutAssumption
    DEF hdlc_timeout_handler, Types, ClientRecord, Int16
  <2> QED
    BY <1>3, <2>1
    DEF hdlc_timeout_handler, Types, ShortPayload, ClientRecord, CallTypes, Return
<1>4. CASE \E frame \in Frames : hdlc_get_raw_frame(frame)
  <2>1. raw' \in Seq(Byte)
    BY <1>4, SerialisedType DEF hdlc_get_raw_frame
  <2> QED
    BY <1>4, <2>1 DEF hdlc_get_raw_frame, Types, ShortPayload, CallTypes, Return
<1> QED
  BY <1>1, <1>2, <1>3, <1>4

LEMMA DecodeTypes ==
  ASSUME Types, ParserTypeOK, DecodeError \/ DecodeReject \/ DecodeAccept
  PROVE  Types'
<1>1. control \in Control /\ Append(heard, control) \in Seq(Control)
  BY DEF ParserTypeOK, Types, CallTypes
<1>2. CASE DecodeError
  BY <1>2 DEF DecodeError, Types, ShortPayload, CallTypes, Return
<1>3. CASE DecodeReject
  BY <1>1, <1>3, SmallTypes
  DEF DecodeReject, Rejected, Types, ShortPayload, ClientRecord, CallTypes, Return
<1>4. CASE DecodeAccept
  <2>1. \A byte \in ReportedByte : byte \in Byte
    <3>1. CASE Len(src) > 3
      <4>1. src \in Seq(Byte) /\ 4 \in 1 .. Len(src)
        BY <3>1 DEF ParserTypeOK
      <4>2. src[4] \in Byte
        BY <4>1, ElementOfSeq
      <4> QED
        BY <3>1, <4>2 DEF ReportedByte
    <3>2. CASE ~(Len(src) > 3)
      BY <3>2, BufferAssumption DEF ReportedByte
    <3> QED
      BY <3>1, <3>2
  <2>2. recived_data' \in Seq(Byte)
    <3>1. recived_data \in Seq(Byte)
      BY DEF Types, CallTypes
    <3>2. \/ recived_data' = recived_data
          \/ \E byte \in ReportedByte : recived_data' = Append(recived_data, byte)
      BY <1>4 DEF DecodeAccept
    <3> QED
      BY <2>1, <3>1, <3>2
  <2>3. client' \in ClientRecord /\ ShortPayload'
    BY <1>4, SmallTypes DEF DecodeAccept, Types, ShortPayload, ClientRecord
  <2> QED
    BY <1>1, <1>4, <2>2, <2>3 DEF DecodeAccept, Types, CallTypes, Return
<1> QED
  BY <1>2, <1>3, <1>4

LEMMA NextTypes == Types /\ ParserTypeOK /\ [Next]_vars => Types'
<1> SUFFICES ASSUME Types, ParserTypeOK, [Next]_vars PROVE Types'
  OBVIOUS
<1>1. CASE UNCHANGED <<clientVars, peerSent>>
  BY <1>1 DEF clientVars, Types, ShortPayload, CallTypes
<1>2. CASE \E m \in PeerMessage : PeerSend(m)
  BY <1>2 DEF PeerSend, clientVars, Types, ShortPayload, CallTypes
<1>3. CASE \E n \in 1 .. Len(line) : DecodeArrived(n)
  BY <1>1, <1>3 DEF DecodeArrived, hdlc_decode_recived_raw_data
<1> QED
  BY <1>1, <1>2, <1>3, SendTypes, CallTypesKept, DecodeTypes DEF Next, vars

(* Every member, buffer and result holds a value of its C type.            *)
THEOREM TypeCorrect == Spec => []TypeOK
<1>1. Types /\ IInv => TypeOK
  BY DEF Types, ClientRecord, CallTypes, TypeOK, IInv, ParserInv, ClientShape
<1>2. IInv => ParserTypeOK
  BY DEF IInv, ParserInv
<1>3. Types /\ IInv /\ [Next]_vars => Types'
  BY <1>2, NextTypes
<1> QED
  BY <1>1, <1>3, InitTypes, Invariance, PTL DEF Spec

----------------------------------------------------------------------------
(* Payloads of which every byte is held: those of one byte, and those that *)
(* are refused.                                                            *)
OneBytePayloads == \A data \in UserData : Len(data) = 1 \/ Len(data) > SIZE_DATA_BUFFERS

(* The members of the three frames are the ones made for them, and the     *)
(* member data_i_frame is the payload that was accepted.                   *)
PayloadHeld ==
  /\ client.frameS \in {NoFrame, Control_(S_FRAME)}
  /\ client.frame_rej \in {NoFrame, Control_(S_FRAME_NACK)}
  /\ client.frameI # NoFrame =>
       client.len_data_i_frame = 1 /\ asked = <<client.data_i_frame>>

LEMMA InitPayload == Init => PayloadHeld
BY DEF Init, PayloadHeld

LEMMA NextPayload ==
  ASSUME OneBytePayloads, Types, PayloadHeld, [Next]_vars
  PROVE  PayloadHeld'
<1>1. client \in ClientRecord
  BY DEF Types
<1>2. CASE UNCHANGED <<client, asked>>
  BY <1>2 DEF PayloadHeld
<1>3. CASE init_hdlc_client \/ hdlc_connect \/ hdlc_timeout_handler
  BY <1>1, <1>3
  DEF init_hdlc_client, hdlc_connect, hdlc_timeout_handler, PayloadHeld, ClientRecord
<1>4. ASSUME NEW data \in UserData, hdlc_send_data(data) PROVE PayloadHeld'
  <2>1. CASE UNCHANGED <<client, asked>>
    BY <2>1 DEF PayloadHeld
  <2>2. CASE client' = [client EXCEPT !.state = RECIVING] /\ asked' = asked
    BY <1>1, <2>2 DEF PayloadHeld, ClientRecord
  <2>3. CASE /\ Len(data) <= SIZE_DATA_BUFFERS /\ asked' = data
             /\ client' = [client EXCEPT !.state = RECIVING, !.frameI = Control_(I_FRAME),
                                         !.data_i_frame = data[1],
                                         !.len_data_i_frame = Len(data),
                                         !.current_index_frame = 0]
    <3>1. data \in Seq(Byte) /\ Len(data) = 1
      BY <2>3, UserDataAssumption DEF OneBytePayloads, SIZE_DATA_BUFFERS
    <3>2. data = <<data[1]>>
      BY <3>1
    <3>3. /\ client'.frameS = client.frameS /\ client'.frame_rej = client.frame_rej
          /\ client'.data_i_frame = data[1] /\ client'.len_data_i_frame = Len(data)
      BY <1>1, <2>3 DEF ClientRecord
    <3> QED
      BY <2>3, <3>1, <3>2, <3>3 DEF PayloadHeld
  <2> QED
    BY <1>4, <2>1, <2>2, <2>3 DEF hdlc_send_data
<1>5. CASE DecodeReject
  BY <1>1, <1>5 DEF DecodeReject, Rejected, PayloadHeld, ClientRecord
<1>6. CASE DecodeAccept
  BY <1>1, <1>6 DEF DecodeAccept, PayloadHeld, ClientRecord
<1> QED
  BY <1>2, <1>3, <1>4, <1>5, <1>6
  DEF Next, vars, clientVars, hdlc_get_raw_frame, DecodeArrived, hdlc_decode_recived_raw_data,
      DecodeError, PeerSend

(* Only an I-frame carries data: the others come out as they would with no *)
(* payload.                                                                *)
LEMMA DataOnlyInInfo ==
  ASSUME NEW field, NEW data, field.frame # I_FRAME
  PROVE  hdlc_frame_data(field, data) = hdlc_frame_data(field, <<>>)
BY DEF hdlc_frame_data, FrameBody

LEMMA RawFrameStep ==
  ASSUME Types, PayloadHeld, [Next]_vars
  PROVE  raw' \notin {raw} \cup FramesWithoutData
           => raw' = hdlc_frame_data(client.frameI, asked)
<1>1. CASE \E frame \in Frames : hdlc_get_raw_frame(frame)
  <2>1. PICK frame \in Frames : hdlc_get_raw_frame(frame)
    BY <1>1
  <2> DEFINE n == client.len_data_i_frame
             first == client.data_i_frame
             payload == SubSeq(Memory, 1, n)
  <2>2. raw' = hdlc_frame_data(frame, payload)
    BY <2>1 DEF hdlc_get_raw_frame
  <2>3. CASE frame # client.frameI
    <3>1. frame \in {client.frameS, client.frame_rej} \ {NoFrame}
      BY <2>3 DEF Frames
    <3>2. frame \in {Control_(S_FRAME), Control_(S_FRAME_NACK)}
      BY <3>1 DEF PayloadHeld
    <3>3. frame.frame # I_FRAME
      BY <3>2 DEF Control_, I_FRAME, S_FRAME, S_FRAME_NACK
    <3>4. raw' = hdlc_frame_data(frame, <<>>)
      BY <2>2, <3>3, DataOnlyInInfo
    <3> QED
      BY <3>1, <3>4 DEF FramesWithoutData
  <2>4. CASE frame = client.frameI
    <3>1. n = 1 /\ asked = <<first>>
      BY <2>4 DEF PayloadHeld, Frames
    <3>2. Memory = <<first, 0, n % 256, n \div 256>>
      BY DEF Memory
    <3> HIDE DEF n, first
    <3>3. first \in Byte
      BY DEF Types, ClientRecord, first
    <3>4. /\ Memory \in Seq(Int) /\ Len(Memory) = 4 /\ Memory[1] = first
      BY <3>1, <3>2, <3>3 DEF Byte
    <3>5. SubSeq(Memory, 1, 1) = <<first>>
      <4> DEFINE s == SubSeq(Memory, 1, 1)
      <4>1. s \in Seq(Int) /\ Len(s) = 1 /\ s[1] = Memory[1]
        BY <3>4, SubSeqProperties
      <4> HIDE DEF s
      <4>2. s = <<first>>
        BY <3>4, <4>1
      <4> QED
        BY <4>2 DEF s
    <3> QED
      BY <2>2, <2>4, <3>1, <3>5
  <2> QED
    BY <2>3, <2>4
<1>2. CASE raw' = raw
  BY <1>2
<1> QED
  BY <1>1, <1>2
  DEF Next, vars, clientVars, init_hdlc_client, hdlc_connect, hdlc_send_data, DecodeArrived,
      hdlc_decode_recived_raw_data, DecodeError, DecodeReject, DecodeAccept,
      hdlc_timeout_handler, PeerSend

(* hdlc_get_raw_frame serialises the payload that hdlc_send_data accepted, *)
(* as long as the payloads are of one byte: of a longer one the bytes      *)
(* after the first are those of the pointer and the length.                *)
THEOREM RawFrameOfPayload ==
  ASSUME OneBytePayloads
  PROVE  Spec => RawFrameCarriesPayload
<1>1. Types /\ PayloadHeld /\ [Next]_vars => PayloadHeld'
  BY NextPayload
<1>2. Types /\ PayloadHeld /\ [Next]_vars
        => [raw' \notin {raw} \cup FramesWithoutData
              => raw' = hdlc_frame_data(client.frameI, asked)]_vars
  BY RawFrameStep
<1>3. IInv => ParserTypeOK
  BY DEF IInv, ParserInv
<1>4. Types /\ IInv /\ [Next]_vars => Types'
  BY <1>3, NextTypes
<1> QED
  BY <1>1, <1>2, <1>4, InitTypes, InitPayload, Invariance, PTL DEF Spec, RawFrameCarriesPayload

----------------------------------------------------------------------------
(* When no buffer ends in the middle of a frame, every buffer is made of   *)
(* whole arrivals: it ends in a flag, and its third byte, if it is still   *)
(* the control field of the first frame, needs no stuffing.                *)
WholeArrivals(bytes) ==
  bytes # <<>> =>
     /\ Len(bytes) >= 6
     /\ bytes[Len(bytes)] = HDLC_FLAG_SEQUENCE
     /\ bytes[3] \notin {HDLC_FLAG_SEQUENCE, HDLC_CONTROL_ESCAPE}

BuffersWhole ==
  /\ WholeArrivals(line)
  /\ phase # "idle" => src # <<>> /\ WholeArrivals(src)

LEMMA ArrivalWhole ==
  ASSUME NEW m \in PeerMessage, NEW bytes \in Arrivals(hdlc_frame_data(m.control, m.data))
  PROVE  WholeArrivals(bytes)
<1> DEFINE frame == hdlc_frame_data(m.control, m.data)
           c == hdlc_frame_control_type(m.control)
<1>1. m.control \in Control /\ m.data \in Seq(Byte)
  BY PeerAssumption
<1>2. /\ frame \in Seq(Byte) /\ Len(frame) >= 6 /\ frame[3] = c
      /\ frame[Len(frame)] = HDLC_FLAG_SEQUENCE
  BY <1>1, FrameShape
<1>3. c \notin {HDLC_FLAG_SEQUENCE, HDLC_CONTROL_ESCAPE}
  BY <1>1, ControlByte
<1>4. bytes \in {frame, <<>>, [frame EXCEPT ![1] = 0], [frame EXCEPT ![3] = 0]}
  BY DEF Arrivals
<1>5. 0 \notin {HDLC_FLAG_SEQUENCE, HDLC_CONTROL_ESCAPE}
  BY DEF HDLC_FLAG_SEQUENCE, HDLC_CONTROL_ESCAPE
<1> HIDE DEF frame, c
<1>6. ASSUME NEW k \in {1, 3}, bytes = [frame EXCEPT ![k] = 0]
      PROVE  WholeArrivals(bytes)
  <2>1. /\ bytes \in [1 .. Len(frame) -> Byte \cup {0}]
        /\ \A j \in 1 .. Len(frame) : bytes[j] = IF j = k THEN 0 ELSE frame[j]
    BY <1>2, <1>6
  <2>2. Len(bytes) = Len(frame)
    BY <1>2, <2>1
  <2>3. Len(frame) \in 1 .. Len(frame) /\ Len(frame) # k /\ 3 \in 1 .. Len(frame)
    BY <1>2
  <2> QED
    BY <1>2, <1>3, <1>5, <2>1, <2>2, <2>3 DEF WholeArrivals
<1>7. WholeArrivals(frame) /\ WholeArrivals(<<>>)
  BY <1>2, <1>3 DEF WholeArrivals
<1> QED
  BY <1>4, <1>6, <1>7

LEMMA ConcatWhole ==
  ASSUME NEW s \in Seq(Byte), NEW t \in Seq(Byte), WholeArrivals(s), WholeArrivals(t)
  PROVE  WholeArrivals(s \o t)
<1> DEFINE both == s \o t
<1>1. CASE s = <<>>
  BY <1>1
<1>2. CASE t = <<>>
  BY <1>2
<1>3. CASE s # <<>> /\ t # <<>>
  <2>1. /\ both \in Seq(Byte) /\ Len(both) = Len(s) + Len(t)
        /\ \A k \in 1 .. Len(s) + Len(t) :
             both[k] = IF k <= Len(s) THEN s[k] ELSE t[k - Len(s)]
    BY ConcatProperties
  <2>2. Len(s) >= 6 /\ Len(t) >= 6 /\ Len(s) \in Nat /\ Len(t) \in Nat
    BY <1>3 DEF WholeArrivals
  <2> HIDE DEF both
  <2>3. both[3] = s[3] /\ both[Len(both)] = t[Len(t)]
    BY <2>1, <2>2
  <2>4. WholeArrivals(both)
    BY <1>3, <2>1, <2>2, <2>3 DEF WholeArrivals
  <2> QED
    BY <2>4 DEF both
<1> QED
  BY <1>1, <1>2, <1>3

LEMMA InitBuffers == Init => BuffersWhole
BY DEF Init, ParserInit, BuffersWhole, WholeArrivals

LEMMA NextBuffers ==
  ASSUME ~AnyCut, IInv, BuffersWhole, [Next]_vars
  PROVE  BuffersWhole'
<1>1. line \in Seq(Byte) /\ ParserTypeOK
  BY DEF IInv, ClientShape, ParserInv
<1>2. CASE UNCHANGED <<line, src, phase>>
  BY <1>2 DEF BuffersWhole, WholeArrivals
<1>3. CASE UNCHANGED line /\ phase' = "idle"
  BY <1>3 DEF BuffersWhole, WholeArrivals
<1>4. ASSUME NEW n \in 1 .. Len(line), DecodeArrived(n)
      PROVE  BuffersWhole'
  <2>1. n = Len(line) /\ line # <<>>
    BY <1>1, <1>4 DEF DecodeArrived
  <2>2. src' = SubSeq(line, 1, Len(line)) /\ line' = SubSeq(line, Len(line) + 1, Len(line))
    BY <1>4, <2>1 DEF DecodeArrived, hdlc_decode_recived_raw_data, GetData
  <2>3. src' = line /\ line' = <<>>
    BY <1>1, <2>2
  <2> QED
    BY <2>1, <2>3 DEF BuffersWhole, WholeArrivals
<1>5. CASE Scan /\ UNCHANGED line
  <2>1. phase = "scan" /\ src' = src
    BY <1>1, <1>5, ScanEffect
  <2> QED
    BY <1>5, <2>1 DEF BuffersWhole, WholeArrivals
<1>6. ASSUME NEW m \in PeerMessage, PeerSend(m)
      PROVE  BuffersWhole'
  <2>1. PICK bytes \in Arrivals(hdlc_frame_data(m.control, m.data)) : line' = line \o bytes
    BY <1>6 DEF PeerSend
  <2>2. WholeArrivals(line')
    BY <1>1, <2>1, ArrivalType, ArrivalWhole, ConcatWhole DEF BuffersWhole
  <2>3. UNCHANGED <<src, phase>>
    BY <1>6 DEF PeerSend, parserVars
  <2> QED
    BY <2>2, <2>3 DEF BuffersWhole, WholeArrivals
<1>7. CASE DecodeError \/ DecodeReject \/ DecodeAccept
  BY <1>3, <1>7, ReturnIdle DEF DecodeError, DecodeReject, DecodeAccept
<1>8. CASE \/ init_hdlc_client \/ hdlc_connect \/ hdlc_timeout_handler
           \/ \E data \in UserData : hdlc_send_data(data)
           \/ \E frame \in Frames : hdlc_get_raw_frame(frame)
  BY <1>2, <1>8
  DEF init_hdlc_client, hdlc_connect, hdlc_timeout_handler, hdlc_send_data,
      hdlc_get_raw_frame, parserVars
<1> QED
  BY <1>2, <1>4, <1>5, <1>6, <1>7, <1>8 DEF Next, vars, parserVars

----------------------------------------------------------------------------
(* A call stores at most one byte for each byte it reads: what was in the  *)
(* frame when the call began is the start flag alone, because the buffer   *)
(* before it ended in a flag.                                              *)
JustOpenedBetween == InFrame => Distance = 1 /\ hdlc_state.dest_index = 0

StoredBelowIndex ==
  /\ hdlc_state.dest_index \in 0 .. i
  /\ DOMAIN dest \subseteq 0 .. hdlc_state.dest_index - 1
  /\ InFrame => hdlc_state.dest_index < Distance
  /\ phase = "return" => hdlc_state.end_index >= 0
  /\ phase = "scan" /\ i = Len(src) => JustOpenedBetween

PlaceInv ==
  IF phase = "idle" THEN JustOpenedBetween ELSE StoredBelowIndex

LEMMA InitPlace == Init => PlaceInv
BY DEF Init, ParserInit, PlaceInv, JustOpenedBetween, InFrame

LEMMA ScanPlace ==
  ASSUME ParserInv, BuffersWhole, StoredBelowIndex, IndexInRange, IndexInRange', Scan
  PROVE  StoredBelowIndex' /\ phase' # "idle"
<1> DEFINE placed == hdlc_state.dest_index
<1>1. /\ phase = "scan" /\ i \in Nat /\ i < Len(src) /\ src' = src /\ src \in Seq(Byte)
      /\ Skipped \/ Discarded \/ Opened \/ Closed \/ Escaped \/ Taken
  BY ScanEffect DEF ParserInv, ParserTypeOK
<1>2. hdlc_state \in HdlcState /\ placed \in 0 .. i /\ Len(src) \in Nat /\ Distance \in Int
  BY <1>1, DistanceArithmetic DEF ParserInv, ParserTypeOK, StoredBelowIndex
<1>3. i + 1 = Len(src) => AtFlag /\ ~FlagFollows
  BY <1>1 DEF BuffersWhole, WholeArrivals, AtFlag, Here, FlagFollows
<1>4. HDLC_CONTROL_ESCAPE # HDLC_FLAG_SEQUENCE
  BY DEF HDLC_CONTROL_ESCAPE, HDLC_FLAG_SEQUENCE
<1>5. ~InFrame => placed = 0
  BY <1>2 DEF ParserInv, FreshBetweenFrames, Fresh, InFrame, HdlcState, Int16
<1>6. CASE Skipped
  <2>1. i + 1 # Len(src) /\ ~InFrame' /\ phase' = "scan" /\ i' = i + 1
    BY <1>1, <1>3, <1>6 DEF Skipped, Counted, Kept, InFrame
  <2>2. hdlc_state'.dest_index = placed /\ dest' = dest
    BY <1>6 DEF Skipped, NothingStored
  <2> QED
    BY <1>1, <1>2, <2>1, <2>2 DEF StoredBelowIndex
<1>7. CASE Discarded
  <2>1. UNCHANGED <<hdlc_state, dest, phase>> /\ i' = i + 1
    BY <1>7 DEF Discarded
  <2>2. Distance' = Distance /\ (InFrame' <=> InFrame)
    BY <2>1 DEF Distance, InFrame
  <2>3. i + 1 = Len(src) => (InFrame => Distance = 1)
    BY <1>3, <1>7, DistanceArithmetic DEF Discarded, RedundantFlag, ParserInv
  <2>4. i + 1 = Len(src) => JustOpenedBetween'
    BY <1>2, <1>5, <2>1, <2>2, <2>3 DEF StoredBelowIndex, JustOpenedBetween
  <2> QED
    BY <1>1, <1>2, <2>1, <2>2, <2>4 DEF StoredBelowIndex
<1>8. CASE Opened
  <2>1. /\ Distance' = 1 /\ i' = i + 1 /\ phase' = "scan"
        /\ hdlc_state'.dest_index = 0 /\ placed = 0 /\ dest' = dest
    BY <1>1, <1>5, <1>8, DistanceArithmetic DEF Opened, Counted, NothingStored, ParserInv
  <2> QED
    BY <1>1, <1>2, <1>5, <2>1 DEF StoredBelowIndex, JustOpenedBetween
<1>9. CASE Closed
  <2>1. /\ UNCHANGED <<dest, i>> /\ phase' = "return"
        /\ hdlc_state'.dest_index = placed
        /\ hdlc_state'.start_index = hdlc_state.start_index
        /\ hdlc_state'.src_index = hdlc_state.src_index
    BY <1>9 DEF Closed, NothingStored
  <2>2. hdlc_state'.end_index >= 0
    BY <1>9 DEF Closed, IndexInRange
  <2>3. Distance' = Distance /\ (InFrame' <=> InFrame)
    BY <2>1 DEF Distance, InFrame
  <2> QED
    BY <1>1, <1>2, <2>1, <2>2, <2>3 DEF StoredBelowIndex
<1>10. CASE Escaped \/ Taken
  <2>1. InFrame /\ ~AtFlag /\ Counted /\ Kept
    BY <1>4, <1>10 DEF Escaped, Taken, AtFlag
  <2>2. /\ i' = i + 1 /\ phase' = "scan" /\ i + 1 # Len(src)
        /\ Distance' = Distance + 1 /\ InFrame'
    BY <1>1, <1>3, <2>1, DistanceArithmetic DEF Counted, Kept, InFrame, ParserInv
  <2>3. \/ hdlc_state'.dest_index = placed /\ dest' = dest
        \/ hdlc_state'.dest_index = placed + 1 /\ DOMAIN dest' = DOMAIN dest \cup {placed}
    <3>1. Wrap(placed + 1) = placed + 1
      <4>1. placed \in Nat /\ placed < INT_MAX /\ INT_MAX \in Nat
        BY <1>1, <1>2, <2>1, DistanceArithmetic, IntMaxAssumption DEF StoredBelowIndex, ParserInv
      <4> HIDE DEF placed
      <4> QED
        BY <4>1 DEF Wrap
    <3> QED
      BY <1>10, <3>1 DEF Escaped, Taken, NothingStored
  <2> QED
    BY <1>1, <1>2, <2>1, <2>2, <2>3 DEF StoredBelowIndex
<1> QED
  BY <1>1, <1>6, <1>7, <1>8, <1>9, <1>10 DEF StoredBelowIndex, Closed, Discarded, Counted

LEMMA NextPlace ==
  ASSUME ~AnyCut, IInv, BuffersWhole, BuffersWhole', PlaceInv, IndexInRange, IndexInRange',
         [Next]_vars
  PROVE  PlaceInv'
<1>1. CASE UNCHANGED parserVars
  BY <1>1
  DEF parserVars, PlaceInv, JustOpenedBetween, StoredBelowIndex, InFrame, Distance
<1>2. ASSUME NEW n \in 1 .. Len(line), DecodeArrived(n)
      PROVE  PlaceInv'
  <2>1. /\ phase = "idle" /\ phase' = "scan" /\ i' = 0 /\ dest' = <<>>
        /\ hdlc_state' = hdlc_state
    BY <1>2 DEF DecodeArrived, hdlc_decode_recived_raw_data, GetData
  <2>2. JustOpenedBetween /\ Distance' = Distance /\ (InFrame' <=> InFrame)
    BY <2>1 DEF PlaceInv, Distance, InFrame
  <2>3. hdlc_state.dest_index = 0
    BY <2>2 DEF JustOpenedBetween, IInv, ParserInv, FreshBetweenFrames, Fresh, InFrame,
                ParserTypeOK, HdlcState, Int16
  <2>4. Len(src') # 0
    BY <2>1 DEF BuffersWhole, WholeArrivals
  <2>5. DOMAIN dest' = {}
    BY <2>1
  <2> QED
    BY <2>1, <2>2, <2>3, <2>4, <2>5 DEF PlaceInv, StoredBelowIndex, JustOpenedBetween
<1>3. CASE Scan
  <2>1. phase = "scan"
    BY <1>3, ScanEffect DEF IInv, ParserInv
  <2> QED
    BY <1>3, <2>1, ScanPlace DEF PlaceInv, IInv
<1>4. CASE DecodeError \/ DecodeReject \/ DecodeAccept
  <2>1. phase' = "idle" /\ hdlc_state \in HdlcState
    BY <1>4, ReturnIdle DEF DecodeError, DecodeReject, DecodeAccept, IInv, ParserInv, ParserTypeOK
  <2>2. CASE ReturnNoMessage
    <3>1. hdlc_state' = hdlc_state /\ phase = "scan" /\ i = Len(src)
      BY <2>2
      DEF ReturnNoMessage, LeaveCall, Returning, FrameFound, IInv, ParserInv, EndOnlyAtFlag,
          InFrame, PlaceInv, StoredBelowIndex
    <3>2. JustOpenedBetween
      BY <3>1 DEF PlaceInv, StoredBelowIndex
    <3> QED
      BY <2>1, <3>1, <3>2 DEF PlaceInv, JustOpenedBetween, InFrame, Distance
  <2>3. CASE ReturnBadFrame \/ ReturnFrame
    <3>1. hdlc_state' = hdlc_get_data_reset_with_state(hdlc_state)
      BY <2>3 DEF ReturnBadFrame, ReturnFrame, LeaveCall
    <3>2. hdlc_state'.start_index = -1
      BY <2>1, <3>1 DEF hdlc_get_data_reset_with_state, HdlcState
    <3> QED
      BY <2>1, <3>2 DEF PlaceInv, JustOpenedBetween, InFrame
  <2> QED
    BY <1>4, <2>2, <2>3 DEF DecodeError, DecodeReject, DecodeAccept
<1> QED
  BY <1>1, <1>2, <1>3, <1>4
  DEF Next, vars, init_hdlc_client, hdlc_connect, hdlc_send_data, hdlc_get_raw_frame,
      hdlc_timeout_handler, PeerSend

(* When no buffer ends in the middle of a frame, the decoder writes inside *)
(* the array recive of the caller, which is as long as the buffer.         *)
THEOREM DestStaysInside ==
  ASSUME ~AnyCut
  PROVE  Spec /\ []IndexInRange => []DestInsideRecive
<1>1. IInv /\ PlaceInv => DestInsideRecive
  BY DEF PlaceInv, StoredBelowIndex, DestInsideRecive, IInv, ParserInv, ParserTypeOK
<1>2. IInv /\ BuffersWhole /\ [Next]_vars => BuffersWhole'
  BY NextBuffers
<1>3. IInv /\ BuffersWhole /\ BuffersWhole' /\ PlaceInv /\ IndexInRange /\ IndexInRange'
        /\ [Next]_vars => PlaceInv'
  BY NextPlace
<1> QED
  BY <1>1, <1>2, <1>3, InitBuffers, InitPlace, Invariance, PTL DEF Spec

----------------------------------------------------------------------------
(* A buffer that begins with a frame, and how far the call has come in it: *)
(* the first four bytes one by one, then the first data byte is stored, or *)
(* the fourth byte was a flag and the frame is too short to be accepted.   *)
ReportableBuffer ==
  phase # "idle" /\ FrameBeginsBuffer /\ src[4] # HDLC_CONTROL_ESCAPE

FirstStored == 0 \in DOMAIN dest /\ dest[0] = src[4] /\ hdlc_state.dest_index >= 1

FourthByteInv ==
  /\ i = 0 /\ InFrame => Distance = 1
  /\ i >= 1 => InFrame /\ Distance >= 1
  /\ i \in 1 .. 3 => Distance = i /\ hdlc_state.dest_index = 0
  /\ i \in 2 .. 3 => ~hdlc_state.control_escape
  /\ i >= 4 => FirstStored \/ (Distance = 3 /\ i < Len(src) /\ AtFlag)
  /\ phase = "return" => i >= 3 /\ hdlc_state.end_index = hdlc_state.src_index

ReportInv == ReportableBuffer => FourthByteInv

LEMMA ScanReport ==
  ASSUME ParserInv, BuffersWhole, StoredBelowIndex, IndexInRange, IndexInRange', Scan,
         ReportableBuffer, FourthByteInv
  PROVE  FourthByteInv'
<1> DEFINE placed == hdlc_state.dest_index
<1>1. /\ phase = "scan" /\ i \in Nat /\ i < Len(src) /\ src' = src /\ src \in Seq(Byte)
      /\ Skipped \/ Discarded \/ Opened \/ Closed \/ Escaped \/ Taken
  BY ScanEffect DEF ParserInv, ParserTypeOK
<1>2. placed \in 0 .. i /\ Len(src) \in Nat /\ Distance \in Int
  BY <1>1, DistanceArithmetic DEF ParserInv, ParserTypeOK, StoredBelowIndex
<1>3. /\ Len(src) > 3 /\ src[1] = HDLC_FLAG_SEQUENCE /\ src[2] # HDLC_FLAG_SEQUENCE
      /\ src[2] # HDLC_CONTROL_ESCAPE /\ src[4] # HDLC_CONTROL_ESCAPE
      /\ src[3] \notin {HDLC_FLAG_SEQUENCE, HDLC_CONTROL_ESCAPE}
  <2>1. Len(src) > 3 /\ SubSeq(src, 1, 2) = <<HDLC_FLAG_SEQUENCE, HDLC_ALL_STATION_ADDR>>
    BY DEF ReportableBuffer, FrameBeginsBuffer
  <2>2. SubSeq(src, 1, 2)[1] = src[1] /\ SubSeq(src, 1, 2)[2] = src[2]
    BY <1>1, <2>1, SubSeqProperties
  <2>3. src[1] = HDLC_FLAG_SEQUENCE /\ src[2] = HDLC_ALL_STATION_ADDR
    <3> DEFINE s == SubSeq(src, 1, 2)
    <3>1. s = <<HDLC_FLAG_SEQUENCE, HDLC_ALL_STATION_ADDR>> /\ s[1] = src[1] /\ s[2] = src[2]
      BY <2>1, <2>2
    <3> HIDE DEF s
    <3> QED
      BY <3>1
  <2>4. src[3] \notin {HDLC_FLAG_SEQUENCE, HDLC_CONTROL_ESCAPE}
    BY DEF BuffersWhole, WholeArrivals, ReportableBuffer
  <2> QED
    BY <2>1, <2>3, <2>4
    DEF ReportableBuffer, HDLC_FLAG_SEQUENCE, HDLC_ALL_STATION_ADDR, HDLC_CONTROL_ESCAPE
<1>4. HDLC_CONTROL_ESCAPE # HDLC_FLAG_SEQUENCE
  BY DEF HDLC_CONTROL_ESCAPE, HDLC_FLAG_SEQUENCE
<1>5. /\ InFrame /\ JustOpened <=> InFrame /\ Distance = 1
      /\ InFrame /\ Distance > 0 => (IsData <=> Distance > 2)
  BY DistanceArithmetic DEF ParserInv
<1>6. Here = src[i + 1] /\ (AtFlag <=> src[i + 1] = HDLC_FLAG_SEQUENCE)
  BY DEF AtFlag, Here
<1>7. Counted /\ Kept => /\ Distance' = Distance + 1 /\ (InFrame' <=> InFrame)
                         /\ i' = i + 1 /\ phase' = "scan"
  BY <1>1, DistanceArithmetic DEF Counted, Kept, InFrame, ParserInv
<1>8. ASSUME UNCHANGED <<hdlc_state.start_index, hdlc_state.src_index>>
      PROVE  Distance' = Distance /\ (InFrame' <=> InFrame)
  BY <1>8 DEF Distance, InFrame
<1>9. CASE i = 0
  <2>1. AtFlag /\ ~FlagFollows /\ placed = 0
    BY <1>1, <1>2, <1>3, <1>6, <1>9 DEF FlagFollows
  <2>2. CASE InFrame
    <3>1. Discarded /\ Distance = 1
      BY <1>1, <1>4, <1>5, <1>9, <2>1, <2>2
      DEF FourthByteInv, RedundantFlag, Skipped, Opened, Closed, Escaped, Taken, AtFlag
    <3>2. UNCHANGED <<hdlc_state, phase>> /\ i' = 1
      BY <1>9, <3>1 DEF Discarded
    <3> QED
      BY <1>1, <1>8, <2>1, <2>2, <3>1, <3>2 DEF FourthByteInv
  <2>3. CASE ~InFrame
    <3>1. Opened
      BY <1>1, <2>1, <2>3
      DEF RedundantFlag, Skipped, Discarded, Closed, Escaped, Taken
    <3>2. /\ Distance' = 1 /\ i' = 1 /\ phase' = "scan" /\ hdlc_state'.dest_index = 0
          /\ InFrame'
      BY <1>1, <1>9, <2>1, <3>1, DistanceArithmetic
      DEF Opened, Counted, NothingStored, InFrame, IndexInRange, ParserInv
    <3> QED
      BY <3>2 DEF FourthByteInv
  <2> QED
    BY <2>2, <2>3
<1>10. CASE i \in 1 .. 2
  <2>1. /\ InFrame /\ Distance = i /\ placed = 0
        /\ ~AtFlag /\ Here # HDLC_CONTROL_ESCAPE
    BY <1>3, <1>6, <1>10 DEF FourthByteInv
  <2>2. Taken /\ ~IsData
    BY <1>1, <1>5, <1>10, <2>1 DEF Skipped, Discarded, Opened, Closed, Escaped
  <2>3. /\ Distance' = i + 1 /\ i' = i + 1 /\ phase' = "scan" /\ InFrame'
        /\ hdlc_state'.dest_index = 0 /\ hdlc_state'.control_escape = FALSE
    BY <1>7, <2>1, <2>2 DEF Taken, NothingStored
  <2> QED
    BY <1>10, <2>3 DEF FourthByteInv
<1>11. CASE i = 3
  <2>1. /\ InFrame /\ Distance = 3 /\ placed = 0 /\ ~hdlc_state.control_escape
        /\ Here = src[4] /\ Here # HDLC_CONTROL_ESCAPE
    BY <1>3, <1>6, <1>11 DEF FourthByteInv
  <2>2. CASE Discarded
    <3>1. FlagFollows
      BY <1>5, <2>1, <2>2 DEF Discarded, RedundantFlag
    <3>2. UNCHANGED <<hdlc_state, phase>> /\ i' = 4
      BY <1>11, <2>2 DEF Discarded
    <3>3. 4 < Len(src) /\ src[5] = HDLC_FLAG_SEQUENCE
      BY <1>2, <1>11, <3>1 DEF FlagFollows
    <3>4. i' < Len(src') /\ AtFlag'
      BY <1>1, <3>2, <3>3 DEF AtFlag, Here
    <3> QED
      BY <1>1, <1>8, <2>1, <3>2, <3>4 DEF FourthByteInv
  <2>3. CASE Closed
    <3>1. /\ UNCHANGED <<hdlc_state.start_index, hdlc_state.src_index>> /\ i' = 3
          /\ hdlc_state'.dest_index = 0 /\ hdlc_state'.end_index = hdlc_state'.src_index
      BY <1>11, <2>1, <2>3 DEF Closed, NothingStored
    <3>2. hdlc_state'.control_escape = hdlc_state.control_escape
      BY <2>3 DEF Closed
    <3> QED
      BY <1>8, <2>1, <3>1, <3>2 DEF FourthByteInv
  <2>4. CASE Taken
    <3>1. IsData
      BY <1>5, <2>1
    <3>2. Wrap(placed + 1) = 1 /\ Value = src[4]
      BY <2>1, IntMaxAssumption DEF Wrap, Value
    <3>3. /\ hdlc_state'.dest_index = 1
          /\ dest' = [k \in DOMAIN dest \cup {0} |-> IF k = 0 THEN src[4] ELSE dest[k]]
      BY <2>1, <2>4, <3>1, <3>2 DEF Taken
    <3>4. FirstStored'
      BY <1>1, <3>3 DEF FirstStored
    <3>5. Distance' = 4 /\ InFrame' /\ i' = 4 /\ phase' = "scan"
      BY <1>7, <1>11, <2>1, <2>4 DEF Taken
    <3> QED
      BY <3>4, <3>5 DEF FourthByteInv
  <2> QED
    BY <1>1, <2>1, <2>2, <2>3, <2>4 DEF Skipped, Opened, Escaped
<1>12. CASE i >= 4
  <2>1. InFrame /\ Distance >= 1
    BY <1>1, <1>12 DEF FourthByteInv
  <2>2. CASE FirstStored
    <3>1. FirstStored' /\ InFrame' /\ Distance' >= 1
      <4>1. CASE Discarded
        BY <1>1, <1>8, <2>1, <2>2, <4>1 DEF Discarded, FirstStored
      <4>2. CASE Closed \/ Escaped \/ (Taken /\ ~IsData)
        <5>1. FirstStored'
          BY <1>1, <2>2, <4>2 DEF Closed, Escaped, Taken, NothingStored, FirstStored
        <5>2. InFrame' /\ Distance' >= 1
          BY <1>2, <1>7, <1>8, <2>1, <4>2 DEF Closed, Escaped, Taken
        <5> QED
          BY <5>1, <5>2
      <4>3. CASE Taken /\ IsData
        <5>1. Wrap(placed + 1) = placed + 1
          <6>1. placed \in Nat /\ placed < INT_MAX /\ INT_MAX \in Nat
            BY <1>1, <1>2, <2>1, DistanceArithmetic, IntMaxAssumption
            DEF StoredBelowIndex, ParserInv
          <6> HIDE DEF placed
          <6> QED
            BY <6>1 DEF Wrap
        <5>2. FirstStored'
          BY <1>1, <1>2, <2>2, <4>3, <5>1 DEF Taken, FirstStored
        <5>3. InFrame' /\ Distance' >= 1
          BY <1>2, <1>7, <2>1, <4>3 DEF Taken
        <5> QED
          BY <5>2, <5>3
      <4> QED
        BY <1>1, <2>1, <4>1, <4>2, <4>3 DEF Skipped, Opened
    <3>2. /\ i' >= 4
          /\ phase' = "return" => hdlc_state'.end_index = hdlc_state'.src_index
      BY <1>1, <1>12 DEF Skipped, Discarded, Opened, Closed, Escaped, Taken, Counted
    <3>3. i' \in Nat
      BY <1>1 DEF Skipped, Discarded, Opened, Closed, Escaped, Taken, Counted
    <3> QED
      BY <3>1, <3>2, <3>3 DEF FourthByteInv
  <2>3. CASE Distance = 3 /\ AtFlag
    <3>1. CASE Discarded
      <4>1. FlagFollows
        BY <1>5, <2>1, <2>3, <3>1 DEF Discarded, RedundantFlag
      <4>2. UNCHANGED <<hdlc_state, phase>> /\ i' = i + 1
        BY <3>1 DEF Discarded
      <4>3. i + 1 < Len(src) /\ src[(i + 1) + 1] = HDLC_FLAG_SEQUENCE
        BY <1>1, <1>2, <4>1 DEF FlagFollows
      <4>4. i' < Len(src') /\ AtFlag'
        BY <1>1, <4>2, <4>3 DEF AtFlag, Here
      <4> QED
        BY <1>1, <1>8, <1>12, <2>1, <2>3, <4>2, <4>4 DEF FourthByteInv
    <3>2. CASE Closed
      <4>1. /\ UNCHANGED <<hdlc_state.start_index, hdlc_state.src_index, i>>
            /\ hdlc_state'.end_index = hdlc_state'.src_index /\ AtFlag
        BY <3>2 DEF Closed
      <4>2. AtFlag' /\ i' < Len(src')
        BY <1>1, <4>1 DEF AtFlag, Here
      <4> QED
        BY <1>1, <1>8, <1>12, <2>1, <2>3, <4>1, <4>2 DEF FourthByteInv
    <3> QED
      BY <1>1, <1>4, <2>1, <2>3, <3>1, <3>2 DEF Skipped, Opened, Escaped, Taken, AtFlag
  <2> QED
    BY <1>12, <2>2, <2>3 DEF FourthByteInv
<1> QED
  BY <1>1, <1>9, <1>10, <1>11, <1>12

LEMMA NextReport ==
  ASSUME ~AnyCut, IInv, BuffersWhole, PlaceInv, ReportInv, IndexInRange, IndexInRange',
         [Next]_vars
  PROVE  ReportInv'
<1>1. CASE UNCHANGED parserVars
  BY <1>1
  DEF parserVars, ReportInv, ReportableBuffer, FrameBeginsBuffer, FourthByteInv, FirstStored,
      InFrame, Distance, AtFlag, Here
<1>2. ASSUME NEW n \in 1 .. Len(line), DecodeArrived(n)
      PROVE  ReportInv'
  <2>1. phase = "idle" /\ phase' = "scan" /\ i' = 0 /\ hdlc_state' = hdlc_state
    BY <1>2 DEF DecodeArrived, hdlc_decode_recived_raw_data, GetData
  <2>2. InFrame' => Distance' = 1
    BY <2>1 DEF PlaceInv, JustOpenedBetween, Distance, InFrame
  <2> QED
    BY <2>1, <2>2 DEF ReportInv, FourthByteInv
<1>3. CASE Scan
  <2>1. phase = "scan" /\ src' = src
    BY <1>3, ScanEffect DEF IInv, ParserInv
  <2>2. ReportableBuffer' => ReportableBuffer
    BY <2>1 DEF ReportableBuffer, FrameBeginsBuffer
  <2> QED
    BY <1>3, <2>1, <2>2, ScanReport DEF ReportInv, PlaceInv, IInv
<1>4. CASE DecodeError \/ DecodeReject \/ DecodeAccept
  BY <1>4, ReturnIdle DEF DecodeError, DecodeReject, DecodeAccept, ReportInv, ReportableBuffer
<1> QED
  BY <1>1, <1>2, <1>3, <1>4
  DEF Next, vars, init_hdlc_client, hdlc_connect, hdlc_send_data, hdlc_get_raw_frame,
      hdlc_timeout_handler, PeerSend

(* Only an accepted I-frame stores a byte, and it is long enough.          *)
LEMMA ReportStep ==
  ASSUME IInv, Types, PlaceInv, ReportInv, IndexInRange, IndexInRange', [Next]_vars
  PROVE  recived_data' # recived_data /\ FrameBeginsBuffer /\ src[4] # HDLC_CONTROL_ESCAPE
           => recived_data'[Len(recived_data')] = dest[0]
<1> SUFFICES ASSUME recived_data' # recived_data, FrameBeginsBuffer,
                    src[4] # HDLC_CONTROL_ESCAPE
             PROVE  recived_data'[Len(recived_data')] = dest[0]
  OBVIOUS
<1>1. DecodeAccept
  BY DEF Next, vars, clientVars, init_hdlc_client, hdlc_connect, hdlc_send_data,
         hdlc_get_raw_frame, DecodeArrived, hdlc_decode_recived_raw_data, DecodeError,
         DecodeReject, hdlc_timeout_handler, PeerSend
<1>2. FrameFound /\ FrameValid /\ phase # "idle"
  BY <1>1 DEF DecodeAccept, ReturnFrame, Returning
<1>3. phase = "return" /\ InFrame /\ i \in Nat /\ hdlc_state \in HdlcState
  BY <1>2
  DEF FrameFound, IInv, ParserInv, ParserTypeOK, EndOnlyAtFlag, InFrame, HdlcState, Int16
<1>4. FourthByteInv
  BY <1>2 DEF ReportInv, ReportableBuffer
<1>5. FirstStored
  <2> DEFINE start == hdlc_state.start_index
             here == hdlc_state.src_index
  <2>1. /\ i >= 3 /\ here >= Wrap(start + 4) /\ here - start >= 1
        /\ i = 3 => here - start = 3
        /\ i >= 4 => FirstStored \/ here - start = 3
    BY <1>2, <1>3, <1>4 DEF FourthByteInv, FrameValid, Distance
  <2>2. start \in Nat /\ here \in Nat /\ here <= INT_MAX - 4 /\ INT_MAX \in Nat
    BY <1>3, IntMaxAssumption DEF InFrame, IndexInRange, HdlcState, Int16
  <2> HIDE DEF start, here
  <2>3. Wrap(start + 4) = start + 4
    BY <2>1, <2>2 DEF Wrap
  <2> QED
    BY <1>3, <2>1, <2>2, <2>3
<1>6. PICK byte \in ReportedByte : recived_data' = Append(recived_data, byte)
  BY <1>1 DEF DecodeAccept
<1>7. byte = src[4]
  BY <1>6 DEF ReportedByte, FrameBeginsBuffer
<1>8. recived_data'[Len(recived_data')] = byte
  BY <1>6 DEF Types, CallTypes
<1> QED
  BY <1>5, <1>7, <1>8 DEF FirstStored

(* The byte the client reports for a frame at the beginning of a buffer is *)
(* the first payload byte, whatever the frame is and whatever was lost or  *)
(* damaged before it.                                                      *)
THEOREM FirstByteReported ==
  ASSUME ~AnyCut
  PROVE  Spec /\ []IndexInRange => ReportsPayload
<1>1. Init => ReportInv
  BY DEF Init, ParserInit, ReportInv, ReportableBuffer
<1>2. IInv /\ BuffersWhole /\ [Next]_vars => BuffersWhole'
  BY NextBuffers
<1>3. IInv /\ BuffersWhole /\ BuffersWhole' /\ PlaceInv /\ IndexInRange /\ IndexInRange'
        /\ [Next]_vars => PlaceInv'
  BY NextPlace
<1>4. IInv /\ BuffersWhole /\ PlaceInv /\ ReportInv /\ IndexInRange /\ IndexInRange'
        /\ [Next]_vars => ReportInv'
  BY NextReport
<1>5. Types /\ IInv /\ [Next]_vars => Types'
  BY NextTypes DEF IInv, ParserInv
<1>6. IInv /\ Types /\ PlaceInv /\ ReportInv /\ IndexInRange /\ IndexInRange' /\ [Next]_vars
        => [recived_data' # recived_data /\ FrameBeginsBuffer /\ src[4] # HDLC_CONTROL_ESCAPE
              => recived_data'[Len(recived_data')] = dest[0]]_vars
  BY ReportStep
<1> QED
  BY <1>1, <1>2, <1>3, <1>4, <1>5, <1>6, InitTypes, InitBuffers, InitPlace, Invariance, PTL
  DEF Spec, ReportsPayload

----------------------------------------------------------------------------
(* What a buffer is made of when none ends inside a frame: the bytes that  *)
(* have become of each frame sent, one after the other.  An arrival is at  *)
(* position first, begins with a flag or with none, goes on with the       *)
(* stuffed bytes of plain and ends with a flag; of is the number of its    *)
(* message.                                                                *)
Piece == [first : Nat, flags : 0 .. 1, plain : Seq(Byte), of : Nat]
Inner(x) == x.first + x.flags
EndOf(x) == Inner(x) + Len(Stuffed(x.plain))

LiesIn(s, x) ==
  /\ x.first >= 1 /\ EndOf(x) <= Len(s)
  /\ x.flags = 1 => s[x.first] = HDLC_FLAG_SEQUENCE
  /\ \A k \in 1 .. Len(Stuffed(x.plain)) : s[Inner(x) + k - 1] = Stuffed(x.plain)[k]
  /\ s[EndOf(x)] = HDLC_FLAG_SEQUENCE

(* It is the whole frame of its message, or the comparison of the fcs      *)
(* fails.                                                                  *)
WholeOf(x, m) == x.plain = Sent(m.control, m.data)
Detected(x) == RegisterAfter(x.plain) # FCS_GOOD_VALUE

LEMMA PieceType ==
  ASSUME NEW x \in Piece
  PROVE  /\ x.first \in Nat /\ x.flags \in 0 .. 1 /\ x.plain \in Seq(Byte) /\ x.of \in Nat
         /\ Stuffed(x.plain) \in Seq(Byte) /\ Len(Stuffed(x.plain)) \in Nat
         /\ Len(Stuffed(x.plain)) >= Len(x.plain)
         /\ Inner(x) \in Nat /\ EndOf(x) \in Nat
         /\ EndOf(x) = Inner(x) + Len(Stuffed(x.plain))
         /\ x.first <= Inner(x) /\ Inner(x) <= x.first + 1
<1>1. x.first \in Nat /\ x.flags \in 0 .. 1 /\ x.plain \in Seq(Byte) /\ x.of \in Nat
  BY DEF Piece
<1>2. /\ Stuffed(x.plain) \in Seq(Byte) /\ Len(Stuffed(x.plain)) \in Nat
      /\ Len(Stuffed(x.plain)) >= Len(x.plain)
  BY <1>1, StuffedType
<1>3. Inner(x) \in Nat /\ x.first <= Inner(x) /\ Inner(x) <= x.first + 1
  BY <1>1 DEF Inner
<1> QED
  BY <1>1, <1>2, <1>3 DEF EndOf

LEMMA BytesJoined ==
  ASSUME NEW s \in Seq(Byte), NEW t \in Seq(Byte), NEW both, both = s \o t
  PROVE  /\ both \in Seq(Byte) /\ Len(both) = Len(s) + Len(t)
         /\ \A k \in 1 .. Len(s) + Len(t) :
              both[k] = IF k <= Len(s) THEN s[k] ELSE t[k - Len(s)]
BY ConcatProperties

LEMMA Framing ==
  ASSUME NEW s \in Seq(Byte)
  PROVE  LET frame == <<HDLC_FLAG_SEQUENCE>> \o s \o <<HDLC_FLAG_SEQUENCE>>
         IN  /\ frame \in Seq(Byte) /\ Len(frame) = Len(s) + 2
             /\ frame[1] = HDLC_FLAG_SEQUENCE /\ frame[Len(s) + 2] = HDLC_FLAG_SEQUENCE
             /\ \A k \in 1 .. Len(s) : frame[k + 1] = s[k]
<1> DEFINE flag == <<HDLC_FLAG_SEQUENCE>>
           opened == flag \o s
           frame == opened \o flag
<1>1. flag \in Seq(Byte) /\ Len(flag) = 1 /\ flag[1] = HDLC_FLAG_SEQUENCE
  <2>1. HDLC_FLAG_SEQUENCE \in Byte
    BY DEF HDLC_FLAG_SEQUENCE, Byte
  <2> QED
    BY <2>1
<1>2. Len(s) \in Nat
  OBVIOUS
<1> HIDE DEF flag
<1>3. /\ opened \in Seq(Byte) /\ Len(opened) = Len(flag) + Len(s)
      /\ \A k \in 1 .. Len(flag) + Len(s) :
           opened[k] = IF k <= Len(flag) THEN flag[k] ELSE s[k - Len(flag)]
  BY <1>1, ConcatProperties
<1>0. frame = opened \o flag
  OBVIOUS
<1> HIDE DEF opened, frame
<1>4. /\ frame \in Seq(Byte) /\ Len(frame) = Len(opened) + Len(flag)
      /\ \A k \in 1 .. Len(opened) + Len(flag) :
           frame[k] = IF k <= Len(opened) THEN opened[k] ELSE flag[k - Len(opened)]
  BY <1>0, <1>1, <1>3, BytesJoined
<1>5. \A k \in 1 .. Len(s) : frame[k + 1] = s[k]
  <2> TAKE k \in 1 .. Len(s)
  <2>1. k + 1 \in 1 .. Len(opened) + Len(flag) /\ k + 1 <= Len(opened)
        /\ k + 1 \in 1 .. Len(flag) + Len(s) /\ ~(k + 1 <= Len(flag)) /\ (k + 1) - Len(flag) = k
    BY <1>1, <1>2, <1>3
  <2> QED
    BY <1>3, <1>4, <2>1
<1>6. frame[1] = HDLC_FLAG_SEQUENCE /\ frame[Len(s) + 2] = HDLC_FLAG_SEQUENCE
  BY <1>1, <1>2, <1>3, <1>4
<1>7. Len(frame) = Len(s) + 2
  BY <1>1, <1>2, <1>3, <1>4
<1> QED
  BY <1>4, <1>5, <1>6, <1>7 DEF frame, opened, flag

(* Two bytes that need no stuffing at the head of a frame.                 *)
LEMMA StuffedHead ==
  ASSUME NEW a \in Byte \ Special, NEW c \in Byte \ Special, NEW rest \in Seq(Byte)
  PROVE  LET s == Stuffed(<<a, c>> \o rest)
         IN  /\ s \in Seq(Byte) /\ <<a, c>> \o rest \in Seq(Byte)
             /\ Len(<<a, c>> \o rest) = Len(rest) + 2
             /\ (<<a, c>> \o rest)[1] = a /\ (<<a, c>> \o rest)[2] = c
             /\ Len(s) = Len(Stuffed(rest)) + 2 /\ s[1] = a /\ s[2] = c
             /\ \A k \in 1 .. Len(Stuffed(rest)) : s[k + 2] = Stuffed(rest)[k]
<1> DEFINE head == <<a, c>>
           bytes == head \o rest
           t == Stuffed(rest)
           s == Stuffed(bytes)
<1>1. head \in Seq(Byte) /\ Len(head) = 2 /\ head[1] = a /\ head[2] = c
  OBVIOUS
<1>2. Stuffed(head) = head
  <2>1. hdlc_escape_value(a) = <<a>> /\ hdlc_escape_value(c) = <<c>>
    BY DEF hdlc_escape_value, Special
  <2> QED
    BY <2>1, PlainPair
<1> HIDE DEF head
<1>3. bytes \in Seq(Byte) /\ s = head \o t /\ t \in Seq(Byte) /\ s \in Seq(Byte)
  <2>1. bytes \in Seq(Byte)
    BY <1>1
  <2>2. s = Stuffed(head) \o t
    BY <1>1, StuffedConcat
  <2>3. t \in Seq(Byte) /\ s \in Seq(Byte)
    BY <2>1, StuffedType
  <2> QED
    BY <1>2, <2>1, <2>2, <2>3
<1>4. /\ Len(bytes) = Len(head) + Len(rest)
      /\ \A k \in 1 .. Len(head) + Len(rest) :
           bytes[k] = IF k <= Len(head) THEN head[k] ELSE rest[k - Len(head)]
  BY <1>1, ConcatProperties
<1> HIDE DEF bytes, t, s
<1>5. /\ Len(s) = Len(head) + Len(t)
      /\ \A k \in 1 .. Len(head) + Len(t) :
           s[k] = IF k <= Len(head) THEN head[k] ELSE t[k - Len(head)]
  BY <1>1, <1>3, ConcatProperties
<1>6. Len(rest) \in Nat /\ Len(t) \in Nat
  BY <1>3
<1>7. Len(bytes) = Len(rest) + 2 /\ bytes[1] = a /\ bytes[2] = c
  BY <1>1, <1>4, <1>6
<1>8. Len(s) = Len(t) + 2 /\ s[1] = a /\ s[2] = c
  BY <1>1, <1>5, <1>6
<1>9. \A k \in 1 .. Len(t) : s[k + 2] = t[k]
  <2> TAKE k \in 1 .. Len(t)
  <2>1. k + 2 \in 1 .. Len(head) + Len(t) /\ ~(k + 2 <= Len(head)) /\ (k + 2) - Len(head) = k
    BY <1>1, <1>6
  <2> QED
    BY <1>5, <2>1
<1> QED
  BY <1>3, <1>7, <1>8, <1>9 DEF s, bytes, t, head

(* What arrives of a frame, on its own.                                    *)
IsPieceOf(bytes, x, m) ==
  /\ x \in Piece /\ x.first = 1 /\ EndOf(x) = Len(bytes) /\ LiesIn(bytes, x)
  /\ Len(x.plain) >= 2
  /\ WholeOf(x, m) \/ Detected(x)

Consists(bytes, flags, plain) ==
  /\ Len(bytes) = Len(Stuffed(plain)) + flags + 1
  /\ flags = 1 => bytes[1] = HDLC_FLAG_SEQUENCE
  /\ \A k \in 1 .. Len(Stuffed(plain)) : bytes[k + flags] = Stuffed(plain)[k]
  /\ bytes[Len(bytes)] = HDLC_FLAG_SEQUENCE

LEMMA PieceFrom ==
  ASSUME NEW bytes \in Seq(Byte), NEW flags \in 0 .. 1, NEW plain \in Seq(Byte), NEW n \in Nat,
         Consists(bytes, flags, plain)
  PROVE  \E x \in Piece :
           /\ x.first = 1 /\ x.plain = plain /\ x.of = n
           /\ EndOf(x) = Len(bytes) /\ LiesIn(bytes, x)
<1> DEFINE x == [first |-> 1, flags |-> flags, plain |-> plain, of |-> n]
<1>1. x \in Piece /\ x.first = 1 /\ x.plain = plain /\ x.of = n /\ x.flags = flags
  BY DEF Piece
<1> HIDE DEF x
<1>2. Inner(x) = 1 + flags
  BY <1>1 DEF Inner
<1>3. EndOf(x) = Len(bytes) /\ Len(bytes) \in Nat
  <2>1. Len(Stuffed(plain)) \in Nat
    BY StuffedType
  <2> QED
    BY <1>1, <1>2, <2>1 DEF EndOf, Consists
<1>4. LiesIn(bytes, x)
  BY <1>1, <1>2, <1>3 DEF LiesIn, Consists
<1> QED
  BY <1>1, <1>3, <1>4

LEMMA ArrivalPiece ==
  ASSUME NEW m \in PeerMessage, NEW bytes \in Arrivals(hdlc_frame_data(m.control, m.data)),
         bytes # <<>>, NEW n \in Nat
  PROVE  \E x : IsPieceOf(bytes, x, m) /\ x.of = n
<1> DEFINE sent == Sent(m.control, m.data)
           a == HDLC_ALL_STATION_ADDR
           c == hdlc_frame_control_type(m.control)
           s == Stuffed(sent)
           frame == hdlc_frame_data(m.control, m.data)
<1>1. m.control \in Control /\ m.data \in Seq(Byte)
  BY PeerAssumption
<1>2. /\ sent \in Seq(Byte) /\ \E rest \in Seq(Byte) : sent = <<a, c>> \o rest
      /\ frame = <<HDLC_FLAG_SEQUENCE>> \o s \o <<HDLC_FLAG_SEQUENCE>>
  BY <1>1, SentShape
<1>3. a \in Byte \ Special /\ c \in Byte \ Special /\ 0 \in Byte \ Special
  <2>1. a \in Byte \ Special /\ 0 \in Byte \ Special
    BY DEF HDLC_ALL_STATION_ADDR, Byte, Special, HDLC_FLAG_SEQUENCE, HDLC_CONTROL_ESCAPE
  <2>2. c \in Byte \ Special
    BY <1>1, ControlByte DEF Special
  <2> QED
    BY <2>1, <2>2
<1>4. PICK rest \in Seq(Byte) : sent = <<a, c>> \o rest
  BY <1>2
<1>5. RegisterAfter(<<a, 0>> \o rest) # FCS_GOOD_VALUE
  BY <1>1, <1>4, ZeroControlRejected
<1>6. <<0>> \o sent \in Seq(Byte) /\ RegisterAfter(<<0>> \o sent) # FCS_GOOD_VALUE
  BY <1>1, ZeroAheadRejected
<1>7. bytes \in {frame, [frame EXCEPT ![1] = 0], [frame EXCEPT ![3] = 0]}
  BY DEF Arrivals
<1> DEFINE t == Stuffed(rest)
<1> HIDE DEF a, c, sent, frame, s
<1>8. /\ s \in Seq(Byte) /\ Len(sent) = Len(rest) + 2 /\ Len(rest) \in Nat
      /\ Len(s) = Len(t) + 2 /\ s[1] = a /\ Len(t) \in Nat
      /\ \A k \in 1 .. Len(t) : s[k + 2] = t[k]
  <2>1. Len(t) \in Nat /\ Len(rest) \in Nat
    BY StuffedType
  <2> QED
    BY <1>3, <1>4, <2>1, StuffedHead DEF s
<1>9. /\ frame \in Seq(Byte) /\ Len(frame) = Len(s) + 2 /\ Len(s) \in Nat
      /\ frame[1] = HDLC_FLAG_SEQUENCE /\ frame[Len(s) + 2] = HDLC_FLAG_SEQUENCE
      /\ \A k \in 1 .. Len(s) : frame[k + 1] = s[k]
  BY <1>2, <1>8, Framing
<1>10. CASE bytes = frame
  <2>2. \E x \in Piece : /\ x.first = 1 /\ x.plain = sent /\ x.of = n
                         /\ EndOf(x) = Len(bytes) /\ LiesIn(bytes, x)
    <3> HIDE DEF t
    <3>1. bytes \in Seq(Byte) /\ sent \in Seq(Byte) /\ 1 \in 0 .. 1
      BY <1>2, <1>9, <1>10
    <3>2. Consists(bytes, 1, sent)
      BY <1>9, <1>10 DEF Consists, s
    <3> QED
      BY <3>1, <3>2, PieceFrom
  <2>3. Len(sent) >= 2
    BY <1>8
  <2> QED
    BY <2>2, <2>3 DEF IsPieceOf, WholeOf, sent
<1>11. CASE bytes = [frame EXCEPT ![1] = 0]
  <2> DEFINE plain == <<0>> \o sent
             z == Stuffed(plain)
  <2>1. /\ bytes \in Seq(Byte) /\ Len(bytes) = Len(s) + 2 /\ bytes[1] = 0
        /\ \A k \in 1 .. Len(s) + 1 : bytes[k + 1] = frame[k + 1]
    BY <1>3, <1>9, <1>11
  <2>2. z = <<0>> \o s
    <3>1. <<0>> \in Seq(Byte) /\ hdlc_escape_value(0) = <<0>>
      BY <1>3 DEF hdlc_escape_value, Special
    <3>2. Stuffed(<<0>>) = <<0>>
      <4>1. <<0>> = Append(<<>>, 0) /\ <<>> \in Seq(Byte)
        OBVIOUS
      <4>2. Stuffed(Append(<<>>, 0)) = Stuffed(<<>>) \o <<0>>
        BY <1>3, <3>1, <4>1, StuffedAppend
      <4> QED
        BY <3>1, <4>1, <4>2, StuffedEmpty, ConcatEmptySeq
    <3>3. Stuffed(<<0>> \o sent) = Stuffed(<<0>>) \o Stuffed(sent)
      BY <1>2, <3>1, StuffedConcat
    <3> QED
      BY <3>2, <3>3 DEF s
  <2>3. /\ Len(z) = Len(s) + 1 /\ z[1] = 0
        /\ \A k \in 1 .. Len(s) : z[k + 1] = s[k]
    <3> DEFINE one == <<0>>
    <3>1. one \in Seq(Byte) /\ Len(one) = 1 /\ one[1] = 0 /\ z = one \o s
      BY <1>3, <2>2
    <3> HIDE DEF one, z
    <3>2. /\ Len(z) = Len(one) + Len(s)
          /\ \A k \in 1 .. Len(one) + Len(s) :
               z[k] = IF k <= Len(one) THEN one[k] ELSE s[k - Len(one)]
      BY <1>8, <3>1, ConcatProperties
    <3>3. \A k \in 1 .. Len(s) : z[k + 1] = s[k]
      <4> TAKE k \in 1 .. Len(s)
      <4>1. k + 1 \in 1 .. Len(one) + Len(s) /\ ~(k + 1 <= Len(one)) /\ (k + 1) - Len(one) = k
        BY <1>9, <3>1
      <4> QED
        BY <3>2, <4>1
    <3> QED
      BY <1>9, <3>1, <3>2, <3>3
  <2> HIDE DEF z
  <2>4. \A k \in 1 .. Len(z) : bytes[k + 0] = z[k]
    <3> TAKE k \in 1 .. Len(z)
    <3>1. k + 0 = k /\ k \in 1 .. Len(s) + 1
      BY <1>9, <2>3
    <3>2. CASE k = 1
      BY <2>1, <2>3, <3>1, <3>2
    <3>3. CASE k # 1
      <4> DEFINE l == k - 1
      <4>1. l \in 1 .. Len(s) /\ k = l + 1
        BY <1>9, <3>1, <3>3
      <4> HIDE DEF l
      <4>2. l \in 1 .. Len(s) + 1
        BY <1>9, <4>1
      <4> QED
        BY <1>9, <2>1, <2>3, <3>1, <4>1, <4>2
    <3> QED
      BY <3>2, <3>3
  <2>5. bytes[Len(bytes)] = HDLC_FLAG_SEQUENCE
    <3>1. Len(s) + 1 \in 1 .. Len(s) + 1 /\ (Len(s) + 1) + 1 = Len(s) + 2
      BY <1>9
    <3> QED
      BY <1>9, <2>1, <3>1
  <2>6. \E x \in Piece : /\ x.first = 1 /\ x.plain = plain /\ x.of = n
                         /\ EndOf(x) = Len(bytes) /\ LiesIn(bytes, x)
    <3>1. bytes \in Seq(Byte) /\ plain \in Seq(Byte) /\ 0 \in 0 .. 1
      BY <1>6, <2>1
    <3> HIDE DEF plain, t
    <3>2. Len(bytes) = Len(z) + 0 + 1
      BY <1>9, <2>1, <2>3
    <3>3. Consists(bytes, 0, plain)
      BY <2>4, <2>5, <3>2 DEF Consists, z
    <3> QED
      BY <3>1, <3>3, PieceFrom
  <2>7. Len(plain) >= 2
    BY <1>2, <1>8
  <2> QED
    BY <1>6, <2>6, <2>7 DEF IsPieceOf, Detected
<1>12. CASE bytes = [frame EXCEPT ![3] = 0]
  <2> DEFINE plain == <<a, 0>> \o rest
             z == Stuffed(plain)
  <2>1. /\ bytes \in Seq(Byte) /\ Len(bytes) = Len(s) + 2 /\ bytes[1] = frame[1]
        /\ bytes[2] = frame[2] /\ bytes[3] = 0
        /\ \A k \in 1 .. Len(t) + 1 : bytes[k + 3] = frame[k + 3]
    BY <1>3, <1>8, <1>9, <1>12
  <2>2. /\ Len(z) = Len(s) /\ z[1] = a /\ z[2] = 0 /\ plain \in Seq(Byte)
        /\ Len(plain) = Len(rest) + 2
        /\ \A k \in 1 .. Len(t) : z[k + 2] = t[k]
    BY <1>3, <1>8, StuffedHead
  <2> HIDE DEF plain, z
  <2>3. \A k \in 1 .. Len(z) : bytes[k + 1] = z[k]
    <3> TAKE k \in 1 .. Len(z)
    <3>1. k \in 1 .. Len(t) + 2
      BY <1>8, <2>2
    <3>2. CASE k = 1
      <4>1. frame[2] = s[1]
        <5>1. 1 \in 1 .. Len(s) /\ 1 + 1 = 2
          BY <1>8
        <5> QED
          BY <1>9, <5>1
      <4> QED
        BY <1>8, <2>1, <2>2, <3>2, <4>1
    <3>3. CASE k = 2
      BY <2>1, <2>2, <3>3
    <3>4. CASE k \notin {1, 2}
      <4> DEFINE l == k - 2
      <4>1. l \in 1 .. Len(t) /\ k = l + 2 /\ l \in 1 .. Len(t) + 1 /\ k + 1 = l + 3
            /\ l + 2 \in 1 .. Len(s) /\ (l + 2) + 1 = l + 3
        BY <1>8, <3>1, <3>4
      <4> HIDE DEF l
      <4>2. bytes[l + 3] = frame[l + 3] /\ z[l + 2] = t[l] /\ s[l + 2] = t[l]
        BY <1>8, <2>1, <2>2, <4>1
      <4>3. frame[l + 3] = s[l + 2]
        <5> DEFINE p == l + 2
        <5>1. p \in 1 .. Len(s) /\ p + 1 = l + 3
          BY <4>1
        <5> HIDE DEF p
        <5>2. frame[p + 1] = s[p]
          BY <1>9, <5>1
        <5> QED
          BY <5>1, <5>2 DEF p
      <4> QED
        BY <3>1, <4>1, <4>2, <4>3
    <3> QED
      BY <3>2, <3>3, <3>4
  <2>4. bytes[Len(bytes)] = HDLC_FLAG_SEQUENCE
    <3>1. Len(t) + 1 \in 1 .. Len(t) + 1 /\ (Len(t) + 1) + 3 = Len(s) + 2
      BY <1>8
    <3> QED
      BY <1>9, <2>1, <3>1
  <2>5. \E x \in Piece : /\ x.first = 1 /\ x.plain = plain /\ x.of = n
                         /\ EndOf(x) = Len(bytes) /\ LiesIn(bytes, x)
    <3>1. bytes \in Seq(Byte) /\ plain \in Seq(Byte) /\ 1 \in 0 .. 1
      BY <2>1, <2>2
    <3>2. Len(bytes) = Len(z) + 1 + 1
      BY <1>9, <2>1, <2>2
    <3> HIDE DEF t
    <3>3. Consists(bytes, 1, plain)
      BY <1>9, <2>1, <2>3, <2>4, <3>2 DEF Consists, z
    <3> QED
      BY <3>1, <3>3, PieceFrom
  <2>6. RegisterAfter(plain) # FCS_GOOD_VALUE /\ Len(plain) >= 2
    BY <1>5, <1>8, <2>2 DEF plain
  <2> QED
    BY <2>5, <2>6 DEF IsPieceOf, Detected
<1> QED
  BY <1>7, <1>10, <1>11, <1>12

----------------------------------------------------------------------------
(* A buffer made of such pieces: from the beginning, and from the end of   *)
(* each piece, it goes on with a piece, or ends there.  numbers are those  *)
(* of the messages it may hold, in messages.                               *)
Honest(x, numbers, messages) ==
  /\ x.of \in numbers /\ Len(x.plain) >= 2
  /\ WholeOf(x, messages[x.of]) \/ Detected(x)

Boundary(pieces) == {0} \cup {EndOf(x) : x \in pieces}

Made(s, pieces, numbers, messages) ==
  /\ pieces \subseteq Piece
  /\ \A x \in pieces : LiesIn(s, x) /\ Honest(x, numbers, messages)
  /\ \A p \in Boundary(pieces) : p = Len(s) \/ \E x \in pieces : x.first = p + 1

LEMMA MadeNone == \A numbers, messages : Made(<<>>, {}, numbers, messages)
BY DEF Made, Boundary

LEMMA MessageKept ==
  ASSUME NEW messages \in Seq(PeerMessage), NEW m \in PeerMessage
  PROVE  /\ Append(messages, m) \in Seq(PeerMessage) /\ Len(messages) \in Nat
         /\ Len(Append(messages, m)) = Len(messages) + 1
         /\ Append(messages, m)[Len(messages) + 1] = m
         /\ \A k \in 1 .. Len(messages) : Append(messages, m)[k] = messages[k]
BY AppendProperties

LEMMA MadeKept ==
  ASSUME NEW messages \in Seq(PeerMessage), NEW m \in PeerMessage,
         NEW numbers \in SUBSET (1 .. Len(messages)), NEW more, numbers \subseteq more,
         NEW s, NEW pieces, Made(s, pieces, numbers, messages)
  PROVE  Made(s, pieces, more, Append(messages, m))
<1>1. ASSUME NEW x, Honest(x, numbers, messages)
      PROVE  Honest(x, more, Append(messages, m))
  <2>1. x.of \in 1 .. Len(messages) /\ x.of \in more
    BY <1>1 DEF Honest
  <2>2. Append(messages, m)[x.of] = messages[x.of]
    BY <2>1, MessageKept
  <2> QED
    BY <1>1, <2>1, <2>2 DEF Honest
<1> QED
  BY <1>1 DEF Made

LEMMA MadeWider ==
  ASSUME NEW numbers, NEW more, numbers \subseteq more, NEW s, NEW pieces, NEW messages,
         Made(s, pieces, numbers, messages)
  PROVE  Made(s, pieces, more, messages)
BY DEF Made, Honest

(* A piece stays one when the buffer goes on.                              *)
LEMMA StillLies ==
  ASSUME NEW s \in Seq(Byte), NEW bytes \in Seq(Byte), NEW x \in Piece, LiesIn(s, x)
  PROVE  LiesIn(s \o bytes, x)
<1> DEFINE both == s \o bytes
           t == Stuffed(x.plain)
<1>1. /\ both \in Seq(Byte) /\ Len(both) = Len(s) + Len(bytes)
      /\ \A k \in 1 .. Len(s) + Len(bytes) :
           both[k] = IF k <= Len(s) THEN s[k] ELSE bytes[k - Len(s)]
  BY BytesJoined
<1> HIDE DEF both
<1>2. Len(s) \in Nat /\ Len(bytes) \in Nat
  OBVIOUS
<1>3. \A k \in 1 .. Len(s) : both[k] = s[k]
  BY <1>1, <1>2
<1>4. /\ x.first \in Nat /\ x.first >= 1 /\ x.first <= Inner(x) /\ EndOf(x) \in Nat
      /\ EndOf(x) = Inner(x) + Len(t) /\ EndOf(x) <= Len(s) /\ Inner(x) \in Nat
      /\ Len(t) \in Nat
  BY PieceType DEF LiesIn
<1>5. x.first \in 1 .. Len(s) /\ EndOf(x) \in 1 .. Len(s)
  BY <1>2, <1>4
<1>6. \A k \in 1 .. Len(t) : both[Inner(x) + k - 1] = t[k]
  <2> TAKE k \in 1 .. Len(t)
  <2> DEFINE p == Inner(x) + k - 1
  <2>1. p \in 1 .. Len(s)
    BY <1>2, <1>4
  <2>2. s[p] = t[k]
    BY DEF LiesIn
  <2> HIDE DEF p
  <2>3. both[p] = t[k]
    BY <1>3, <2>1, <2>2
  <2> QED
    BY <2>3 DEF p
<1>7. EndOf(x) <= Len(both)
  BY <1>1, <1>2, <1>4
<1>8. /\ x.flags = 1 => both[x.first] = HDLC_FLAG_SEQUENCE
      /\ both[EndOf(x)] = HDLC_FLAG_SEQUENCE
  BY <1>3, <1>5 DEF LiesIn
<1> QED
  BY <1>4, <1>6, <1>7, <1>8 DEF LiesIn, both

(* So does one that comes behind it.                                       *)
LEMMA LiesBehind ==
  ASSUME NEW s \in Seq(Byte), NEW bytes \in Seq(Byte), NEW x \in Piece, x.first = 1,
         LiesIn(bytes, x)
  PROVE  \E y \in Piece :
           /\ y.first = Len(s) + 1 /\ EndOf(y) = Len(s) + EndOf(x) /\ y.plain = x.plain
           /\ y.of = x.of /\ LiesIn(s \o bytes, y)
<1> DEFINE both == s \o bytes
           t == Stuffed(x.plain)
           y == [first |-> Len(s) + 1, flags |-> x.flags, plain |-> x.plain, of |-> x.of]
<1>1. /\ both \in Seq(Byte) /\ Len(both) = Len(s) + Len(bytes)
      /\ \A k \in 1 .. Len(s) + Len(bytes) :
           both[k] = IF k <= Len(s) THEN s[k] ELSE bytes[k - Len(s)]
  BY BytesJoined
<1>2. Len(s) \in Nat /\ Len(bytes) \in Nat
  OBVIOUS
<1>3. /\ y \in Piece /\ y.first = Len(s) + 1 /\ y.plain = x.plain /\ y.of = x.of
      /\ y.flags = x.flags
  BY <1>2, PieceType DEF Piece
<1> HIDE DEF both, y
<1>4. \A k \in 1 .. Len(bytes) : both[Len(s) + k] = bytes[k]
  <2> TAKE k \in 1 .. Len(bytes)
  <2> DEFINE p == Len(s) + k
  <2>1. p \in 1 .. Len(s) + Len(bytes) /\ ~(p <= Len(s)) /\ p - Len(s) = k
    BY <1>2
  <2> HIDE DEF p
  <2>2. both[p] = bytes[k]
    BY <1>1, <2>1
  <2> QED
    BY <2>2 DEF p
<1>5. /\ Inner(x) \in Nat /\ EndOf(x) \in Nat /\ EndOf(x) = Inner(x) + Len(t)
      /\ Inner(x) >= 1 /\ EndOf(x) <= Len(bytes) /\ Len(t) \in Nat /\ x.flags \in 0 .. 1
  BY PieceType DEF LiesIn
<1>6. Inner(y) = Len(s) + Inner(x) /\ EndOf(y) = Len(s) + EndOf(x)
  BY SMTT(20), <1>2, <1>3, <1>5 DEF Inner, EndOf
<1>7. \A k \in 1 .. Len(t) : both[Inner(y) + k - 1] = t[k]
  <2> TAKE k \in 1 .. Len(t)
  <2> DEFINE p == Inner(x) + k - 1
  <2>1. p \in 1 .. Len(bytes) /\ Len(s) + p = Inner(y) + k - 1
    BY <1>2, <1>5, <1>6
  <2>2. bytes[p] = t[k]
    BY DEF LiesIn
  <2> HIDE DEF p
  <2>3. both[Len(s) + p] = t[k]
    BY <1>4, <2>1, <2>2
  <2> QED
    BY <2>1, <2>3
<1>8. EndOf(x) \in 1 .. Len(bytes) /\ 1 \in 1 .. Len(bytes)
  BY <1>2, <1>5
<1>9. /\ y.flags = 1 => both[y.first] = HDLC_FLAG_SEQUENCE
      /\ both[EndOf(y)] = HDLC_FLAG_SEQUENCE
  BY <1>3, <1>4, <1>6, <1>8 DEF LiesIn
<1>10. EndOf(y) <= Len(both) /\ y.first >= 1
  BY <1>1, <1>2, <1>3, <1>5, <1>6
<1>11. LiesIn(both, y)
  BY <1>3, <1>7, <1>9, <1>10 DEF LiesIn
<1> QED
  BY <1>3, <1>6, <1>11 DEF both

LEMMA MadeLonger ==
  ASSUME NEW messages \in Seq(PeerMessage), NEW m \in PeerMessage,
         NEW low \in 0 .. Len(messages), NEW s \in Seq(Byte), NEW pieces,
         Made(s, pieces, low + 1 .. Len(messages), messages),
         NEW bytes \in Arrivals(hdlc_frame_data(m.control, m.data)), bytes \in Seq(Byte)
  PROVE  \E more : Made(s \o bytes, more, low + 1 .. Len(messages) + 1, Append(messages, m))
<1> DEFINE both == s \o bytes
           next == Len(messages) + 1
           numbers == low + 1 .. next
           after == Append(messages, m)
<1>1. Made(s, pieces, numbers, after) /\ Len(messages) \in Nat /\ after[next] = m
      /\ next \in numbers
  <2>1. low \in Nat /\ Len(messages) \in Nat /\ low <= Len(messages)
    OBVIOUS
  <2> QED
    <3>1. Made(s, pieces, numbers, after)
      <4>1. /\ low + 1 .. Len(messages) \in SUBSET (1 .. Len(messages))
            /\ low + 1 .. Len(messages) \subseteq numbers
        BY <2>1
      <4> QED
        BY <4>1, MadeKept
    <3>2. after[next] = m
      BY MessageKept
    <3>3. next \in numbers
      BY <2>1
    <3> QED
      BY <2>1, <3>1, <3>2, <3>3
<1>2. CASE bytes = <<>>
  <2>1. both = s
    BY <1>2
  <2> QED
    BY <1>1, <2>1
<1>3. CASE bytes # <<>>
  <2>1. PICK x : IsPieceOf(bytes, x, m) /\ x.of = next
    <3>1. next \in Nat
      BY <1>1
    <3> HIDE DEF next
    <3> QED
      BY <1>3, <3>1, ArrivalPiece
  <2>2. PICK y \in Piece :
           /\ y.first = Len(s) + 1 /\ EndOf(y) = Len(s) + EndOf(x) /\ y.plain = x.plain
           /\ y.of = x.of /\ LiesIn(s \o bytes, y)
    BY <2>1, LiesBehind DEF IsPieceOf
  <2> HIDE DEF next, numbers, after
  <2>3. Honest(y, numbers, after)
    BY <1>1, <2>1, <2>2 DEF Honest, IsPieceOf, WholeOf, Detected
  <2> DEFINE more == pieces \cup {y}
  <2>4. /\ more \subseteq Piece
        /\ \A x_1 \in more : LiesIn(both, x_1) /\ Honest(x_1, numbers, after)
    BY <1>1, <2>2, <2>3, StillLies DEF Made
  <2>5. EndOf(y) = Len(both)
    <3>1. EndOf(x) = Len(bytes) /\ Len(both) = Len(s) + Len(bytes)
      BY <2>1, BytesJoined DEF IsPieceOf
    <3> QED
      BY <2>2, <3>1
  <2>6. \A p \in Boundary(pieces) : \E z \in more : z.first = p + 1
    <3> TAKE p \in Boundary(pieces)
    <3>1. CASE p = Len(s)
      BY <2>2, <3>1
    <3>2. CASE \E z \in pieces : z.first = p + 1
      BY <3>2
    <3> QED
      BY <1>1, <3>1, <3>2 DEF Made
  <2>7. \A p \in Boundary(more) : p \in Boundary(pieces) \/ p = EndOf(y)
    BY DEF Boundary
  <2>8. Made(both, more, numbers, after)
    <3> HIDE DEF both, more
    <3> QED
      BY <2>4, <2>5, <2>6, <2>7 DEF Made
  <2> QED
    BY <2>8 DEF numbers, next, after
<1> QED
  BY <1>2, <1>3

----------------------------------------------------------------------------
(* Where the decoder is in a piece.  In front of one it has taken nothing: *)
(* it waits for a start flag, or the flag that closed the frame before has *)
(* become the start flag of the next.                                      *)
Untouched ==
  InFrame => /\ Distance = 1 /\ hdlc_state.fcs = FCS_INIT_VALUE
             /\ ~hdlc_state.control_escape

Beginning(x) == phase = "scan" /\ Untouched /\ i = x.first - 1
PastEnd(x) == phase = "scan" /\ Untouched /\ i = EndOf(x)

(* The field the second byte makes has been written.                       *)
ControlKnown(bytes, j) ==
  j >= 2 /\ bytes[1] \notin Special /\ bytes[2] \notin Special
    => control = hdlc_get_control_type(bytes[2])

(* A piece without its flag may be passed over; of any other the first j   *)
(* bytes have been taken, and perhaps the escape before the next; or its   *)
(* end has been reached.                                                   *)
PassedOver(x) ==
  phase = "scan" /\ ~InFrame /\ x.flags = 0 /\ i \in Inner(x) - 1 .. EndOf(x) - 1

Taking(x, j, e) ==
  /\ phase = "scan" /\ InFrame
  /\ i = Inner(x) - 1 + (Upto(x.plain, j) + e)
  /\ Distance = 1 + (Upto(x.plain, j) + e)
  /\ hdlc_state.fcs = RegisterAfter(SubSeq(x.plain, 1, j))
  /\ IF e = 1 THEN hdlc_state.control_escape = TRUE /\ x.plain[j + 1] \in Special
              ELSE ~hdlc_state.control_escape
  /\ ControlKnown(x.plain, j)

Ended(x) ==
  /\ phase \in {"scan", "return"} /\ InFrame /\ i < Len(src) /\ AtFlag /\ Distance >= 2
  /\ hdlc_state.fcs = RegisterAfter(x.plain)
  /\ ControlKnown(x.plain, Len(x.plain))

InPiece(x) ==
  \/ PassedOver(x)
  \/ \E j \in 0 .. Len(x.plain) - 1, e \in 0 .. 1 : Taking(x, j, e)
  \/ Ended(x)

(* The bytes of a piece before its end are no flags, its end is one.       *)
LEMMA ByteOfPiece ==
  ASSUME ParserTypeOK, NEW x \in Piece, LiesIn(src, x),
         NEW k \in 0 .. Len(Stuffed(x.plain)) - 1, i = Inner(x) - 1 + k
  PROVE  Here = Stuffed(x.plain)[k + 1] /\ ~AtFlag /\ i < Len(src)
<1> DEFINE t == Stuffed(x.plain)
<1>1. /\ Inner(x) \in Nat /\ Inner(x) >= 1 /\ Len(t) \in Nat /\ k + 1 \in 1 .. Len(t)
      /\ Inner(x) + Len(t) <= Len(src) /\ Len(src) \in Nat
  BY PieceType DEF LiesIn, ParserTypeOK
<1>2. Inner(x) + (k + 1) - 1 = i + 1 /\ i < Len(src)
  BY <1>1
<1>3. src[Inner(x) + (k + 1) - 1] = t[k + 1]
  BY <1>1 DEF LiesIn
<1>4. t[k + 1] # HDLC_FLAG_SEQUENCE
  BY <1>1, PieceType, NoFlagInside
<1> HIDE DEF t
<1>5. Here = t[k + 1]
  BY <1>2, <1>3 DEF Here
<1> QED
  BY <1>2, <1>4, <1>5 DEF AtFlag, t

LEMMA EndOfPiece ==
  ASSUME ParserTypeOK, NEW x \in Piece, LiesIn(src, x), i = EndOf(x) - 1
  PROVE  AtFlag /\ i < Len(src) /\ i + 1 = EndOf(x)
<1>1. EndOf(x) \in Nat /\ EndOf(x) <= Len(src) /\ Len(src) \in Nat
  BY PieceType DEF LiesIn, ParserTypeOK
<1>2. i + 1 = EndOf(x) /\ i < Len(src)
  BY <1>1
<1> QED
  BY <1>2 DEF LiesIn, AtFlag, Here

LEMMA NoSpecials ==
  /\ HDLC_CONTROL_ESCAPE # HDLC_FLAG_SEQUENCE
  /\ \A v : v \notin Special => v # HDLC_CONTROL_ESCAPE
  /\ Special = {HDLC_FLAG_SEQUENCE, HDLC_CONTROL_ESCAPE}
BY DEF Special, HDLC_CONTROL_ESCAPE, HDLC_FLAG_SEQUENCE

(* What one turn of the loop does where it is.                             *)
LEMMA ScanHere ==
  ASSUME ParserTypeOK, IndexInRange, IndexInRange', Scan
  PROVE  /\ phase = "scan" /\ i \in Nat /\ i < Len(src) /\ src' = src
         /\ ~InFrame /\ ~AtFlag => Skipped
         /\ ~InFrame /\ AtFlag => Opened \/ Discarded
         /\ ~InFrame /\ AtFlag /\ ~FlagFollows => Opened
         /\ InFrame /\ AtFlag => Closed \/ Discarded
         /\ InFrame /\ AtFlag /\ Distance = 1 => Discarded
         /\ InFrame /\ AtFlag /\ Distance # 1 /\ Discarded => FlagFollows
         /\ InFrame /\ Here = HDLC_CONTROL_ESCAPE => Escaped
         /\ InFrame /\ ~AtFlag /\ Here # HDLC_CONTROL_ESCAPE => Taken
         /\ Opened => Distance' = 1 /\ InFrame'
         /\ Escaped \/ Taken => Distance' = Distance + 1 /\ InFrame'
         /\ Closed \/ Discarded => Distance' = Distance /\ (InFrame' <=> InFrame)
<1>1. /\ phase = "scan" /\ i \in Nat /\ i < Len(src) /\ src' = src
      /\ Skipped \/ Discarded \/ Opened \/ Closed \/ Escaped \/ Taken
  BY ScanEffect
<1>2. Here = HDLC_CONTROL_ESCAPE => ~AtFlag
  BY NoSpecials DEF AtFlag
<1>3. InFrame => (JustOpened <=> Distance = 1)
  BY DistanceArithmetic
<1>4. Opened => Distance' = 1 /\ InFrame'
  BY DistanceArithmetic DEF Opened, Counted, IndexInRange, InFrame
<1>5. Escaped \/ Taken => Distance' = Distance + 1 /\ InFrame'
  BY DistanceArithmetic DEF Escaped, Taken, Counted, Kept, InFrame
<1>6. Closed \/ Discarded => Distance' = Distance /\ (InFrame' <=> InFrame)
  BY DEF Closed, Discarded, Distance, InFrame
<1>7. /\ ~InFrame /\ ~AtFlag => Skipped
      /\ ~InFrame /\ AtFlag => Opened \/ Discarded
      /\ ~InFrame /\ AtFlag /\ ~FlagFollows => Opened
      /\ InFrame /\ AtFlag => Closed \/ Discarded
  BY <1>1, <1>2 DEF Skipped, Discarded, Opened, Closed, Escaped, Taken, RedundantFlag
<1>8. /\ InFrame /\ AtFlag /\ Distance = 1 => Discarded
      /\ InFrame /\ AtFlag /\ Distance # 1 /\ Discarded => FlagFollows
  BY <1>3, <1>7 DEF Discarded, Closed, RedundantFlag
<1>9. /\ InFrame /\ Here = HDLC_CONTROL_ESCAPE => Escaped
      /\ InFrame /\ ~AtFlag /\ Here # HDLC_CONTROL_ESCAPE => Taken
  BY <1>1, <1>2 DEF Skipped, Discarded, Opened, Closed, Escaped, Taken
<1> QED
  BY <1>1, <1>4, <1>5, <1>6, <1>7, <1>8, <1>9

(* Passing over a piece.                                                   *)
LEMMA ScanPassed ==
  ASSUME ParserTypeOK, FreshBetweenFrames, IndexInRange, IndexInRange', Scan,
         NEW x \in Piece, LiesIn(src, x), PassedOver(x)
  PROVE  PassedOver(x)' \/ PastEnd(x)'
<1>1. /\ phase = "scan" /\ ~InFrame /\ x.flags = 0 /\ i \in Inner(x) - 1 .. EndOf(x) - 1
      /\ Inner(x) \in Nat /\ EndOf(x) \in Nat /\ i \in Nat /\ Inner(x) >= 1
      /\ EndOf(x) = Inner(x) + Len(Stuffed(x.plain)) /\ Len(Stuffed(x.plain)) \in Nat
  BY ScanHere, PieceType DEF PassedOver, LiesIn
<1>2. CASE i # EndOf(x) - 1
  <2> DEFINE k == i - (Inner(x) - 1)
  <2>1. k \in 0 .. Len(Stuffed(x.plain)) - 1 /\ i = Inner(x) - 1 + k
    BY <1>1, <1>2
  <2> HIDE DEF k
  <2>2. Skipped
    BY <1>1, <2>1, ByteOfPiece, ScanHere
  <2>3. phase' = "scan" /\ ~InFrame' /\ i' = i + 1
    BY <1>1, <2>2 DEF Skipped, Counted, Kept, InFrame
  <2>4. i + 1 \in Inner(x) - 1 .. EndOf(x) - 1
    BY <1>1, <1>2
  <2> QED
    BY <1>1, <2>3, <2>4 DEF PassedOver
<1>3. CASE i = EndOf(x) - 1
  <2>1. AtFlag /\ i + 1 = EndOf(x)
    BY <1>3, EndOfPiece
  <2>2. CASE Opened
    <3>1. phase' = "scan" /\ i' = i + 1 /\ Distance' = 1
      BY <1>1, <2>2, ScanHere DEF Opened, Counted
    <3>2. hdlc_state'.fcs = FCS_INIT_VALUE
      BY <1>1, <2>2 DEF Opened, SameBytes, FreshBetweenFrames, Fresh, InFrame, ParserTypeOK,
                        HdlcState, Int16
    <3>3. ~hdlc_state'.control_escape
      BY <1>1, <2>2 DEF Opened, FreshBetweenFrames, Fresh, InFrame, ParserTypeOK,
                        HdlcState, Int16
    <3> QED
      BY <2>1, <3>1, <3>2, <3>3 DEF PastEnd, Untouched
  <2>3. CASE Discarded
    <3>1. phase' = "scan" /\ i' = i + 1 /\ ~InFrame'
      BY <1>1, <2>3, ScanHere DEF Discarded
    <3> QED
      BY <2>1, <3>1 DEF PastEnd, Untouched
  <2> QED
    BY <1>1, <2>1, <2>2, <2>3, ScanHere
<1> QED
  BY <1>2, <1>3

(* The end of a piece is behind a frame, until the frame is closed.        *)
LEMMA ScanEnded ==
  ASSUME ParserTypeOK, IndexInRange, IndexInRange', Scan, NEW x, Ended(x)
  PROVE  Ended(x)'
<1>1. /\ phase = "scan" /\ InFrame /\ i < Len(src) /\ AtFlag /\ Distance >= 2
      /\ hdlc_state.fcs = RegisterAfter(x.plain) /\ ControlKnown(x.plain, Len(x.plain))
      /\ src' = src /\ i \in Nat /\ Distance \in Int
  BY ScanHere, DistanceArithmetic DEF Ended
<1>2. CASE Closed
  <2>1. /\ phase' = "return" /\ i' = i /\ Distance' = Distance /\ InFrame'
        /\ hdlc_state'.fcs = hdlc_state.fcs /\ control' = control
    BY <1>1, <1>2, ScanHere DEF Closed, SameBytes
  <2>2. AtFlag' /\ i' < Len(src')
    BY <1>1, <2>1 DEF AtFlag, Here
  <2> QED
    BY <1>1, <2>1, <2>2 DEF Ended, ControlKnown
<1>3. CASE Discarded
  <2>1. FlagFollows
    BY <1>1, <1>3, ScanHere
  <2>2. /\ phase' = "scan" /\ i' = i + 1 /\ hdlc_state' = hdlc_state /\ control' = control
        /\ Distance' = Distance /\ InFrame'
    BY <1>1, <1>3, ScanHere DEF Discarded
  <2>3. i + 1 < Len(src) /\ src[(i + 1) + 1] = HDLC_FLAG_SEQUENCE
    <3>1. Len(src) \in Nat /\ (i + 1) + 1 = i + 2
      BY <1>1 DEF ParserTypeOK
    <3> QED
      BY <1>1, <2>1, <3>1 DEF FlagFollows
  <2>4. AtFlag' /\ i' < Len(src')
    BY <1>1, <2>2, <2>3 DEF AtFlag, Here
  <2> QED
    BY <1>1, <2>2, <2>4 DEF Ended, ControlKnown
<1> QED
  BY <1>1, <1>2, <1>3, ScanHere

(* Before any byte of a frame is taken.                                    *)
LEMMA TakingNone ==
  ASSUME NEW x \in Piece, phase = "scan", InFrame, i = Inner(x) - 1, Distance = 1,
         hdlc_state.fcs = FCS_INIT_VALUE, ~hdlc_state.control_escape
  PROVE  Taking(x, 0, 0)
<1>1. Upto(x.plain, 0) = 0 /\ SubSeq(x.plain, 1, 0) = <<>> /\ Inner(x) \in Nat
  BY PieceType, UptoEnds
<1>2. RegisterAfter(SubSeq(x.plain, 1, 0)) = FCS_INIT_VALUE
  BY <1>1, RegisterSteps
<1>3. i = Inner(x) - 1 + (Upto(x.plain, 0) + 0) /\ Distance = 1 + (Upto(x.plain, 0) + 0)
  BY <1>1
<1>4. ControlKnown(x.plain, 0)
  BY DEF ControlKnown
<1> QED
  BY <1>2, <1>3, <1>4 DEF Taking

LEMMA BareBeginning ==
  ASSUME NEW x \in Piece, Beginning(x), x.flags = 0, Len(x.plain) >= 2, x.first >= 1
  PROVE  InPiece(x)
<1>1. /\ Inner(x) \in Nat /\ EndOf(x) \in Nat /\ x.first \in Nat /\ Inner(x) = x.first
      /\ EndOf(x) >= Inner(x) /\ i = Inner(x) - 1 /\ phase = "scan"
  BY PieceType DEF Beginning, Inner
<1>2. CASE InFrame
  <2>1. Taking(x, 0, 0)
    BY <1>1, <1>2, TakingNone DEF Beginning, Untouched
  <2>2. 0 \in 0 .. Len(x.plain) - 1 /\ 0 \in 0 .. 1
    BY PieceType
  <2> QED
    BY <2>1, <2>2 DEF InPiece
<1>3. CASE ~InFrame
  <2>1. i \in Inner(x) - 1 .. EndOf(x) - 1
    BY <1>1
  <2> QED
    BY <1>1, <1>3, <2>1 DEF InPiece, PassedOver
<1> QED
  BY <1>2, <1>3

LEMMA ScanBeginning ==
  ASSUME ParserTypeOK, FreshBetweenFrames, IndexInRange, IndexInRange', Scan,
         NEW x \in Piece, LiesIn(src, x), Len(x.plain) >= 2, Beginning(x), x.flags = 1
  PROVE  InPiece(x)'
<1>1. /\ Inner(x) = x.first + 1 /\ x.first \in Nat /\ x.first >= 1 /\ i = x.first - 1
      /\ Len(Stuffed(x.plain)) \in Nat /\ Len(Stuffed(x.plain)) >= 2
      /\ src[x.first] = HDLC_FLAG_SEQUENCE /\ phase = "scan" /\ i \in Nat /\ Untouched
  <2>1. Len(Stuffed(x.plain)) \in Nat /\ Len(Stuffed(x.plain)) >= Len(x.plain)
        /\ Len(x.plain) \in Nat
    BY PieceType
  <2> QED
    BY <2>1, ScanHere, PieceType DEF Beginning, LiesIn, Inner
<1>2. AtFlag
  <2>1. i + 1 = x.first
    BY <1>1
  <2> QED
    BY <1>1, <2>1 DEF AtFlag, Here
<1>3. ~FlagFollows
  <2>1. 1 \in 1 .. Len(Stuffed(x.plain)) /\ Inner(x) + 1 - 1 = i + 2
    BY <1>1
  <2>2. src[Inner(x) + 1 - 1] = Stuffed(x.plain)[1]
    BY <2>1 DEF LiesIn
  <2>3. Stuffed(x.plain)[1] # HDLC_FLAG_SEQUENCE
    BY <2>1, PieceType, NoFlagInside
  <2> QED
    BY <2>1, <2>2, <2>3 DEF FlagFollows
<1>4. /\ phase' = "scan" /\ InFrame' /\ i' = Inner(x) - 1 /\ Distance' = 1
      /\ hdlc_state'.fcs = FCS_INIT_VALUE /\ ~hdlc_state'.control_escape
  <2>1. i + 1 = Inner(x) - 1
    BY <1>1
  <2>2. CASE InFrame
    <3>1. Discarded
      BY <1>1, <1>2, <2>2, ScanHere DEF Untouched
    <3>2. Distance' = 1 /\ InFrame'
      BY <1>1, <2>2, <3>1, ScanHere DEF Untouched
    <3> QED
      BY <1>1, <2>1, <2>2, <3>1, <3>2 DEF Discarded, Untouched
  <2>3. CASE ~InFrame
    <3>1. Opened
      BY <1>2, <1>3, <2>3, ScanHere
    <3>2. Distance' = 1 /\ InFrame'
      BY <3>1, ScanHere
    <3>3. hdlc_state.fcs = FCS_INIT_VALUE /\ ~hdlc_state.control_escape
      BY <2>3 DEF FreshBetweenFrames, Fresh, InFrame, ParserTypeOK, HdlcState, Int16
    <3>4. hdlc_state'.control_escape = hdlc_state.control_escape
      BY <3>1 DEF Opened
    <3> QED
      BY <1>1, <2>1, <3>1, <3>2, <3>3, <3>4 DEF Opened, Counted, SameBytes
  <2> QED
    BY <2>2, <2>3
<1>5. Taking(x, 0, 0)'
  <2>1. Upto(x.plain, 0) = 0 /\ SubSeq(x.plain, 1, 0) = <<>> /\ Inner(x) \in Nat
    BY PieceType, UptoEnds
  <2>2. RegisterAfter(SubSeq(x.plain, 1, 0)) = FCS_INIT_VALUE
    BY <2>1, RegisterSteps
  <2>3. /\ Inner(x) - 1 = Inner(x) - 1 + (Upto(x.plain, 0) + 0)
        /\ 1 = 1 + (Upto(x.plain, 0) + 0)
    BY <2>1
  <2>4. ControlKnown(x.plain, 0)'
    BY DEF ControlKnown
  <2> QED
    BY <1>4, <2>2, <2>3, <2>4 DEF Taking
<1>6. 0 \in 0 .. Len(x.plain) - 1 /\ 0 \in 0 .. 1
  BY PieceType
<1> QED
  BY <1>5, <1>6 DEF InPiece

(* The byte v has been taken, and it was the next one.                     *)
LEMMA TookNext ==
  ASSUME ParserTypeOK, IndexInRange, IndexInRange', Scan, Taken,
         NEW x \in Piece, LiesIn(src, x), NEW j \in 0 .. Len(x.plain) - 1, NEW e \in 0 .. 1,
         Taking(x, j, e), Value = x.plain[j + 1],
         Upto(x.plain, j + 1) = Upto(x.plain, j) + e + 1
  PROVE  InPiece(x)'
<1> DEFINE bytes == x.plain
           n == Upto(bytes, j)
           v == bytes[j + 1]
           before == SubSeq(bytes, 1, j)
           after == SubSeq(bytes, 1, j + 1)
<1>1. /\ bytes \in Seq(Byte) /\ Len(bytes) \in Nat /\ j \in Nat /\ e \in Nat
      /\ j + 1 \in 1 .. Len(bytes) /\ v \in Byte /\ before \in Seq(Byte)
      /\ after = Append(before, v) /\ Inner(x) \in Nat
  BY PieceType
<1>2. n \in Nat /\ n >= j
  BY <1>1, UptoEnds
<1>3. /\ phase = "scan" /\ InFrame /\ i = Inner(x) - 1 + (n + e) /\ Distance = 1 + (n + e)
      /\ hdlc_state.fcs = RegisterAfter(before) /\ ControlKnown(bytes, j)
  BY DEF Taking
<1>4. /\ phase' = "scan" /\ i' = i + 1 /\ Distance' = Distance + 1 /\ InFrame'
      /\ hdlc_state'.control_escape = FALSE
      /\ hdlc_state'.fcs = calc_fcs(hdlc_state.fcs, v)
      /\ control' = IF IsControl THEN hdlc_get_control_type(v) ELSE control
  BY <1>3, ScanHere DEF Taken, Counted
<1>5. hdlc_state'.fcs = RegisterAfter(after)
  <2> HIDE DEF before, after, v
  <2> QED
    BY <1>1, <1>3, <1>4, RegisterSteps
<1>6. /\ i' = Inner(x) - 1 + (Upto(bytes, j + 1) + 0)
      /\ Distance' = 1 + (Upto(bytes, j + 1) + 0)
  <2> HIDE DEF bytes, n
  <2>1. i' = (Inner(x) - 1 + (n + e)) + 1 /\ Distance' = (1 + (n + e)) + 1
    BY <1>3, <1>4
  <2> DEFINE next == Upto(bytes, j + 1)
  <2>2. next = n + e + 1
    BY DEF bytes, n
  <2> HIDE DEF next
  <2>3. i' = Inner(x) - 1 + (next + 0)
    BY <1>1, <1>2, <2>1, <2>2
  <2>4. Distance' = 1 + (next + 0)
    BY <1>1, <1>2, <2>1, <2>2
  <2> QED
    BY <2>3, <2>4 DEF next
<1>7. ControlKnown(bytes, j + 1)'
  <2> SUFFICES ASSUME j + 1 >= 2, bytes[1] \notin Special, bytes[2] \notin Special
               PROVE  control' = hdlc_get_control_type(bytes[2])
    BY DEF ControlKnown
  <2>1. Upto(bytes, 0 + 1) = 1
    <3>1. 0 \in 0 .. Len(bytes) - 1 /\ bytes[0 + 1] \notin Special
      BY <1>1
    <3>2. Upto(bytes, 0) = 0
      BY <1>1, UptoEnds
    <3>3. Upto(bytes, 0 + 1) = Upto(bytes, 0) + 1
      BY <1>1, <3>1, UptoNext
    <3> QED
      BY <3>2, <3>3
  <2>2. CASE j = 1
    <3>1. n = 1 /\ v = bytes[2] /\ v \notin Special
      BY <2>1, <2>2
    <3>2. e = 0
      BY <2>2, <3>1 DEF Taking
    <3>3. Distance = 2
      BY <1>3, <3>1, <3>2
    <3>4. IsControl
      BY <1>3, <3>3, DistanceArithmetic
    <3> QED
      BY <1>4, <3>1, <3>4
  <2>3. CASE j >= 2
    <3>1. Distance > 2
      BY <1>1, <1>2, <1>3, <2>3
    <3>2. ~IsControl
      BY <1>3, <3>1, DistanceArithmetic
    <3>3. control = hdlc_get_control_type(bytes[2])
      BY <1>3, <2>3 DEF ControlKnown
    <3> QED
      BY <1>4, <3>2, <3>3
  <2> QED
    BY <1>1, <2>2, <2>3
<1>8. CASE j + 1 # Len(bytes)
  <2>1. j + 1 \in 0 .. Len(bytes) - 1 /\ 0 \in 0 .. 1
    BY <1>1, <1>8
  <2>2. Taking(x, j + 1, 0)'
    BY <1>4, <1>5, <1>6, <1>7 DEF Taking
  <2> QED
    BY <2>1, <2>2 DEF InPiece
<1>9. CASE j + 1 = Len(bytes)
  <2>1. Upto(bytes, j + 1) = Len(Stuffed(bytes)) /\ after = bytes
    BY <1>1, <1>9, UptoEnds
  <2>2. i' = EndOf(x) - 1
    <3>1. EndOf(x) = Inner(x) + Len(Stuffed(bytes)) /\ Len(Stuffed(bytes)) \in Nat
      BY PieceType
    <3> QED
      BY <1>1, <1>6, <2>1, <3>1
  <2>3. AtFlag' /\ i' < Len(src')
    <3>1. EndOf(x) \in Nat /\ EndOf(x) <= Len(src) /\ Len(src) \in Nat /\ src' = src
      BY PieceType, ScanHere DEF LiesIn, ParserTypeOK
    <3>2. i' + 1 = EndOf(x) /\ i' < Len(src)
      BY <2>2, <3>1
    <3> QED
      BY <3>1, <3>2 DEF LiesIn, AtFlag, Here
  <2>4. Distance' >= 2
    <3>1. n + e + 1 \in Nat /\ n + e + 1 >= 1 /\ Distance' = 1 + (n + e + 1)
      BY <1>1, <1>2, <1>6
    <3> QED
      BY <3>1
  <2>5. hdlc_state'.fcs = RegisterAfter(bytes) /\ ControlKnown(bytes, Len(bytes))'
    BY <1>5, <1>7, <1>9, <2>1
  <2> QED
    BY <1>4, <2>3, <2>4, <2>5 DEF InPiece, Ended
<1> QED
  BY <1>8, <1>9

(* The byte taken next is not the end of the piece.                        *)
LEMMA TakingInside ==
  ASSUME ParserTypeOK, NEW x \in Piece, LiesIn(src, x),
         NEW j \in 0 .. Len(x.plain) - 1, NEW e \in 0 .. 1, Taking(x, j, e)
  PROVE  /\ Here = Stuffed(x.plain)[(Upto(x.plain, j) + e) + 1]
         /\ ~AtFlag /\ i < Len(src)
<1> DEFINE bytes == x.plain
           n == Upto(bytes, j)
           v == bytes[j + 1]
           t == Stuffed(bytes)
           k == n + e
<1>1. bytes \in Seq(Byte) /\ Len(t) \in Nat /\ Inner(x) \in Nat
  BY PieceType
<1>2. /\ n \in Nat
      /\ v \notin Special => Upto(bytes, j + 1) = n + 1
      /\ v \in Special => Upto(bytes, j + 1) = n + 2
      /\ Upto(bytes, j + 1) <= Len(t)
  BY <1>1, UptoNext
<1>3. i = Inner(x) - 1 + k /\ (e = 1 => v \in Special)
  BY DEF Taking
<1> HIDE DEF v, n, t, bytes
<1>4. k \in 0 .. Len(t) - 1
  BY <1>1, <1>2, <1>3
<1> HIDE DEF k
<1>5. Here = t[k + 1] /\ ~AtFlag /\ i < Len(src)
  BY <1>3, <1>4, ByteOfPiece DEF t, bytes
<1> QED
  BY <1>5 DEF k, n, t, bytes

LEMMA ScanTaking ==
  ASSUME ParserTypeOK, IndexInRange, IndexInRange', Scan,
         NEW x \in Piece, LiesIn(src, x), NEW j \in 0 .. Len(x.plain) - 1, NEW e \in 0 .. 1,
         Taking(x, j, e)
  PROVE  InPiece(x)'
<1> DEFINE bytes == x.plain
           n == Upto(bytes, j)
           v == bytes[j + 1]
           t == Stuffed(bytes)
<1>1. bytes \in Seq(Byte) /\ Len(bytes) \in Nat /\ Len(t) \in Nat /\ Inner(x) \in Nat
  BY PieceType
<1>2. /\ v \in Byte /\ n \in Nat
      /\ v \notin Special => t[n + 1] = v /\ Upto(bytes, j + 1) = n + 1
      /\ v \in Special => /\ t[n + 1] = HDLC_CONTROL_ESCAPE /\ t[n + 2] = Flip20(v)
                          /\ Upto(bytes, j + 1) = n + 2
                          /\ Flip20(v) \notin Special /\ Flip20(Flip20(v)) = v
  BY <1>1, UptoNext
<1>3. /\ phase = "scan" /\ InFrame /\ i = Inner(x) - 1 + (n + e) /\ Distance = 1 + (n + e)
      /\ hdlc_state.fcs = RegisterAfter(SubSeq(bytes, 1, j)) /\ ControlKnown(bytes, j)
      /\ e = 1 => hdlc_state.control_escape = TRUE /\ v \in Special
      /\ e = 0 => ~hdlc_state.control_escape
  BY DEF Taking
<1>4. Here = t[(n + e) + 1] /\ ~AtFlag
  BY TakingInside
<1>5. CASE v \notin Special
  <2>1. e = 0 /\ Here = v /\ Upto(bytes, j + 1) = n + e + 1
    <3>1. e = 0
      BY <1>3, <1>5
    <3>2. (n + e) + 1 = n + 1 /\ n + e + 1 = n + 1
      BY <1>2, <3>1
    <3> QED
      BY <1>2, <1>4, <1>5, <3>1, <3>2
  <2>2. Taken /\ Value = v
    BY <1>3, <1>4, <1>5, <2>1, NoSpecials, ScanHere DEF Value
  <2> QED
    BY <2>1, <2>2, TookNext
<1>6. CASE v \in Special /\ e = 1
  <2>1. Here = Flip20(v) /\ Upto(bytes, j + 1) = n + e + 1
    <3>1. (n + e) + 1 = n + 2 /\ n + e + 1 = n + 2
      BY <1>2, <1>6
    <3> QED
      BY <1>2, <1>4, <1>6, <3>1
  <2>2. Taken /\ Value = v
    BY <1>2, <1>3, <1>4, <1>6, <2>1, NoSpecials, ScanHere DEF Value
  <2> QED
    BY <2>1, <2>2, TookNext
<1>7. CASE v \in Special /\ e = 0
  <2>1. Here = HDLC_CONTROL_ESCAPE
    <3>1. (n + e) + 1 = n + 1
      BY <1>2, <1>7
    <3> QED
      BY <1>2, <1>4, <1>7, <3>1
  <2>2. Escaped
    BY <1>3, <2>1, ScanHere
  <2>3. /\ phase' = "scan" /\ i' = i + 1 /\ Distance' = Distance + 1 /\ InFrame'
        /\ hdlc_state'.fcs = hdlc_state.fcs /\ control' = control
        /\ hdlc_state'.control_escape = TRUE
    BY <1>3, <2>2, ScanHere DEF Escaped, Counted, SameBytes
  <2>4. i' = Inner(x) - 1 + (n + 1) /\ Distance' = 1 + (n + 1)
    <3>1. n \in Nat /\ i = Inner(x) - 1 + (n + 0) /\ Distance = 1 + (n + 0)
      BY <1>2, <1>3, <1>7
    <3> HIDE DEF n
    <3> QED
      BY <1>1, <2>3, <3>1
  <2>5. ControlKnown(bytes, j)'
    BY <1>3, <2>3 DEF ControlKnown
  <2>6. Taking(x, j, 1)'
    BY <1>3, <1>7, <2>3, <2>4, <2>5 DEF Taking
  <2> QED
    BY <2>6 DEF InPiece
<1> QED
  BY <1>5, <1>6, <1>7

(* In front of a piece or at the end of the buffer, or in a piece.         *)
Placed(pieces) ==
  \/ phase = "idle" /\ src = <<>> /\ Untouched
  \/ phase = "scan" /\ Untouched /\ i \in Boundary(pieces)
  \/ \E x \in pieces : InPiece(x)

LEMMA InPieceBefore ==
  ASSUME ParserTypeOK, NEW x \in Piece, LiesIn(src, x), InPiece(x)
  PROVE  i < Len(src)
<1>1. CASE PassedOver(x)
  <2>1. i <= EndOf(x) - 1 /\ EndOf(x) <= Len(src) /\ EndOf(x) \in Nat /\ Len(src) \in Nat
        /\ i \in Nat
    BY <1>1, PieceType DEF PassedOver, LiesIn, ParserTypeOK
  <2> QED
    BY <2>1
<1>2. CASE Ended(x)
  BY <1>2 DEF Ended
<1>3. CASE \E j \in 0 .. Len(x.plain) - 1, e \in 0 .. 1 : Taking(x, j, e)
  BY <1>3, TakingInside
<1> QED
  BY <1>1, <1>2, <1>3 DEF InPiece

LEMMA ScanInPiece ==
  ASSUME ParserTypeOK, FreshBetweenFrames, IndexInRange, IndexInRange', Scan,
         NEW x \in Piece, LiesIn(src, x), InPiece(x)
  PROVE  InPiece(x)' \/ PastEnd(x)'
<1>1. CASE PassedOver(x)
  BY <1>1, ScanPassed DEF InPiece
<1>2. CASE Ended(x)
  BY <1>2, ScanEnded DEF InPiece
<1>3. CASE \E j \in 0 .. Len(x.plain) - 1, e \in 0 .. 1 : Taking(x, j, e)
  BY <1>3, ScanTaking
<1> QED
  BY <1>1, <1>2, <1>3 DEF InPiece

LEMMA ScanPlaced ==
  ASSUME ParserTypeOK, FreshBetweenFrames, IndexInRange, IndexInRange', Scan,
         NEW pieces, NEW numbers, NEW messages, Made(src, pieces, numbers, messages),
         Placed(pieces)
  PROVE  Placed(pieces)'
<1>1. \A x \in pieces : x \in Piece /\ LiesIn(src, x) /\ Len(x.plain) >= 2
  BY DEF Made, Honest
<1>2. phase = "scan" /\ i \in Nat /\ i < Len(src)
  BY ScanHere
<1>3. ASSUME NEW x \in pieces, InPiece(x)
      PROVE  Placed(pieces)'
  <2>1. InPiece(x)' \/ PastEnd(x)'
    BY <1>1, <1>3, ScanInPiece
  <2>2. EndOf(x) \in Boundary(pieces)
    BY DEF Boundary
  <2> QED
    BY <2>1, <2>2 DEF Placed, PastEnd
<1>4. CASE Untouched /\ i \in Boundary(pieces)
  <2>1. PICK x \in pieces : x.first = i + 1
    BY <1>2, <1>4 DEF Made
  <2>2. x \in Piece /\ LiesIn(src, x) /\ Len(x.plain) >= 2 /\ x.flags \in 0 .. 1
    BY <1>1, PieceType
  <2>3. Beginning(x) /\ x.first >= 1
    <3>1. i = x.first - 1 /\ x.first >= 1
      BY <1>2, <2>1
    <3> QED
      BY <1>2, <1>4, <3>1 DEF Beginning
  <2>4. CASE x.flags = 0
    BY <1>3, <2>2, <2>3, <2>4, BareBeginning
  <2>5. CASE x.flags = 1
    <3>1. InPiece(x)'
      BY <2>2, <2>3, <2>5, ScanBeginning
    <3> QED
      BY <3>1 DEF Placed
  <2> QED
    BY <2>2, <2>4, <2>5
<1> QED
  BY <1>2, <1>3, <1>4 DEF Placed

(* A call that ends without a frame ends with the buffer.                  *)
LEMMA NoMessageUntouched ==
  ASSUME ParserInv, StoredBelowIndex, NEW pieces, NEW numbers, NEW messages,
         Made(src, pieces, numbers, messages), Placed(pieces), ReturnNoMessage
  PROVE  Untouched
<1>1. phase # "idle" /\ ~FrameFound /\ (phase = "return" \/ i = Len(src))
  BY DEF ReturnNoMessage, Returning
<1>2. phase # "return"
  BY <1>1 DEF ParserInv, EndOnlyAtFlag, StoredBelowIndex, FrameFound, InFrame
<1>3. ~\E x \in pieces : InPiece(x)
  <2> SUFFICES ASSUME NEW x \in pieces, InPiece(x) PROVE FALSE
    OBVIOUS
  <2>1. i < Len(src) /\ Len(src) \in Nat
    BY InPieceBefore DEF Made, ParserInv, ParserTypeOK
  <2> QED
    BY <1>1, <1>2, <2>1
<1> QED
  BY <1>1, <1>3 DEF Placed

(* Of the piece that ended there, a frame that is accepted is the message. *)
LEMMA ReturnedPiece ==
  ASSUME ParserInv, NEW pieces, NEW numbers, NEW messages \in Seq(PeerMessage),
         numbers \subseteq 1 .. Len(messages),
         Made(src, pieces, numbers, messages), Placed(pieces), ReturnFrame
  PROVE  \E k \in numbers : control = messages[k].control
<1>1. FrameFound /\ FrameValid /\ phase = "return"
  BY DEF ReturnFrame, FrameFound, ParserInv, ParserTypeOK, EndOnlyAtFlag, HdlcState, Int16
<1>2. PICK x \in pieces : Ended(x)
  BY <1>1 DEF Placed, InPiece, PassedOver, Taking
<1>3. /\ x \in Piece /\ x.of \in numbers /\ Len(x.plain) >= 2
      /\ WholeOf(x, messages[x.of]) \/ Detected(x)
  BY DEF Made, Honest
<1> DEFINE m == messages[x.of]
<1>4. m \in PeerMessage
  <2>1. x.of \in 1 .. Len(messages)
    BY <1>3
  <2>2. \A k \in 1 .. Len(messages) : messages[k] \in PeerMessage
    BY ElementOfSeq
  <2> QED
    BY <2>1, <2>2
<1> HIDE DEF m
<1>5. WholeOf(x, m)
  BY <1>1, <1>2, <1>3 DEF Ended, FrameValid, Detected, m
<1> DEFINE a == HDLC_ALL_STATION_ADDR
           c == hdlc_frame_control_type(m.control)
<1>6. m.control \in Control /\ m.data \in Seq(Byte)
  BY <1>4, PeerAssumption
<1>7. PICK rest \in Seq(Byte) : x.plain = <<a, c>> \o rest
  BY ZenonT(20), <1>5, <1>6, SentShape DEF WholeOf
<1>8. a \in Byte \ Special /\ c \in Byte \ Special
  <2>1. a \in Byte \ Special
    BY DEF HDLC_ALL_STATION_ADDR, Byte, Special, HDLC_FLAG_SEQUENCE, HDLC_CONTROL_ESCAPE
  <2>2. c \in Byte \ Special
    BY <1>6, ControlByte DEF Special
  <2> QED
    BY <2>1, <2>2
<1> HIDE DEF a, c
<1>9. x.plain[1] = a /\ x.plain[2] = c
  BY <1>7, <1>8, StuffedHead
<1>10. control = hdlc_get_control_type(c)
  <2>1. ControlKnown(x.plain, Len(x.plain))
    BY <1>2 DEF Ended
  <2> QED
    BY <1>3, <1>8, <1>9, <2>1 DEF ControlKnown
<1>11. control = m.control
  BY <1>6, <1>10, ControlReadBack DEF c
<1> QED
  BY <1>3, <1>11 DEF m

----------------------------------------------------------------------------
(* What the client has heard comes from the first n messages, in order;    *)
(* the buffer of the call and the line are made of later ones.             *)
HeardBefore(n, got, messages) ==
  \E at \in [1 .. Len(got) -> 1 .. n] :
     /\ \A j, k \in 1 .. Len(got) : j < k => at[j] < at[k]
     /\ \A k \in 1 .. Len(got) : got[k] = messages[at[k]].control

Standing(n, m, here, ahead) ==
  /\ n <= m /\ m <= Len(peerSent)
  /\ HeardBefore(n, heard, peerSent)
  /\ Made(src, here, n + 1 .. m, peerSent)
  /\ Made(line, ahead, m + 1 .. Len(peerSent), peerSent)
  /\ Placed(here)

ChannelInv ==
  \E n, m \in Nat : \E here, ahead \in SUBSET Piece : Standing(n, m, here, ahead)

LEMMA HeardOneMore ==
  ASSUME NEW n \in Nat, NEW messages \in Seq(PeerMessage), NEW got \in Seq(Control),
         HeardBefore(n, got, messages), NEW y \in Nat, y > n, y <= Len(messages)
  PROVE  HeardBefore(y, Append(got, messages[y].control), messages)
<1> DEFINE c == messages[y].control
           more == Append(got, c)
<1>1. /\ Len(got) \in Nat /\ Len(more) = Len(got) + 1 /\ more[Len(got) + 1] = c
      /\ \A k \in 1 .. Len(got) : more[k] = got[k]
  BY AppendProperties
<1>2. PICK at \in [1 .. Len(got) -> 1 .. n] :
        /\ \A j, k \in 1 .. Len(got) : j < k => at[j] < at[k]
        /\ \A k \in 1 .. Len(got) : got[k] = messages[at[k]].control
  BY DEF HeardBefore
<1> DEFINE on == [k \in 1 .. Len(got) + 1 |-> IF k <= Len(got) THEN at[k] ELSE y]
<1>3. /\ \A k \in 1 .. Len(got) : on[k] = at[k] /\ on[k] \in 1 .. n
      /\ on[Len(got) + 1] = y
      /\ \A k \in 1 .. Len(got) + 1 : k \in 1 .. Len(got) \/ k = Len(got) + 1
  <2>1. /\ \A k \in 1 .. Len(got) : k \in 1 .. Len(got) + 1 /\ k <= Len(got)
        /\ \A k \in 1 .. Len(got) + 1 : k \in 1 .. Len(got) \/ k = Len(got) + 1
        /\ Len(got) + 1 \in 1 .. Len(got) + 1 /\ ~(Len(got) + 1 <= Len(got))
    BY <1>1
  <2>2. \A k \in 1 .. Len(got) : on[k] = at[k]
    BY <2>1
  <2>3. on[Len(got) + 1] = y
    BY <2>1
  <2>4. \A k \in 1 .. Len(got) : at[k] \in 1 .. n
    BY <1>2
  <2> HIDE DEF on
  <2> QED
    BY <2>1, <2>2, <2>3, <2>4
<1>4. on \in [1 .. Len(got) + 1 -> 1 .. y]
  <2>1. 1 .. n \subseteq 1 .. y /\ y \in 1 .. y
    OBVIOUS
  <2> HIDE DEF on
  <2>2. \A k \in 1 .. Len(got) + 1 : on[k] \in 1 .. y
    BY <1>3, <2>1
  <2>3. on = [k \in 1 .. Len(got) + 1 |-> on[k]]
    BY DEF on
  <2> QED
    BY <2>2, <2>3
<1> HIDE DEF on, more, c
<1>5. \A j, k \in 1 .. Len(got) + 1 : j < k => on[j] < on[k]
  <2> TAKE j \in 1 .. Len(got) + 1
  <2> TAKE k \in 1 .. Len(got) + 1
  <2> HAVE j < k
  <2>1. j \in 1 .. Len(got)
    BY <1>1
  <2>2. CASE k \in 1 .. Len(got)
    BY <1>2, <1>3, <2>1, <2>2
  <2>3. CASE k = Len(got) + 1
    BY <1>3, <2>1, <2>3
  <2> QED
    BY <1>3, <2>2, <2>3
<1>6. \A k \in 1 .. Len(got) + 1 : more[k] = messages[on[k]].control
  BY <1>1, <1>2, <1>3 DEF c
<1>7. HeardBefore(y, more, messages)
  BY ZenonT(20), <1>1, <1>4, <1>5, <1>6 DEF HeardBefore
<1> QED
  BY <1>7 DEF more, c

LEMMA HeardStill ==
  ASSUME NEW messages \in Seq(PeerMessage), NEW m \in PeerMessage,
         NEW n \in 0 .. Len(messages), NEW got, HeardBefore(n, got, messages)
  PROVE  HeardBefore(n, got, Append(messages, m))
<1>1. PICK at \in [1 .. Len(got) -> 1 .. n] :
        /\ \A j, k \in 1 .. Len(got) : j < k => at[j] < at[k]
        /\ \A k \in 1 .. Len(got) : got[k] = messages[at[k]].control
  BY DEF HeardBefore
<1>2. \A k \in 1 .. Len(got) : at[k] \in 1 .. Len(messages)
  <2>1. 1 .. n \subseteq 1 .. Len(messages)
    OBVIOUS
  <2> QED
    BY <1>1, <2>1
<1>3. \A k \in 1 .. Len(got) : Append(messages, m)[at[k]] = messages[at[k]]
  BY <1>2, MessageKept
<1> QED
  BY SMTT(20), <1>1, <1>3 DEF HeardBefore

LEMMA InitChannel == Init => ChannelInv
<1> SUFFICES ASSUME Init PROVE ChannelInv
  OBVIOUS
<1>1. src = <<>> /\ line = <<>> /\ heard = <<>> /\ peerSent = <<>> /\ phase = "idle"
  BY DEF Init, ParserInit
<1>2. Untouched
  BY IntMaxAssumption DEF Init, ParserInit, Untouched, InFrame
<1>3. HeardBefore(0, heard, peerSent)
  <2>1. <<>> \in [1 .. Len(<<>>) -> 1 .. 0]
    OBVIOUS
  <2>2. 1 .. Len(<<>>) = {}
    OBVIOUS
  <2> QED
    BY <1>1, <2>1, <2>2 DEF HeardBefore
<1>4. Made(src, {}, 0 + 1 .. 0, peerSent) /\ Made(line, {}, 0 + 1 .. Len(peerSent), peerSent)
  BY <1>1, MadeNone
<1>5. Standing(0, 0, {}, {})
  BY <1>1, <1>2, <1>3, <1>4 DEF Standing, Placed
<1> QED
  BY <1>5 DEF ChannelInv

(* One step of the client is a step of the channel, and keeps what is      *)
(* known of the buffers.                                                   *)
ChannelStep ==
  \/ UNCHANGED <<SentControls, heard>>
  \/ \E c \in Control : Channel!Send(c) \/ Channel!Deliver(c)

LEMMA QuietChannel ==
  ASSUME ChannelInv, UNCHANGED <<parserVars, line, peerSent, heard>>
  PROVE  ChannelInv' /\ ChannelStep
<1>1. PICK n \in Nat, m \in Nat, here \in SUBSET Piece, ahead \in SUBSET Piece :
        Standing(n, m, here, ahead)
  BY DEF ChannelInv
<1>2. Untouched' <=> Untouched
  BY DEF parserVars, Untouched, InFrame, Distance
<1>3. \A x : InPiece(x)' <=> InPiece(x)
  BY DEF parserVars, InPiece, PassedOver, Taking, Ended, ControlKnown, InFrame, Distance,
         AtFlag, Here
<1>4. Placed(here)'
  BY <1>1, <1>2, <1>3 DEF Standing, Placed, parserVars
<1>5. Standing(n, m, here, ahead)'
  BY <1>1, <1>4 DEF Standing, parserVars
<1> QED
  BY <1>5 DEF ChannelInv, ChannelStep, SentControls

LEMMA CallChannel ==
  ASSUME ~AnyCut, IInv, Types, ChannelInv, NEW k \in 1 .. Len(line), DecodeArrived(k)
  PROVE  ChannelInv' /\ ChannelStep
<1>1. PICK n \in Nat, m \in Nat, here \in SUBSET Piece, ahead \in SUBSET Piece :
        Standing(n, m, here, ahead)
  BY DEF ChannelInv
<1>2. /\ phase = "idle" /\ phase' = "scan" /\ i' = 0 /\ hdlc_state' = hdlc_state
      /\ UNCHANGED <<heard, peerSent>>
  BY DEF DecodeArrived, hdlc_decode_recived_raw_data, GetData, clientVars
<1>3. src' = line /\ line' = <<>>
  <2>1. line \in Seq(Byte)
    BY DEF IInv, ClientShape
  <2>2. src' = SubSeq(line, 1, Len(line)) /\ line' = SubSeq(line, Len(line) + 1, Len(line))
    BY DEF DecodeArrived, hdlc_decode_recived_raw_data, GetData
  <2> QED
    BY <2>1, <2>2
<1>4. Untouched'
  <2>1. ~\E x \in here : InPiece(x)
    <3> SUFFICES ASSUME NEW x \in here, InPiece(x) PROVE FALSE
      OBVIOUS
    <3> QED
      BY <1>2 DEF InPiece, PassedOver, Taking, Ended
  <2>2. Untouched
    BY <1>1, <1>2, <2>1 DEF Standing, Placed
  <2> QED
    BY <1>2, <2>2 DEF Untouched, InFrame, Distance
<1> DEFINE last == Len(peerSent)
<1>5. n <= m /\ m <= last /\ last \in Nat
  <2>1. n <= m /\ m <= last
    BY <1>1 DEF Standing
  <2>2. last \in Nat
    BY DEF Types, CallTypes
  <2> QED
    BY <2>1, <2>2
<1>6. Made(line, ahead, n + 1 .. last, peerSent)
  <2>1. Made(line, ahead, m + 1 .. last, peerSent)
    BY <1>1 DEF Standing
  <2>2. m + 1 .. last \subseteq n + 1 .. last
    BY <1>5
  <2> QED
    BY <2>1, <2>2, MadeWider
<1>7. Placed(ahead)'
  BY <1>2, <1>4 DEF Placed, Boundary
<1>8. Standing(n, last, ahead, {})'
  <2>1. HeardBefore(n, heard', peerSent')
    BY <1>1, <1>2 DEF Standing
  <2>2. Made(src', ahead, n + 1 .. last, peerSent')
    BY <1>2, <1>3, <1>6
  <2>3. Made(line', {}, last + 1 .. Len(peerSent'), peerSent')
    BY <1>3, MadeNone
  <2> QED
    BY <1>2, <1>5, <1>7, <2>1, <2>2, <2>3 DEF Standing
<1> QED
  BY <1>2, <1>5, <1>8 DEF ChannelInv, ChannelStep, SentControls

LEMMA ScanChannel ==
  ASSUME IInv, IndexInRange, IndexInRange', ChannelInv,
         Scan, UNCHANGED <<clientVars, line, peerSent>>
  PROVE  ChannelInv' /\ ChannelStep
<1>1. PICK n \in Nat, m \in Nat, here \in SUBSET Piece, ahead \in SUBSET Piece :
        Standing(n, m, here, ahead)
  BY DEF ChannelInv
<1>2. UNCHANGED <<src, heard, line, peerSent>>
  BY ScanHere DEF clientVars, IInv, ParserInv
<1>3. Placed(here)'
  BY <1>1, ScanPlaced DEF Standing, IInv, ParserInv
<1>4. Standing(n, m, here, ahead)'
  BY <1>1, <1>2, <1>3 DEF Standing
<1> QED
  BY <1>2, <1>4 DEF ChannelInv, ChannelStep, SentControls

(* The buffer of a call that returns is given up.                          *)
LEMMA LeftUntouched ==
  ASSUME IInv, PlaceInv, NEW pieces, NEW numbers, NEW messages,
         Made(src, pieces, numbers, messages), Placed(pieces),
         ReturnNoMessage \/ ReturnBadFrame \/ ReturnFrame
  PROVE  phase' = "idle" /\ src' = <<>> /\ Untouched'
<1>1. phase' = "idle" /\ src' = <<>> /\ phase # "idle"
  BY DEF ReturnNoMessage, ReturnBadFrame, ReturnFrame, LeaveCall, Returning
<1>2. CASE ReturnNoMessage
  <2>1. hdlc_state' = hdlc_state
    BY <1>2 DEF ReturnNoMessage, LeaveCall
  <2>2. Untouched
    BY <1>1, <1>2, NoMessageUntouched DEF IInv, PlaceInv
  <2> QED
    BY <1>1, <2>1, <2>2 DEF Untouched, InFrame, Distance
<1>3. CASE ReturnBadFrame \/ ReturnFrame
  <2>1. hdlc_state' = hdlc_get_data_reset_with_state(hdlc_state) /\ hdlc_state \in HdlcState
    BY <1>3 DEF ReturnBadFrame, ReturnFrame, LeaveCall, IInv, ParserInv, ParserTypeOK
  <2>2. hdlc_state'.start_index = -1
    BY <2>1 DEF hdlc_get_data_reset_with_state, HdlcState
  <2> QED
    BY <1>1, <2>2 DEF Untouched, InFrame
<1> QED
  BY <1>2, <1>3

LEMMA ErrorChannel ==
  ASSUME IInv, PlaceInv, ChannelInv, DecodeError
  PROVE  ChannelInv' /\ ChannelStep
<1>1. PICK n \in Nat, m \in Nat, here \in SUBSET Piece, ahead \in SUBSET Piece :
        Standing(n, m, here, ahead)
  BY DEF ChannelInv
<1>2. (ReturnNoMessage \/ ReturnBadFrame) /\ UNCHANGED <<line, heard, peerSent>>
  BY DEF DecodeError
<1>3. phase' = "idle" /\ src' = <<>> /\ Untouched'
  BY <1>1, <1>2, LeftUntouched DEF Standing
<1>4. Standing(n, m, {}, ahead)'
  <2>1. Made(src', {}, n + 1 .. m, peerSent')
    BY <1>3, MadeNone
  <2>2. Placed({})'
    BY <1>3 DEF Placed
  <2> QED
    BY <1>1, <1>2, <2>1, <2>2 DEF Standing
<1> QED
  BY <1>2, <1>4 DEF ChannelInv, ChannelStep, SentControls

(* What has been heard is a subsequence of what was sent.                  *)
LEMMA HeardInOrder ==
  ASSUME NEW n \in Nat, NEW messages \in Seq(PeerMessage), n <= Len(messages),
         NEW got \in Seq(Control), HeardBefore(n, got, messages)
  PROVE  Channel!Subsequence(got, [k \in DOMAIN messages |-> messages[k].control])
<1> DEFINE fields == [k \in DOMAIN messages |-> messages[k].control]
<1>1. PICK at \in [1 .. Len(got) -> 1 .. n] :
        /\ \A j, k \in 1 .. Len(got) : j < k => at[j] < at[k]
        /\ \A k \in 1 .. Len(got) : got[k] = messages[at[k]].control
  BY DEF HeardBefore
<1>2. /\ DOMAIN got = 1 .. Len(got) /\ DOMAIN messages = 1 .. Len(messages)
      /\ DOMAIN fields = 1 .. Len(messages)
      /\ \A k \in 1 .. Len(messages) : fields[k] = messages[k].control
  OBVIOUS
<1>3. \A k \in 1 .. Len(got) : at[k] \in 1 .. Len(messages)
  <2>1. 1 .. n \subseteq 1 .. Len(messages)
    OBVIOUS
  <2> QED
    BY <1>1, <2>1
<1> HIDE DEF fields
<1>4. at \in [1 .. Len(got) -> 1 .. Len(messages)]
  BY <1>1, <1>3
<1>5. \A k \in 1 .. Len(got) : got[k] = fields[at[k]]
  BY <1>1, <1>2, <1>3
<1>6. Channel!Subsequence(got, fields)
  BY <1>1, <1>2, <1>4, <1>5 DEF Channel!Subsequence
<1> QED
  BY <1>6 DEF fields

LEMMA FrameChannelStep ==
  ASSUME IInv, Types, PlaceInv, ChannelInv, DecodeReject \/ DecodeAccept
  PROVE  ChannelInv' /\ ChannelStep
<1>1. PICK n \in Nat, m \in Nat, here \in SUBSET Piece, ahead \in SUBSET Piece :
        Standing(n, m, here, ahead)
  BY DEF ChannelInv
<1>2. ReturnFrame /\ heard' = Append(heard, control) /\ UNCHANGED <<line, peerSent>>
  BY DEF DecodeReject, DecodeAccept
<1>3. phase' = "idle" /\ src' = <<>> /\ Untouched'
  BY <1>1, <1>2, LeftUntouched DEF Standing
<1>4. /\ peerSent \in Seq(PeerMessage) /\ Len(peerSent) \in Nat /\ heard \in Seq(Control)
      /\ control \in Control /\ n <= m /\ m <= Len(peerSent)
  BY <1>1 DEF Types, CallTypes, Standing, IInv, ParserInv, ParserTypeOK
<1>5. PICK y \in n + 1 .. m : control = peerSent[y].control
  <2>1. n + 1 .. m \subseteq 1 .. Len(peerSent)
    BY <1>4
  <2> QED
    BY <1>1, <1>2, <1>4, <2>1, ReturnedPiece DEF Standing, IInv
<1>6. y \in Nat /\ y > n /\ y <= m /\ y <= Len(peerSent)
  BY <1>4
<1>7. HeardBefore(y, heard', peerSent)
  BY <1>1, <1>2, <1>4, <1>5, <1>6, HeardOneMore DEF Standing
<1>8. Standing(y, m, {}, ahead)'
  <2>1. Made(src', {}, y + 1 .. m, peerSent')
    BY <1>3, MadeNone
  <2>2. Placed({})'
    BY <1>3 DEF Placed
  <2> QED
    BY <1>1, <1>2, <1>6, <1>7, <2>1, <2>2 DEF Standing
<1>9. heard' \in Seq(Control) /\ SentControls' = SentControls
  BY <1>2, <1>4 DEF SentControls
<1>10. Channel!Subsequence(heard', SentControls)
  BY <1>4, <1>6, <1>7, <1>9, HeardInOrder DEF SentControls
<1>11. Channel!Deliver(control)
  BY <1>2, <1>9, <1>10 DEF Channel!Deliver
<1> QED
  BY <1>4, <1>6, <1>8, <1>11 DEF ChannelInv, ChannelStep

LEMMA SendChannel ==
  ASSUME IInv, Types, ChannelInv, NEW message \in PeerMessage, PeerSend(message)
  PROVE  ChannelInv' /\ ChannelStep
<1>1. PICK n \in Nat, m \in Nat, here \in SUBSET Piece, ahead \in SUBSET Piece :
        Standing(n, m, here, ahead)
  BY DEF ChannelInv
<1>2. /\ peerSent' = Append(peerSent, message)
      /\ UNCHANGED <<hdlc_state, control, dest, src, i, phase, heard>>
  BY DEF PeerSend, parserVars, clientVars
<1>3. PICK bytes \in Arrivals(hdlc_frame_data(message.control, message.data)) :
        line' = line \o bytes
  BY DEF PeerSend
<1>4. /\ peerSent \in Seq(PeerMessage) /\ Len(peerSent) \in Nat /\ line \in Seq(Byte)
      /\ n <= m /\ m <= Len(peerSent) /\ Len(peerSent') = Len(peerSent) + 1
  BY <1>1, <1>2, MessageKept DEF Types, CallTypes, Standing, IInv, ClientShape
<1>5. bytes \in Seq(Byte)
  BY ArrivalType
<1>6. HeardBefore(n, heard', peerSent')
  <2>1. n \in 0 .. Len(peerSent)
    BY <1>4
  <2> QED
    BY <1>1, <1>2, <1>4, <2>1, HeardStill DEF Standing
<1>7. Made(src', here, n + 1 .. m, peerSent')
  <2>1. n + 1 .. m \in SUBSET (1 .. Len(peerSent)) /\ n + 1 .. m \subseteq n + 1 .. m
    BY <1>4
  <2>2. Made(src, here, n + 1 .. m, peerSent)
    BY <1>1 DEF Standing
  <2> HIDE DEF Made
  <2>3. Made(src, here, n + 1 .. m, Append(peerSent, message))
    BY <1>4, <2>1, <2>2, MadeKept
  <2> QED
    BY <1>2, <2>3
<1>8. PICK more : Made(line', more, m + 1 .. Len(peerSent'), peerSent')
  <2>1. m \in 0 .. Len(peerSent)
    BY <1>4
  <2>2. Made(line, ahead, m + 1 .. Len(peerSent), peerSent)
    BY <1>1 DEF Standing
  <2>3. \E more : Made(line \o bytes, more, m + 1 .. Len(peerSent) + 1, Append(peerSent, message))
    BY <1>4, <1>5, <2>1, <2>2, MadeLonger
  <2> QED
    BY <1>2, <1>3, <1>4, <2>3
<1>9. Placed(here)'
  <2>1. Untouched' <=> Untouched
    BY <1>2 DEF Untouched, InFrame, Distance
  <2>2. \A x : InPiece(x)' <=> InPiece(x)
    BY <1>2 DEF InPiece, PassedOver, Taking, Ended, ControlKnown, InFrame, Distance,
                AtFlag, Here
  <2> QED
    BY <1>1, <1>2, <2>1, <2>2 DEF Standing, Placed
<1>10. Standing(n, m, here, more)' /\ more \in SUBSET Piece
  <2>1. n <= m /\ m <= Len(peerSent')
    BY <1>4
  <2>2. more \in SUBSET Piece
    BY <1>8 DEF Made
  <2> QED
    BY <1>6, <1>7, <1>8, <1>9, <2>1, <2>2 DEF Standing
<1>11. Channel!Send(message.control) /\ message.control \in Control
  <2>1. SentControls' = Append(SentControls, message.control)
    <3> DEFINE before == [k \in 1 .. Len(peerSent) |-> peerSent[k].control]
    <3>1. SentControls = before /\ DOMAIN peerSent = 1 .. Len(peerSent)
      BY <1>4 DEF SentControls
    <3>2. /\ DOMAIN peerSent' = 1 .. Len(peerSent) + 1
          /\ peerSent'[Len(peerSent) + 1] = message
          /\ \A k \in 1 .. Len(peerSent) : peerSent'[k] = peerSent[k]
      BY <1>2, <1>4, MessageKept
    <3>3. SentControls' = [k \in 1 .. Len(peerSent) + 1 |-> peerSent'[k].control]
      BY <3>2 DEF SentControls
    <3>4. \A k \in 1 .. Len(peerSent) : peerSent[k].control \in Control
      BY <1>4, PeerAssumption
    <3>5. before \in Seq(Control) /\ Len(before) = Len(peerSent)
      BY <1>4, <3>4
    <3>6. Append(before, message.control)
            = [k \in 1 .. Len(peerSent) + 1 |->
                 IF k <= Len(peerSent) THEN before[k] ELSE message.control]
      <4> HIDE DEF before
      <4> QED
        BY <1>4, <3>5
    <3>7. \A k \in 1 .. Len(peerSent) + 1 :
            (IF k <= Len(peerSent) THEN before[k] ELSE message.control) = peerSent'[k].control
      BY <1>4, <3>2
    <3> QED
      BY <3>1, <3>3, <3>6, <3>7
  <2> QED
    BY <1>2, <2>1, PeerAssumption DEF Channel!Send
<1> QED
  BY <1>10, <1>11 DEF ChannelInv, ChannelStep

LEMMA NextChannel ==
  ASSUME ~AnyCut, IInv, Types, PlaceInv, ChannelInv, IndexInRange, IndexInRange', [Next]_vars
  PROVE  ChannelInv' /\ ChannelStep
<1>1. CASE UNCHANGED <<parserVars, line, peerSent, heard>>
  BY <1>1, QuietChannel
<1>2. ASSUME NEW k \in 1 .. Len(line), DecodeArrived(k)
      PROVE  ChannelInv' /\ ChannelStep
  BY <1>2, CallChannel
<1>3. ASSUME NEW message \in PeerMessage, PeerSend(message)
      PROVE  ChannelInv' /\ ChannelStep
  BY <1>3, SendChannel
<1>4. CASE Scan /\ UNCHANGED <<clientVars, line, peerSent>>
  BY <1>4, ScanChannel
<1>5. CASE DecodeError
  BY <1>5, ErrorChannel
<1>6. CASE DecodeReject \/ DecodeAccept
  BY <1>6, FrameChannelStep
<1> QED
  BY <1>1, <1>2, <1>3, <1>4, <1>5, <1>6
  DEF Next, vars, clientVars, init_hdlc_client, hdlc_connect, hdlc_send_data,
      hdlc_get_raw_frame, hdlc_timeout_handler

(* When no buffer ends in the middle of a frame, what the client acts on   *)
(* are control fields of frames the peer sent, in the order it sent them   *)
(* and none twice, whatever was lost or damaged in between.                *)
THEOREM HeardOnlyWhatWasSent ==
  ASSUME ~AnyCut
  PROVE  Spec /\ []IndexInRange => ActsOnWhatWasSent
<1>1. Init => Channel!Init
  BY DEF Init, SentControls, Channel!Init
<1>2. IInv /\ BuffersWhole /\ [Next]_vars => BuffersWhole'
  BY NextBuffers
<1>3. IInv /\ BuffersWhole /\ BuffersWhole' /\ PlaceInv /\ IndexInRange /\ IndexInRange'
        /\ [Next]_vars => PlaceInv'
  BY NextPlace
<1>4. Types /\ IInv /\ [Next]_vars => Types'
  BY NextTypes DEF IInv, ParserInv
<1>5. IInv /\ Types /\ PlaceInv /\ ChannelInv /\ IndexInRange /\ IndexInRange' /\ [Next]_vars
        => ChannelInv' /\ ChannelStep
  BY NextChannel
<1>6. ChannelStep => [Channel!Next]_<<SentControls, heard>>
  BY DEF ChannelStep, Channel!Next
<1> QED
  BY <1>1, <1>2, <1>3, <1>4, <1>5, <1>6, InitTypes, InitBuffers, InitPlace, InitChannel,
     Invariance, PTL
  DEF Spec, ActsOnWhatWasSent, Channel!Spec

----------------------------------------------------------------------------
(* Where the whole of the timeout is left.                                 *)
Armed == pc \in {"connect", "data", "print"} \/ (Waits /\ pc \notin {"decode", "decoding"})

MainShape ==
  /\ pc \in Label /\ back \in {"receive", "return"} /\ loop \in Loop
  /\ buffer_recive \in [1 .. ReceiveSize[loop] -> Byte]

(* What main knows of the client where it is.                              *)
Order ==
  /\ pc \in {"setup", "connect", "data"} => loop = "connect"
  /\ pc = "print" => loop = "data"
  /\ pc # "return" => shown = <<>>
  /\ pc \notin {"setup", "connect"} => client.current_index_frame = 0
  /\ loop = "connect" /\ Waits => client.state = CONNECTING

Rearmed ==
  ConnectTimeout > 1 =>
    /\ Armed => client.connecting_frame_timeout = ConnectTimeout
    /\ ret # "ERR_FRAME_TIME_OUT"

MainInv == IInv /\ MainShape /\ Order /\ Rearmed

----------------------------------------------------------------------------
(* The arrays of the stack hold bytes, whatever was there before.          *)
LEMMA StackArrayType ==
  ASSUME NEW size \in Nat, NEW before \in Seq(Byte), NEW a \in StackArrays(size, before)
  PROVE  a \in [1 .. size -> Byte]
<1>1. StaleByte \subseteq Byte
  BY BufferAssumption
<1>2. PICK n \in Nat : before \in [1 .. n -> Byte] /\ Len(before) = n
  BY LenProperties
<1> QED
  BY <1>1, <1>2 DEF StackArrays

(* A function on 1 .. size is a sequence.                                  *)
LEMMA ArrayIsSequence ==
  ASSUME NEW size \in Nat, NEW a \in [1 .. size -> Byte]
  PROVE  a \in Seq(Byte)
BY SeqDef

LEMMA InitMainInv == SketchInit => MainInv
<1> SUFFICES ASSUME SketchInit PROVE MainInv
  OBVIOUS
<1>1. IInv
  BY InitIInv DEF SketchInit
<1> DEFINE empty == <<>>
<1>2. empty \in Seq(Byte) /\ ReceiveSize["connect"] \in Nat
  BY SizeAssumption DEF Loop
<1> HIDE DEF empty
<1>3. buffer_recive \in [1 .. ReceiveSize[loop] -> Byte]
  BY <1>2, StackArrayType DEF SketchInit, empty
<1>4. MainShape
  BY <1>3 DEF SketchInit, MainShape, Label, Loop
<1>5. ret = "none"
  BY DEF SketchInit, Init
<1> QED
  BY <1>1, <1>4, <1>5 DEF SketchInit, MainInv, Order, Rearmed, Armed, Waits

----------------------------------------------------------------------------
(* The client's invariant under the steps that are not steps of Client.    *)
LEMMA DecodeArrayIInv ==
  ASSUME IInv, NEW buffer \in Seq(Byte), hdlc_decode_recived_raw_data(buffer),
         UNCHANGED line
  PROVE  IInv'
<1>1. PICK stale \in StaleControl : GetData(buffer, stale, <<>>)
  BY DEF hdlc_decode_recived_raw_data
<1> DEFINE noBytes == <<>>
<1> stale \in Control /\ DOMAIN noBytes = {}
  BY StaleControlAssumption
<1> HIDE DEF noBytes
<1>2. ParserInv'
  BY <1>1, GetDataInv DEF IInv, noBytes
<1>3. UNCHANGED <<client, ret, silent, connected>> /\ client.state # UNINITIALIZED_STATE
  BY DEF hdlc_decode_recived_raw_data, Up, clientVars
<1>4. ClientShape' /\ Untimed /\ Unconnected'
  BY <1>3 DEF IInv, ClientShape, Members, Untimed, Unconnected
<1> QED
  BY <1>2, <1>4, UntimedAccount DEF IInv

LEMMA LineIInv ==
  ASSUME IInv, UNCHANGED <<parserVars, clientVars>>, line' \in Seq(Byte)
  PROVE  IInv'
<1>1. ParserInv'
  BY ParserStutter DEF IInv
<1> QED
  BY <1>1
  DEF IInv, ClientShape, Members, Unconnected, TimeoutAccount, TimeoutMeansSilence,
      clientVars, parserVars

LEMMA MainIInv ==
  ASSUME MainInv, Main
  PROVE  IInv'
<1> USE DEF MainInv
<1>1. CASE Setup
  BY <1>1, InitClientIInv DEF Setup
<1>2. CASE Connect
  BY <1>2, ConnectIInv DEF Connect
<1>3. CASE TransmitPrepared \/ TransmitReject
  BY <1>3, RawFrameIInv DEF TransmitPrepared, TransmitReject, Transmit
<1>4. CASE Copy \/ EndSend \/ Display
  <2>1. UNCHANGED <<parserVars, clientVars, line>>
    BY <1>4 DEF Copy, EndSend, Display, vars
  <2> QED
    BY <2>1, LineIInv DEF IInv, ClientShape
<1>5. CASE Receive
  <2>1. UNCHANGED <<parserVars, clientVars>>
    BY <1>5 DEF Receive
  <2>2. line' \in Seq(Byte)
    BY <1>5 DEF Receive, IInv, ClientShape
  <2> QED
    BY <2>1, <2>2, LineIInv
<1>6. CASE CheckTimeout
  BY <1>6, TimeoutIInv DEF CheckTimeout
<1>7. CASE Decode
  <2>1. buffer_recive \in Seq(Byte)
    BY ArrayIsSequence, SizeAssumption DEF MainShape, Loop
  <2> QED
    BY <1>7, <2>1, DecodeArrayIInv DEF Decode
<1>8. CASE Decoding
  BY <1>8, ScanIInv DEF Decoding
<1>9. CASE DecodingFails
  BY <1>9, DecodeErrorIInv DEF DecodingFails
<1>10. CASE DecodingRejects
  BY <1>10, DecodeRejectIInv DEF DecodingRejects
<1>11. CASE DecodingAccepts
  BY <1>11, DecodeAcceptIInv DEF DecodingAccepts
<1>12. CASE SendData
  BY <1>12, SendIInv DEF SendData
<1> QED
  BY <1>1, <1>2, <1>3, <1>4, <1>5, <1>6, <1>7, <1>8, <1>9, <1>10, <1>11, <1>12 DEF Main

----------------------------------------------------------------------------
(* What each step changes of the rest.                                     *)
LEMMA MainShapeKept ==
  ASSUME MainInv, Main
  PROVE  MainShape'
<1> USE DEF MainShape, MainInv
<1>1. CASE Setup \/ Connect \/ CheckTimeout \/ Decode \/ DecodingFails \/ DecodingRejects
             \/ DecodingAccepts \/ Display \/ EndSend
  BY <1>1
  DEF Setup, Connect, CheckTimeout, Decode, DecodingFails, DecodingRejects, DecodingAccepts,
      Display, EndSend, Label
<1>2. CASE TransmitPrepared \/ TransmitReject
  BY <1>2 DEF TransmitPrepared, TransmitReject, Transmit, Label
<1>3. CASE Copy \/ Decoding
  BY <1>3 DEF Copy, Decoding, mainVars
<1>4. CASE Receive
  <2>1. line \in Seq(Byte) /\ ReceiveSize[loop] \in Nat
    BY SizeAssumption DEF IInv, ClientShape, Loop
  <2>2. PICK n \in 0 .. Len(line) :
          buffer_recive' = [k \in 1 .. ReceiveSize[loop] |->
                              IF k <= n THEN line[k] ELSE buffer_recive[k]]
    BY <1>4 DEF Receive
  <2>3. \A k \in 1 .. ReceiveSize[loop] : k <= n => k \in 1 .. Len(line) /\ line[k] \in Byte
    BY <2>1
  <2>4. buffer_recive' \in [1 .. ReceiveSize[loop] -> Byte]
    BY <2>2, <2>3
  <2> QED
    BY <1>4, <2>4 DEF Receive, Label
<1>5. CASE SendData
  <2>1. /\ ReceiveSize[loop] \in Nat /\ ReceiveSize["data"] \in Nat
        /\ loop' = "data" /\ pc' = "frame" /\ back' = back
        /\ buffer_recive' \in StackArrays(ReceiveSize["data"], buffer_recive)
    BY <1>5, SizeAssumption DEF SendData, Loop
  <2>2. buffer_recive \in Seq(Byte)
    BY <2>1, ArrayIsSequence
  <2>3. buffer_recive' \in [1 .. ReceiveSize["data"] -> Byte]
    BY <2>1, <2>2, StackArrayType
  <2> QED
    BY <2>1, <2>3 DEF Label, Loop
<1> QED
  BY <1>1, <1>2, <1>3, <1>4, <1>5 DEF Main

LEMMA OrderKept ==
  ASSUME MainInv, Main
  PROVE  Order' /\ Rearmed'
<1> USE DEF Order, Rearmed, Armed, Waits
<1>m. Members /\ client.connecting_frame_timeout \in Int /\ ConnectTimeout \in Int
  BY TimeoutAssumption DEF MainInv, IInv, ClientShape
<1>o. Order /\ Rearmed /\ loop \in Loop /\ back \in {"receive", "return"}
  BY DEF MainInv, MainShape
<1>1. CASE Setup
  <2>1. client' = [client EXCEPT !.state = IDLE_STATE,
                                 !.connecting_frame_timeout = ConnectTimeout,
                                 !.current_index_frame = 20]
    BY <1>1 DEF Setup, init_hdlc_client
  <2>2. client'.connecting_frame_timeout = ConnectTimeout
    BY <2>1, <1>m DEF Members
  <2> QED
    BY <1>1, <1>o, <2>2 DEF Setup, init_hdlc_client
<1>2. CASE Connect
  <2>1. client' = [client EXCEPT !.state = CONNECTING, !.frameS = Control_(S_FRAME),
                                 !.current_index_frame = 0]
    BY <1>2 DEF Connect, hdlc_connect
  <2>2. /\ client'.connecting_frame_timeout = client.connecting_frame_timeout
        /\ client'.state = CONNECTING /\ client'.current_index_frame = 0
    BY <2>1, <1>m DEF Members
  <2> QED
    BY <1>2, <1>o, <2>2 DEF Connect, hdlc_connect
<1>3. CASE TransmitPrepared \/ TransmitReject
  BY <1>3, <1>o DEF TransmitPrepared, TransmitReject, Transmit, hdlc_get_raw_frame
<1>4. CASE Copy \/ EndSend
  BY <1>4, <1>o DEF Copy, EndSend, vars, clientVars, mainVars
<1>5. CASE Receive
  BY <1>5, <1>o DEF Receive, clientVars
<1>6. CASE CheckTimeout
  <2>1. /\ client' = [client EXCEPT !.connecting_frame_timeout =
                                    client.connecting_frame_timeout - 1]
        /\ ret' = IF client'.connecting_frame_timeout <= 0 THEN "ERR_FRAME_TIME_OUT" ELSE "0"
    BY <1>6 DEF CheckTimeout, hdlc_timeout_handler
  <2>2. /\ client'.connecting_frame_timeout = client.connecting_frame_timeout - 1
        /\ client'.state = client.state
        /\ client'.current_index_frame = client.current_index_frame
    BY <2>1, <1>m DEF Members
  <2>3. ConnectTimeout > 1 => ret' = "0" /\ pc' = "decode"
    BY <1>6, <1>o, <1>m, <2>1, <2>2 DEF CheckTimeout
  <2> QED
    BY <1>6, <1>o, <2>2, <2>3 DEF CheckTimeout
<1>7. CASE Decode
  BY <1>7, <1>o DEF Decode, hdlc_decode_recived_raw_data, clientVars
<1>8. CASE Decoding
  BY <1>8, <1>o DEF Decoding, clientVars, mainVars
<1>9. CASE DecodingFails
  BY <1>9, <1>o DEF DecodingFails, DecodeError
<1>10. CASE DecodingRejects
  <2>1. client' = [client EXCEPT !.state = DISCONNECTING,
                                 !.frame_rej = Control_(S_FRAME_NACK)]
    BY <1>10 DEF DecodingRejects, DecodeReject, Rejected
  <2>2. client'.current_index_frame = client.current_index_frame
    BY <2>1, <1>m DEF Members
  <2> QED
    BY <1>10, <1>o, <2>2 DEF DecodingRejects, DecodeReject
<1>11. CASE DecodingAccepts
  <2>1. \/ client' = [client EXCEPT !.state = READY_STATE,
                                    !.connecting_frame_timeout = ConnectTimeout]
        \/ client' = [client EXCEPT !.connecting_frame_timeout = ConnectTimeout]
    BY <1>11 DEF DecodingAccepts, DecodeAccept
  <2>2. /\ client'.state \in {client.state, READY_STATE}
        /\ client'.connecting_frame_timeout = ConnectTimeout
        /\ client'.current_index_frame = client.current_index_frame
    BY <2>1, <1>m DEF Members
  <2>3. /\ pc = "decoding" /\ ret' = "0" /\ UNCHANGED <<back, loop, shown>>
        /\ pc' = IF ~LoopEnds THEN "receive" ELSE IF loop = "connect" THEN "data" ELSE "print"
    BY <1>11 DEF DecodingAccepts, DecodeAccept
  <2>4. CASE loop = "connect"
    <3>1. client'.state = READY_STATE <=> pc' = "data"
      BY <2>3, <2>4 DEF LoopEnds
    <3> QED
      BY <1>o, <2>2, <2>3, <2>4, <3>1
  <2>5. CASE loop = "data"
    BY <1>o, <2>2, <2>3, <2>5
  <2> QED
    BY <1>o, <2>4, <2>5 DEF Loop
<1>12. CASE SendData
  <2>1. PICK bytes \in UserData : hdlc_send_data(bytes)
    BY <1>12 DEF SendData
  <2>2. \/ client' = client
        \/ client' = [client EXCEPT !.state = RECIVING]
        \/ client' = [client EXCEPT !.state = RECIVING,
                                    !.frameI = Control_(I_FRAME),
                                    !.data_i_frame = bytes[1],
                                    !.len_data_i_frame = Len(bytes),
                                    !.current_index_frame = 0]
    BY <2>1 DEF hdlc_send_data
  <2>3. /\ client'.connecting_frame_timeout = client.connecting_frame_timeout
        /\ client'.current_index_frame \in {client.current_index_frame, 0}
    BY <2>2, <1>m DEF Members
  <2>4. ret' \in {"0", "ERR_INVALID_STATE", "ERR_INVALID_DATA_SIZE"}
    BY <2>1 DEF hdlc_send_data
  <2>5. pc = "data" /\ pc' = "frame" /\ loop' = "data" /\ UNCHANGED <<back, shown>>
    BY <1>12 DEF SendData
  <2> QED
    BY <1>o, <2>3, <2>4, <2>5
<1>13. CASE Display
  BY <1>13, <1>o DEF Display, vars, clientVars
<1> QED
  BY <1>1, <1>2, <1>3, <1>4, <1>5, <1>6, <1>7, <1>8, <1>9, <1>10, <1>11, <1>12, <1>13 DEF Main

(* The interrupt and the peer change nothing that main knows.              *)
LEMMA OutsideMain ==
  ASSUME MainInv,
         UNCHANGED sketchVars \/ ShiftOut \/ PeerActs
  PROVE  MainInv'
<1>1. CASE UNCHANGED sketchVars \/ ShiftOut
  <2>1. UNCHANGED <<parserVars, clientVars, line, mainVars>>
    BY <1>1 DEF sketchVars, vars, ShiftOut
  <2>2. IInv'
    BY <2>1, LineIInv DEF MainInv, IInv, ClientShape
  <2> QED
    BY <2>1, <2>2 DEF MainInv, MainShape, Order, Rearmed, Armed, Waits, mainVars, clientVars
<1>2. CASE PeerActs
  <2>1. PICK m \in PeerMessage : PeerSend(m)
    BY <1>2 DEF PeerActs
  <2>2. IInv'
    BY <2>1, PeerSendIInv DEF MainInv
  <2>3. UNCHANGED <<clientVars, mainVars>>
    BY <1>2, <2>1 DEF PeerActs, PeerSend
  <2> QED
    BY <2>2, <2>3 DEF MainInv, MainShape, Order, Rearmed, Armed, Waits, mainVars, clientVars
<1> QED
  BY <1>1, <1>2

LEMMA SketchNextInv == MainInv /\ [SketchNext]_sketchVars => MainInv'
<1> SUFFICES ASSUME MainInv, [SketchNext]_sketchVars PROVE MainInv'
  OBVIOUS
<1>1. CASE Main
  <2>1. IInv'
    BY <1>1, MainIInv
  <2>2. MainShape'
    BY <1>1, MainShapeKept
  <2>3. Order' /\ Rearmed'
    BY <1>1, OrderKept
  <2> QED
    BY <2>1, <2>2, <2>3 DEF MainInv
<1>2. CASE UNCHANGED sketchVars \/ ShiftOut \/ PeerActs
  BY <1>2, OutsideMain
<1> QED
  BY <1>1, <1>2 DEF SketchNext

THEOREM MainInvariance == SketchSpec => []MainInv
  BY InitMainInv, SketchNextInv, PTL DEF SketchSpec

----------------------------------------------------------------------------
(* With a timeout longer than one unit, main never sees it expire: each    *)
(* turn ends in an accepted frame, which starts it again, or ends main.    *)
THEOREM NoTimeout ==
  ASSUME ConnectTimeout > 1
  PROVE  SketchSpec => []NeverTimesOut
<1>1. MainInv => NeverTimesOut
  BY DEF MainInv, Rearmed, NeverTimesOut
<1> QED
  BY <1>1, MainInvariance, PTL

----------------------------------------------------------------------------
(* Every step of main is a step of the exchange or leaves it where it is.  *)
(* Where main is tells the stage of the exchange.                          *)
GivenUp ==
  pc = "reject" \/ (pc = "send" /\ back = "return") \/ (pc = "return" /\ shown = <<>>)

StageTable ==
  /\ pc \in {"setup", "connect"} => StageOfMain = "down"
  /\ Waits => StageOfMain = IF loop = "connect" THEN "asked" ELSE "used"
  /\ GivenUp => StageOfMain = "given up"
  /\ pc = "data" => StageOfMain = "confirmed"
  /\ pc = "print" => StageOfMain = "answered"
  /\ pc = "return" /\ shown # <<>> => StageOfMain = "shown"

LEMMA StageAt == MainInv => StageTable
<1> SUFFICES ASSUME MainInv PROVE StageTable
  OBVIOUS
<1>1. loop \in Loop
  BY DEF MainInv, MainShape
<1> QED
  <2>1. pc \in {"setup", "connect"} => StageOfMain = "down"
    BY DEF StageOfMain, Waits
  <2>2. Waits => StageOfMain = IF loop = "connect" THEN "asked" ELSE "used"
    BY <1>1 DEF StageOfMain, Waits, Loop
  <2>3. GivenUp => StageOfMain = "given up"
    BY DEF StageOfMain, GivenUp, Waits
  <2>4. pc = "data" => StageOfMain = "confirmed"
    BY DEF StageOfMain, Waits
  <2>5. pc = "print" => StageOfMain = "answered"
    BY DEF StageOfMain, Waits
  <2>6. pc = "return" /\ shown # <<>> => StageOfMain = "shown"
    BY DEF StageOfMain, Waits
  <2> QED
    BY <2>1, <2>2, <2>3, <2>4, <2>5, <2>6 DEF StageTable

LEMMA AppendNonEmpty ==
  ASSUME NEW e
  PROVE  Append(<<>>, e) # <<>>
<1>1. <<>> \in Seq({e})
  BY EmptySeq
<1> QED
  BY <1>1, AppendProperties

LEMMA StageStutter ==
  ASSUME UNCHANGED <<pc, back, loop, shown>>
  PROVE  UNCHANGED StageOfMain
BY DEF StageOfMain, Waits

LEMMA InitExchange == SketchInit => Agreed!Init
<1>1. SketchInit => pc = "setup" /\ heard = <<>>
  BY DEF SketchInit, Init
<1>2. SketchInit => StageTable
  BY InitMainInv, StageAt
<1> QED
  BY <1>1, <1>2 DEF StageTable, Agreed!Init

(* Each step of main is one of the exchange or keeps the stage.            *)
LEMMA MainExchange ==
  ASSUME MainInv, StageTable, StageTable', Main
  PROVE  Agreed!Next \/ UNCHANGED <<StageOfMain, heard>>
<1> USE DEF StageTable, Waits, GivenUp
<1>i. /\ loop \in {"connect", "data"} /\ back \in {"receive", "return"}
      /\ Order /\ control \in Control /\ Members
  BY DEF MainInv, MainShape, Loop, IInv, ClientShape, ParserInv, ParserTypeOK
<1> USE DEF Order
<1>1. CASE Setup
  <2>1. pc = "setup" /\ pc' = "connect" /\ heard' = heard
    BY <1>1 DEF Setup, init_hdlc_client
  <2> QED
    BY <2>1
<1>2. CASE Connect
  <2>1. pc = "connect" /\ pc' = "frame" /\ UNCHANGED <<loop, heard>>
    BY <1>2 DEF Connect, hdlc_connect
  <2>2. StageOfMain = "down" /\ StageOfMain' = "asked"
    BY <2>1, <1>i
  <2> QED
    BY <2>1, <2>2 DEF Agreed!Next, Agreed!Ask, Agreed!Move
<1>3. CASE TransmitPrepared \/ TransmitReject
  <2>1. /\ UNCHANGED <<loop, heard>> /\ pc' = "send"
        /\ (pc = "frame" /\ back' = "receive") \/ (pc = "reject" /\ back' = "return")
    BY <1>3 DEF TransmitPrepared, TransmitReject, Transmit, hdlc_get_raw_frame
  <2>2. StageOfMain' = StageOfMain
    <3>1. CASE pc = "frame" /\ back' = "receive"
      BY <2>1, <3>1
    <3>2. CASE pc = "reject" /\ back' = "return"
      <4>1. GivenUp /\ GivenUp'
        BY <2>1, <3>2
      <4> QED
        BY <4>1
    <3> QED
      BY <2>1, <3>1, <3>2
  <2>3. heard' = heard
    BY <2>1
  <2> QED
    BY <2>2, <2>3
<1>4. CASE Copy
  <2>1. UNCHANGED <<pc, back, loop, shown, heard>>
    BY <1>4 DEF Copy, vars, clientVars, mainVars
  <2> QED
    <3>1. UNCHANGED StageOfMain
      BY <2>1, StageStutter
    <3> QED
      BY <2>1, <3>1
<1>5. CASE EndSend
  <2>1. pc = "send" /\ pc' = back /\ UNCHANGED <<back, loop, shown, heard>>
    BY <1>5 DEF EndSend, vars, clientVars
  <2> QED
    BY <2>1, <1>i
<1>6. CASE Receive \/ CheckTimeout \/ Decode \/ Decoding
  <2>1. /\ UNCHANGED <<loop, heard>>
        /\ pc \in {"receive", "timeout", "decode", "decoding"}
        /\ pc' \in {"timeout", "frame", "decode", "decoding"}
    BY <1>6
    DEF Receive, CheckTimeout, hdlc_timeout_handler, Decode, hdlc_decode_recived_raw_data,
        Decoding, clientVars, mainVars
  <2> QED
    BY <2>1
<1>7. CASE DecodingFails
  <2>1. pc = "decoding" /\ pc' = "return" /\ UNCHANGED <<loop, shown, heard>>
    BY <1>7 DEF DecodingFails, DecodeError
  <2>2. StageOfMain \in {"asked", "used"} /\ StageOfMain' = "given up"
    BY <2>1, <1>i
  <2> QED
    BY <2>1, <2>2 DEF Agreed!Next, Agreed!GiveUp, Agreed!Move
<1>8. CASE DecodingRejects
  <2>1. /\ pc = "decoding" /\ pc' = "reject" /\ UNCHANGED loop
        /\ heard' = Append(heard, control)
        /\ control.seq_no # 0 \/ control.frame = S_FRAME_NACK
    BY <1>8, <1>i DEF DecodingRejects, DecodeReject
  <2>2. StageOfMain \in {"asked", "used"} /\ StageOfMain' = "given up"
    BY <2>1, <1>i
  <2>3. Agreed!After(control) = {"given up"}
    BY <2>1 DEF Agreed!After, S_FRAME, I_FRAME, S_FRAME_NACK
  <2>4. Agreed!Listen(control)
    BY <2>1, <2>2, <2>3 DEF Agreed!Listen
  <2> QED
    BY <2>4, <1>i DEF Agreed!Next
<1>9. CASE DecodingAccepts
  <2>1. /\ control.seq_no = 0 /\ control.frame \in {S_FRAME, I_FRAME}
        /\ heard' = Append(heard, control)
        /\ pc = "decoding" /\ UNCHANGED <<back, loop, shown>>
        /\ pc' = IF ~LoopEnds THEN "receive" ELSE IF loop = "connect" THEN "data" ELSE "print"
        /\ \/ /\ control.frame = S_FRAME
              /\ client' = [client EXCEPT !.state = READY_STATE,
                                          !.connecting_frame_timeout = ConnectTimeout]
           \/ /\ control.frame = I_FRAME
              /\ client' = [client EXCEPT !.connecting_frame_timeout = ConnectTimeout]
    BY <1>9, <1>i DEF DecodingAccepts, DecodeAccept
  <2>2. StageOfMain = IF loop = "connect" THEN "asked" ELSE "used"
    BY <2>1, <1>i
  <2>3. S_FRAME # I_FRAME
    BY DEF S_FRAME, I_FRAME
  <2>4. StageOfMain' \in Agreed!After(control)
    <3>1. CASE control.frame = S_FRAME
      <4>1. client'.state = READY_STATE
        BY <2>1, <2>3, <3>1, <1>i DEF Members
      <4>2. pc' = IF loop = "connect" THEN "data" ELSE "receive"
        BY <2>1, <4>1, <1>i, SendStateAssumption DEF LoopEnds
      <4>3. StageOfMain' = IF loop = "connect" THEN "confirmed" ELSE "used"
        BY <2>1, <4>2, <1>i
      <4> QED
        BY <2>1, <2>2, <2>3, <3>1, <4>3, <1>i DEF Agreed!After
    <3>2. CASE control.frame = I_FRAME
      <4>1. client'.state = client.state
        BY <2>1, <2>3, <3>2, <1>i DEF Members
      <4>2. pc' \in (IF loop = "connect" THEN {"receive"} ELSE {"receive", "print"})
        BY <2>1, <4>1, <1>i DEF LoopEnds, CONNECTING, READY_STATE
      <4>3. StageOfMain' \in (IF loop = "connect" THEN {"asked"} ELSE {"used", "answered"})
        BY <2>1, <4>2, <1>i
      <4> QED
        BY <2>1, <2>2, <2>3, <3>2, <4>3, <1>i DEF Agreed!After
    <3> QED
      BY <2>1, <3>1, <3>2
  <2>5. Agreed!Listen(control)
    BY <2>1, <2>2, <2>4, <1>i DEF Agreed!Listen
  <2> QED
    BY <2>5, <1>i DEF Agreed!Next
<1>10. CASE SendData
  <2>1. pc = "data" /\ pc' = "frame" /\ loop' = "data" /\ heard' = heard
    BY <1>10 DEF SendData, hdlc_send_data
  <2>2. StageOfMain = "confirmed" /\ StageOfMain' = "used"
    BY <2>1
  <2> QED
    BY <2>1, <2>2 DEF Agreed!Next, Agreed!Use, Agreed!Move
<1>11. CASE Display
  <2>1. pc = "print" /\ pc' = "return" /\ heard' = heard
    BY <1>11 DEF Display, vars, clientVars
  <2>2. shown' # <<>>
    <3> DEFINE byte == recived_data[Len(recived_data)]
    <3>1. shown' = Append(<<>>, byte)
      BY <1>11, <1>i, <2>1 DEF Display
    <3> HIDE DEF byte
    <3> QED
      BY <3>1, AppendNonEmpty
  <2>3. StageOfMain = "answered" /\ StageOfMain' = "shown"
    BY <2>1, <2>2
  <2> QED
    BY <2>1, <2>3 DEF Agreed!Next, Agreed!Show, Agreed!Move
<1> QED
  BY <1>1, <1>2, <1>3, <1>4, <1>5, <1>6, <1>7, <1>8, <1>9, <1>10, <1>11 DEF Main

LEMMA OutsideExchange ==
  ASSUME UNCHANGED sketchVars \/ ShiftOut \/ PeerActs
  PROVE  UNCHANGED <<StageOfMain, heard>>
BY StageStutter DEF sketchVars, vars, clientVars, mainVars, ShiftOut, PeerActs, PeerSend

(* Whatever the arrays hold and whatever is ignored of the results, main   *)
(* keeps the order of the exchange: asked, confirmed, used, answered,      *)
(* shown.                                                                  *)
THEOREM SketchImplementsExchange == SketchSpec => ImplementsExchange
<1>1. MainInv /\ StageTable /\ StageTable' /\ [SketchNext]_sketchVars
        => [Agreed!Next]_<<StageOfMain, heard>>
  BY MainExchange, OutsideExchange DEF SketchNext
<1>2. []MainInv => []StageTable
  BY StageAt, PTL
<1> QED
  BY <1>1, <1>2, InitExchange, MainInvariance, PTL DEF SketchSpec, ImplementsExchange, Agreed!Spec

----------------------------------------------------------------------------
(* The types.  main never serialises a member that was not written: each   *)
(* of its calls comes after the one that makes its frame ready.  It shows  *)
(* a byte only after one has been stored.                                  *)
Prepared ==
  /\ loop = "connect" /\ Waits => client.frameS = Control_(S_FRAME)
  /\ pc = "data" => client.state = READY_STATE
  /\ loop = "data" /\ Waits => client.frameI = Control_(I_FRAME)
  /\ pc = "reject" => client.frame_rej = Control_(S_FRAME_NACK)
  /\ pc = "print" => recived_data # <<>>

TxRing == [buffer : [Slot -> Byte], buf_head : Slot, buf_tail : Slot]

TxInv ==
  /\ usartTxBuffer \in TxRing
  /\ sending \in Seq(Byte) /\ copied \in 0 .. Len(sending)

SketchTypes == Types /\ Prepared /\ TxInv /\ shown \in Seq(Byte)

LEMMA InitSketchTypes == SketchInit => SketchTypes
<1> SUFFICES ASSUME SketchInit PROVE SketchTypes
  OBVIOUS
<1>1. Types
  BY InitTypes DEF SketchInit
<1>2. client.frameI = NoFrame /\ pc = "setup"
  BY DEF SketchInit, Init
<1>3. Prepared
  BY <1>2 DEF Prepared, Waits
<1>4. usartTxBuffer \in TxRing
  <2>1. 0 \in Slot /\ 0 \in Byte
    BY BufferSizeAssumption DEF Slot, Byte
  <2> QED
    BY <2>1 DEF SketchInit, TxInit, TxRing
<1>5. sending \in Seq(Byte) /\ copied \in 0 .. Len(sending)
  BY DEF SketchInit, TxInit
<1>6. shown \in Seq(Byte)
  BY DEF SketchInit
<1> QED
  BY <1>1, <1>3, <1>4, <1>5, <1>6 DEF SketchTypes, TxInv

----------------------------------------------------------------------------
(* The transmit ring keeps its indices inside the array.                   *)
LEMMA NextSlotType ==
  ASSUME NEW n \in Slot
  PROVE  NextSlot(n) \in Slot
<1>1. BUFFER_SIZE \in Nat /\ BUFFER_SIZE >= 2
  BY BufferSizeAssumption
<1>2. CASE n + 1 = BUFFER_SIZE
  BY <1>1, <1>2, Z3 DEF NextSlot, Slot
<1>3. CASE n + 1 < BUFFER_SIZE
  BY <1>1, <1>3, Z3 DEF NextSlot, Slot
<1> QED
  BY <1>1, <1>2, <1>3 DEF Slot

LEMMA RingKept ==
  ASSUME TxInv
  PROVE  /\ CopyByte => TxInv'
         /\ SendReturns => TxInv'
         /\ USART_UDRE_vect => TxInv'
         /\ UNCHANGED txVars => TxInv'
<1> USE DEF TxInv
<1>1. ASSUME CopyByte PROVE TxInv'
  <2>1. copied + 1 \in 1 .. Len(sending)
    BY <1>1 DEF CopyByte
  <2>2. sending[copied + 1] \in Byte
    BY <2>1, ElementOfSeq
  <2>3. usartTxBuffer' \in TxRing
    <3> DEFINE value == sending[copied + 1]
               tail == usartTxBuffer.buf_tail
    <3>1. tail \in Slot /\ NextSlot(tail) \in Slot
      BY NextSlotType DEF TxRing
    <3>2. usartTxBuffer' = [usartTxBuffer EXCEPT !.buffer[tail] = value,
                                                 !.buf_tail = NextSlot(tail)]
      BY <1>1 DEF CopyByte, write_buffer
    <3> HIDE DEF value, tail
    <3>3. value \in Byte
      BY <2>2 DEF value
    <3> QED
      BY <3>1, <3>2, <3>3 DEF TxRing
  <2> QED
    BY <1>1, <2>1, <2>3 DEF CopyByte
<1>2. ASSUME SendReturns PROVE TxInv'
  BY <1>2 DEF SendReturns
<1>3. ASSUME USART_UDRE_vect PROVE TxInv'
  <2>1. NextSlot(usartTxBuffer.buf_head) \in Slot
    BY NextSlotType DEF TxRing
  <2> QED
    BY <1>3, <2>1 DEF USART_UDRE_vect, FreeOldest, TxRing
<1>4. ASSUME UNCHANGED txVars PROVE TxInv'
  BY <1>4 DEF txVars
<1> QED
  BY <1>1, <1>2, <1>3, <1>4

(* The array that is sent is the frame and what lies behind it.            *)
LEMMA ArrayType ==
  ASSUME NEW frame \in Seq(Byte), NEW size \in Nat
  PROVE  InArray(frame, size) \in Seq(Byte)
<1>1. \A k \in 1 .. size : k <= Len(frame) => frame[k] \in Byte
  BY ElementOfSeq
<1>2. 0 \in Byte
  BY DEF Byte
<1>3. InArray(frame, size) \in [1 .. size -> Byte]
  BY <1>1, <1>2 DEF InArray
<1> QED
  BY <1>3, ArrayIsSequence

LEMMA TransmitTypes ==
  ASSUME Types, TxInv, NEW frame \in Frames, NEW size \in Nat, NEW next,
         Transmit(frame, size, next)
  PROVE  Types' /\ TxInv'
<1>1. Types'
  BY CallTypesKept DEF Transmit
<1>2. raw' \in Seq(Byte)
  BY <1>1 DEF Types, CallTypes
<1>3. InArray(raw', size) \in Seq(Byte)
  BY <1>2, ArrayType
<1>4. sending' = InArray(raw', size) /\ copied' = 0 /\ usartTxBuffer' = usartTxBuffer
  BY DEF Transmit, UART_send
<1>5. TxInv'
  BY <1>3, <1>4 DEF TxInv
<1> QED
  BY <1>1, <1>5

----------------------------------------------------------------------------
(* Each step of main.                                                      *)
LEMMA MainTypes ==
  ASSUME MainInv, SketchTypes, Main
  PROVE  Types' /\ TxInv'
<1>1. Types /\ TxInv /\ ParserTypeOK
  BY DEF SketchTypes, MainInv, IInv, ParserInv
<1>2. CASE Setup \/ Connect \/ CheckTimeout
  BY <1>1, <1>2, CallTypesKept, RingKept DEF Setup, Connect, CheckTimeout
<1>3. CASE TransmitPrepared
  <2>1. SendSize[loop] \in Nat /\ loop \in Loop
    BY SizeAssumption DEF MainInv, MainShape
  <2>2. client.frameS # NoFrame \/ loop # "connect"
    BY <1>3 DEF TransmitPrepared, SketchTypes, Prepared, Waits, Control_, NoFrame, S_FRAME
  <2>3. client.frameI # NoFrame \/ loop # "data"
    BY <1>3 DEF TransmitPrepared, SketchTypes, Prepared, Waits, Control_, NoFrame, I_FRAME
  <2>4. (IF loop = "connect" THEN client.frameS ELSE client.frameI) \in Frames
    BY <2>1, <2>2, <2>3 DEF Frames, Loop
  <2> QED
    BY <1>1, <1>3, <2>1, <2>4, TransmitTypes DEF TransmitPrepared
<1>4. CASE TransmitReject
  <2>1. client.frame_rej \in Frames
    BY <1>4
    DEF TransmitReject, SketchTypes, Prepared, Frames, Control_, NoFrame, S_FRAME_NACK
  <2> QED
    BY <1>1, <1>4, <2>1, SizeAssumption, TransmitTypes DEF TransmitReject
<1>5. CASE Copy
  BY <1>1, <1>5, RingKept DEF Copy, vars, clientVars, Types, ShortPayload, CallTypes
<1>6. CASE EndSend
  BY <1>1, <1>6, RingKept DEF EndSend, vars, clientVars, Types, ShortPayload, CallTypes
<1>7. CASE Receive
  BY <1>1, <1>7, RingKept DEF Receive, clientVars, Types, ShortPayload, CallTypes
<1>8. CASE Decode
  BY <1>1, <1>8, RingKept
  DEF Decode, hdlc_decode_recived_raw_data, clientVars, Types, ShortPayload, CallTypes
<1>9. CASE Decoding
  BY <1>1, <1>9, RingKept DEF Decoding, clientVars, Types, ShortPayload, CallTypes
<1>10. CASE DecodingFails \/ DecodingRejects \/ DecodingAccepts
  BY <1>1, <1>10, DecodeTypes, RingKept
  DEF DecodingFails, DecodingRejects, DecodingAccepts
<1>11. CASE SendData
  BY <1>1, <1>11, SendTypes, RingKept DEF SendData
<1>12. CASE Display
  BY <1>1, <1>12, RingKept DEF Display, vars, clientVars, Types, ShortPayload, CallTypes
<1> QED
  BY <1>2, <1>3, <1>4, <1>5, <1>6, <1>7, <1>8, <1>9, <1>10, <1>11, <1>12 DEF Main

(* What protocol_encode makes fits data, an array of 64 bytes of main, as  *)
(* many as the client takes.                                               *)
EncodedPayloads == \A bytes \in UserData : Len(bytes) <= SIZE_DATA_BUFFERS

LEMMA MainPrepared ==
  ASSUME EncodedPayloads, MainInv, SketchTypes, Main
  PROVE  Prepared' /\ shown' \in Seq(Byte)
<1> USE DEF Prepared, Waits
<1>i. /\ loop \in {"connect", "data"} /\ Order /\ client \in ClientRecord
      /\ Prepared /\ shown \in Seq(Byte) /\ recived_data \in Seq(Byte)
      /\ back \in {"receive", "return"}
  BY DEF MainInv, MainShape, Loop, SketchTypes, Types, CallTypes
<1>1. CASE Setup
  BY <1>1, <1>i DEF Setup
<1>2. CASE Connect
  <2>1. client'.frameS = Control_(S_FRAME)
    BY <1>2, <1>i DEF Connect, hdlc_connect, ClientRecord
  <2> QED
    BY <1>2, <1>i, <2>1 DEF Connect, Order
<1>3. CASE TransmitPrepared \/ TransmitReject
  BY <1>3, <1>i DEF TransmitPrepared, TransmitReject, Transmit, hdlc_get_raw_frame
<1>4. CASE Copy \/ EndSend
  BY <1>4, <1>i DEF Copy, EndSend, vars, clientVars, mainVars
<1>5. CASE Receive \/ Decode \/ Decoding
  BY <1>5, <1>i
  DEF Receive, Decode, hdlc_decode_recived_raw_data, Decoding, clientVars, mainVars
<1>6. CASE CheckTimeout
  <2>1. /\ client'.frameS = client.frameS /\ client'.frameI = client.frameI
        /\ client'.state = client.state
    BY <1>6, <1>i DEF CheckTimeout, hdlc_timeout_handler, ClientRecord
  <2> QED
    BY <1>6, <1>i, <2>1 DEF CheckTimeout
<1>7. CASE DecodingFails
  BY <1>7, <1>i DEF DecodingFails, DecodeError
<1>8. CASE DecodingRejects
  <2>1. client'.frame_rej = Control_(S_FRAME_NACK)
    BY <1>8, <1>i DEF DecodingRejects, DecodeReject, Rejected, ClientRecord
  <2> QED
    BY <1>8, <1>i, <2>1 DEF DecodingRejects
<1>9. CASE DecodingAccepts
  <2>1. /\ pc = "decoding" /\ UNCHANGED <<back, loop, shown>>
        /\ pc' = IF ~LoopEnds THEN "receive" ELSE IF loop = "connect" THEN "data" ELSE "print"
    BY <1>9 DEF DecodingAccepts
  <2>2. client'.frameS = client.frameS /\ client'.frameI = client.frameI
    BY <1>9, <1>i DEF DecodingAccepts, DecodeAccept, ClientRecord
  <2>3. pc' = "data" => client'.state = READY_STATE
    BY <2>1 DEF LoopEnds
  <2>4. pc' = "print" => recived_data' # <<>>
    <3>1. SUFFICES ASSUME pc' = "print" PROVE recived_data' # <<>>
      OBVIOUS
    <3>2. client'.state # READY_STATE
      BY <2>1, <3>1, SendStateAssumption DEF LoopEnds
    <3>3. \E byte \in ReportedByte : recived_data' = Append(recived_data, byte)
      BY <1>9, <1>i, <3>2 DEF DecodingAccepts, DecodeAccept, ClientRecord
    <3> QED
      BY <1>i, <3>3
  <2> QED
    BY <1>i, <2>1, <2>2, <2>3, <2>4
<1>10. CASE SendData
  <2>1. PICK bytes \in UserData : hdlc_send_data(bytes)
    BY <1>10 DEF SendData
  <2>2. /\ pc = "data" /\ pc' = "frame" /\ loop' = "data" /\ shown' = shown
        /\ client.state = READY_STATE
    BY <1>10, <1>i DEF SendData
  <2>3. ~(Len(bytes) > SIZE_DATA_BUFFERS)
    BY UserDataAssumption DEF EncodedPayloads, SIZE_DATA_BUFFERS
  <2>4. client' = [client EXCEPT !.state = RECIVING, !.frameI = Control_(I_FRAME),
                                 !.data_i_frame = bytes[1],
                                 !.len_data_i_frame = Len(bytes),
                                 !.current_index_frame = 0]
    BY <2>1, <2>2, <2>3 DEF hdlc_send_data
  <2>5. client'.frameI = Control_(I_FRAME)
    BY <1>i, <2>4 DEF ClientRecord
  <2> QED
    BY <1>i, <2>2, <2>5
<1>11. CASE Display
  <2>1. /\ pc = "print" /\ pc' = "return" /\ recived_data # <<>>
        /\ shown' = Append(shown, recived_data[Len(recived_data)])
        /\ UNCHANGED <<loop, back>>
    BY <1>11, <1>i DEF Display
  <2>2. recived_data[Len(recived_data)] \in Byte
    BY <1>i, <2>1
  <2> QED
    BY <1>i, <2>1, <2>2
<1> QED
  BY <1>1, <1>2, <1>3, <1>4, <1>5, <1>6, <1>7, <1>8, <1>9, <1>10, <1>11 DEF Main

LEMMA SketchNextTypes ==
  ASSUME EncodedPayloads, MainInv, SketchTypes, [SketchNext]_sketchVars
  PROVE  SketchTypes'
<1>1. CASE Main
  BY <1>1, MainTypes, MainPrepared DEF SketchTypes
<1>2. CASE UNCHANGED <<clientVars, peerSent, mainVars>> /\ TxInv'
  BY <1>2
  DEF SketchTypes, Types, ShortPayload, CallTypes, Prepared, Waits, clientVars, mainVars
<1>3. CASE UNCHANGED sketchVars \/ ShiftOut
  <2>1. UNCHANGED <<clientVars, peerSent, mainVars>>
    BY <1>3 DEF sketchVars, vars, ShiftOut
  <2>2. TxInv'
    BY <1>3, RingKept DEF sketchVars, ShiftOut, SketchTypes
  <2> QED
    BY <1>2, <2>1, <2>2
<1>4. CASE PeerActs
  <2>1. Types'
    BY <1>4
    DEF PeerActs, PeerSend, clientVars, SketchTypes, Types, ShortPayload, CallTypes
  <2>2. UNCHANGED <<clientVars, mainVars>> /\ TxInv'
    BY <1>4, RingKept DEF PeerActs, PeerSend, SketchTypes
  <2> QED
    BY <2>1, <2>2 DEF SketchTypes, Prepared, Waits, clientVars, mainVars
<1> QED
  BY <1>1, <1>3, <1>4 DEF SketchNext

(* Every array and every variable of main holds bytes, whatever was in its *)
(* place on the stack; the frames it sends are frames that were made, and  *)
(* the ring indices stay inside the ring.                                  *)
THEOREM SketchTypeCorrect ==
  ASSUME EncodedPayloads
  PROVE  SketchSpec => []SketchTypeOK
<1>1. MainInv /\ SketchTypes => SketchTypeOK
  <2> SUFFICES ASSUME MainInv, SketchTypes PROVE SketchTypeOK
    OBVIOUS
  <2>1. TypeOK
    BY DEF MainInv, SketchTypes, Types, ClientRecord, CallTypes, TypeOK, IInv, ParserInv,
           ClientShape
  <2>2. TxTypeOK
    BY DEF SketchTypes, TxInv, TxRing, TxTypeOK
  <2> QED
    BY <2>1, <2>2 DEF MainInv, MainShape, SketchTypes, SketchTypeOK
<1>2. MainInv /\ SketchTypes /\ [SketchNext]_sketchVars => SketchTypes'
  BY SketchNextTypes
<1> QED
  BY <1>1, <1>2, InitSketchTypes, MainInvariance, PTL DEF SketchSpec

----------------------------------------------------------------------------
(* Room in the transmit ring for the frames main sends.                    *)
LEMMA HeldRange ==
  ASSUME NEW cb \in TxRing
  PROVE  /\ Held(cb) \in 0 .. BUFFER_SIZE - 1
         /\ buffer_full(cb) <=> Held(cb) = BUFFER_SIZE - 1
<1>1. BUFFER_SIZE \in Nat /\ BUFFER_SIZE >= 2
  BY BufferSizeAssumption
<1>2. cb.buf_head \in 0 .. BUFFER_SIZE - 1 /\ cb.buf_tail \in 0 .. BUFFER_SIZE - 1
  BY DEF TxRing, Slot
<1>3. NextSlot(cb.buf_tail)
        = IF cb.buf_tail = BUFFER_SIZE - 1 THEN 0 ELSE cb.buf_tail + 1
  BY <1>1, <1>2, Z3 DEF NextSlot
<1> QED
  BY <1>1, <1>2, <1>3 DEF Held, buffer_full

LEMMA CopyHolds ==
  ASSUME TxInv, CopyByte
  PROVE  Held(usartTxBuffer') = Held(usartTxBuffer) + 1
<1> DEFINE cb == usartTxBuffer
           value == sending[copied + 1]
<1>1. BUFFER_SIZE \in Nat /\ BUFFER_SIZE >= 2 /\ cb \in TxRing /\ ~buffer_full(cb)
  BY BufferSizeAssumption DEF TxInv, CopyByte
<1>2. cb' = [cb EXCEPT !.buffer[cb.buf_tail] = value, !.buf_tail = NextSlot(cb.buf_tail)]
  BY DEF CopyByte, write_buffer
<1> HIDE DEF cb, value
<1>3. /\ cb'.buf_head = cb.buf_head /\ cb'.buf_tail = NextSlot(cb.buf_tail)
      /\ cb.buf_head \in 0 .. BUFFER_SIZE - 1 /\ cb.buf_tail \in 0 .. BUFFER_SIZE - 1
  BY <1>1, <1>2 DEF TxRing, Slot
<1>4. NextSlot(cb.buf_tail)
        = IF cb.buf_tail = BUFFER_SIZE - 1 THEN 0 ELSE cb.buf_tail + 1
  BY <1>1, <1>3, Z3 DEF NextSlot
<1>5. NextSlot(cb.buf_tail) # cb.buf_head
  BY <1>1 DEF buffer_full
<1>6. Held(cb') = Held(cb) + 1
  BY <1>1, <1>3, <1>4, <1>5 DEF Held
<1> QED
  BY <1>6 DEF cb

LEMMA ShiftHolds ==
  ASSUME TxInv, USART_UDRE_vect
  PROVE  Held(usartTxBuffer') <= Held(usartTxBuffer)
<1> DEFINE cb == usartTxBuffer
<1>1. BUFFER_SIZE \in Nat /\ BUFFER_SIZE >= 2 /\ cb \in TxRing /\ ~buffer_empty(cb)
  BY BufferSizeAssumption DEF TxInv, USART_UDRE_vect
<1>2. cb' = [cb EXCEPT !.buf_head = NextSlot(cb.buf_head)]
  BY DEF USART_UDRE_vect, FreeOldest
<1> HIDE DEF cb
<1>3. /\ cb'.buf_head = NextSlot(cb.buf_head) /\ cb'.buf_tail = cb.buf_tail
      /\ cb.buf_head \in 0 .. BUFFER_SIZE - 1 /\ cb.buf_tail \in 0 .. BUFFER_SIZE - 1
  BY <1>1, <1>2 DEF TxRing, Slot
<1>4. NextSlot(cb.buf_head)
        = IF cb.buf_head = BUFFER_SIZE - 1 THEN 0 ELSE cb.buf_head + 1
  BY <1>1, <1>3, Z3 DEF NextSlot
<1>5. cb.buf_head # cb.buf_tail
  BY <1>1 DEF buffer_empty
<1>6. Held(cb') <= Held(cb)
  BY <1>1, <1>3, <1>4, <1>5 DEF Held
<1> QED
  BY <1>6 DEF cb

(* The payload bytes of the I-frame: what stands in memory where the       *)
(* client keeps the first of them and the length (client.c:54, :73).       *)
Carried(first, n) == SubSeq(<<first, 0, n % 256, n \div 256>>, 1, n)

RoomFor(frame, size, before) ==
  Len(frame) <= size /\ before + Len(frame) <= BUFFER_SIZE - 1

(* Each frame fits the array it is made in, and the ring after the array   *)
(* of the connect loop, should nothing of it have left yet.                *)
RoomForFrames ==
  /\ RoomFor(hdlc_frame_data(Control_(S_FRAME), <<>>), SendSize["connect"], 0)
  /\ RoomFor(hdlc_frame_data(Control_(S_FRAME_NACK), <<>>), RejectSize, SendSize["connect"])
  /\ \A bytes \in UserData :
       RoomFor(hdlc_frame_data(Control_(I_FRAME), Carried(bytes[1], Len(bytes))),
               SendSize["data"], SendSize["connect"])

(* The reject frame of the data loop follows an array that may have filled *)
(* the ring.                                                               *)
AfterData == loop = "data" /\ back = "return"

(* How many bytes may be in the ring when main begins to send.             *)
Before ==
  IF loop = "connect" /\ (pc \in {"setup", "connect", "frame"} \/ (pc = "send" /\ back = "receive"))
  THEN 0
  ELSE SendSize["connect"]

RoomInv ==
  /\ pc = "frame" \/ (loop = "connect" /\ pc \notin {"send", "return"})
       => Held(usartTxBuffer) <= Before
  /\ pc = "send" /\ ~AfterData =>
       /\ Held(usartTxBuffer) <= Before + copied
       /\ RoomFor(raw, Len(sending), Before)
       /\ loop = "connect" /\ back = "receive" => Len(sending) = SendSize["connect"]
  /\ pc = "frame" /\ loop = "data" =>
       \E bytes \in UserData :
         client.data_i_frame = bytes[1] /\ client.len_data_i_frame = Len(bytes)

LEMMA ArrayLength ==
  ASSUME NEW frame, NEW size \in Nat
  PROVE  Len(InArray(frame, size)) = size
BY DEF InArray

LEMMA RoomOfTransmit ==
  ASSUME TxInv, NEW frame, NEW size \in Nat, NEW next, Transmit(frame, size, next),
         NEW data, hdlc_frame_data(frame, SubSeq(Memory, 1, client.len_data_i_frame)) = data,
         NEW before \in Nat, RoomFor(data, size, before), Held(usartTxBuffer) <= before
  PROVE  /\ pc' = "send" /\ back' = next /\ loop' = loop
         /\ Held(usartTxBuffer') <= before + copied'
         /\ RoomFor(raw', Len(sending'), before) /\ Len(sending') = size
<1>1. /\ pc' = "send" /\ back' = next /\ loop' = loop /\ raw' = data
      /\ sending' = InArray(raw', size) /\ copied' = 0 /\ usartTxBuffer' = usartTxBuffer
  BY DEF Transmit, UART_send, hdlc_get_raw_frame
<1>2. Len(sending') = size
  BY <1>1, ArrayLength
<1>3. before + copied' = before
  BY <1>1
<1> QED
  BY <1>1, <1>2, <1>3

LEMMA RoomOfFrame ==
  ASSUME RoomForFrames, MainInv, SketchTypes, RoomInv, TransmitPrepared
  PROVE  RoomInv'
<1> DEFINE payload == SubSeq(Memory, 1, client.len_data_i_frame)
<1>1. /\ loop \in {"connect", "data"} /\ pc = "frame" /\ TxInv
      /\ SendSize["connect"] \in Nat /\ SendSize["data"] \in Nat /\ Held(usartTxBuffer) <= Before
  BY SizeAssumption DEF MainInv, MainShape, Loop, SketchTypes, TransmitPrepared, RoomInv
<1>2. CASE loop = "connect"
  <2>1. client.frameS = Control_(S_FRAME) /\ Transmit(client.frameS, SendSize["connect"], "receive")
    BY <1>1, <1>2 DEF TransmitPrepared, SketchTypes, Prepared, Waits
  <2>2. Control_(S_FRAME).frame # I_FRAME
    BY DEF Control_, S_FRAME, I_FRAME
  <2>3. hdlc_frame_data(client.frameS, payload) = hdlc_frame_data(Control_(S_FRAME), <<>>)
    BY <2>1, <2>2, DataOnlyInInfo
  <2>4. RoomFor(hdlc_frame_data(Control_(S_FRAME), <<>>), SendSize["connect"], 0)
    BY DEF RoomForFrames
  <2>5. Held(usartTxBuffer) <= 0
    BY <1>1, <1>2 DEF Before
  <2>6. /\ pc' = "send" /\ back' = "receive" /\ loop' = loop
        /\ Held(usartTxBuffer') <= 0 + copied'
        /\ RoomFor(raw', Len(sending'), 0) /\ Len(sending') = SendSize["connect"]
    BY <1>1, <2>1, <2>3, <2>4, <2>5, RoomOfTransmit
  <2>7. Before' = 0
    BY <1>2, <2>6 DEF Before
  <2> QED
    BY <1>2, <2>6, <2>7 DEF RoomInv
<1>3. CASE loop = "data"
  <2>1. client.frameI = Control_(I_FRAME) /\ Transmit(client.frameI, SendSize["data"], "receive")
    BY <1>1, <1>3 DEF TransmitPrepared, SketchTypes, Prepared, Waits
  <2>2. PICK bytes \in UserData :
          client.data_i_frame = bytes[1] /\ client.len_data_i_frame = Len(bytes)
    BY <1>1, <1>3 DEF RoomInv
  <2>3. payload = Carried(bytes[1], Len(bytes))
    BY <2>2 DEF Carried, Memory
  <2>4. RoomFor(hdlc_frame_data(Control_(I_FRAME), Carried(bytes[1], Len(bytes))),
                SendSize["data"], SendSize["connect"])
    BY DEF RoomForFrames
  <2>5. Held(usartTxBuffer) <= SendSize["connect"]
    BY <1>1, <1>3 DEF Before
  <2>6. hdlc_frame_data(client.frameI, payload)
          = hdlc_frame_data(Control_(I_FRAME), Carried(bytes[1], Len(bytes)))
    BY <2>1, <2>3
  <2>7. /\ pc' = "send" /\ back' = "receive" /\ loop' = loop
        /\ Held(usartTxBuffer') <= SendSize["connect"] + copied'
        /\ RoomFor(raw', Len(sending'), SendSize["connect"])
    BY <1>1, <2>1, <2>4, <2>5, <2>6, RoomOfTransmit
  <2>8. Before' = SendSize["connect"]
    BY <1>3, <2>7 DEF Before
  <2> QED
    BY <1>3, <2>7, <2>8 DEF RoomInv
<1> QED
  BY <1>1, <1>2, <1>3

LEMMA RoomOfReject ==
  ASSUME RoomForFrames, MainInv, SketchTypes, RoomInv, TransmitReject
  PROVE  RoomInv'
<1> DEFINE payload == SubSeq(Memory, 1, client.len_data_i_frame)
<1>1. /\ loop \in {"connect", "data"} /\ pc = "reject" /\ TxInv
      /\ SendSize["connect"] \in Nat /\ RejectSize \in Nat
      /\ Transmit(client.frame_rej, RejectSize, "return")
      /\ client.frame_rej = Control_(S_FRAME_NACK)
  BY SizeAssumption DEF MainInv, MainShape, Loop, SketchTypes, Prepared, TransmitReject
<1>2. pc' = "send" /\ back' = "return" /\ loop' = loop
  BY <1>1 DEF Transmit
<1>3. CASE loop = "connect"
  <2>1. Control_(S_FRAME_NACK).frame # I_FRAME
    BY DEF Control_, S_FRAME_NACK, I_FRAME
  <2>2. hdlc_frame_data(client.frame_rej, payload) = hdlc_frame_data(Control_(S_FRAME_NACK), <<>>)
    BY <1>1, <2>1, DataOnlyInInfo
  <2>3. RoomFor(hdlc_frame_data(Control_(S_FRAME_NACK), <<>>), RejectSize, SendSize["connect"])
    BY DEF RoomForFrames
  <2>4. Held(usartTxBuffer) <= SendSize["connect"]
    BY <1>1, <1>3 DEF RoomInv, Before
  <2>5. /\ Held(usartTxBuffer') <= SendSize["connect"] + copied'
        /\ RoomFor(raw', Len(sending'), SendSize["connect"])
    BY <1>1, <2>2, <2>3, <2>4, RoomOfTransmit
  <2>6. Before' = SendSize["connect"]
    BY <1>2 DEF Before
  <2> QED
    BY <1>2, <2>5, <2>6 DEF RoomInv
<1>4. CASE loop = "data"
  BY <1>2, <1>4 DEF RoomInv, AfterData
<1> QED
  BY <1>1, <1>3, <1>4

LEMMA RoomOfCopy ==
  ASSUME MainInv, SketchTypes, RoomInv, Copy
  PROVE  RoomInv'
<1>1. /\ pc = "send" /\ UNCHANGED <<pc, back, loop, client, raw>> /\ TxInv
      /\ Held(usartTxBuffer') = Held(usartTxBuffer) + 1
      /\ sending' = sending /\ copied' = copied + 1
  BY CopyHolds DEF Copy, vars, clientVars, mainVars, SketchTypes, CopyByte
<1>2. Before' = Before /\ AfterData' = AfterData
  BY <1>1 DEF Before, AfterData
<1>3. /\ copied \in Nat /\ Before \in Nat /\ Held(usartTxBuffer) \in Nat
  BY <1>1, HeldRange, SizeAssumption, BufferSizeAssumption
  DEF TxInv, Before, Loop
<1>4. Held(usartTxBuffer) <= Before + copied => Held(usartTxBuffer') <= Before + copied'
  BY <1>1, <1>3
<1> QED
  BY <1>1, <1>2, <1>4 DEF RoomInv, RoomFor

LEMMA RoomOfEnd ==
  ASSUME MainInv, SketchTypes, RoomInv, EndSend
  PROVE  /\ RoomInv'
         /\ copied >= Len(raw) \/ (loop = "data" /\ back = "return")
<1>1. /\ pc = "send" /\ pc' = back /\ back \in {"receive", "return"} /\ TxInv
      /\ loop \in {"connect", "data"}
      /\ usartTxBuffer' = usartTxBuffer /\ loop' = loop
      /\ copied = Len(sending) \/ buffer_full(usartTxBuffer)
  BY DEF EndSend, SendReturns, CopyEnds, MainInv, MainShape, Loop, SketchTypes
<1>2. /\ copied \in 0 .. Len(sending) /\ Len(sending) \in Nat
      /\ Held(usartTxBuffer) \in 0 .. BUFFER_SIZE - 1 /\ BUFFER_SIZE \in Nat
      /\ buffer_full(usartTxBuffer) => Held(usartTxBuffer) = BUFFER_SIZE - 1
      /\ SendSize["connect"] \in Nat
  BY <1>1, HeldRange, SizeAssumption, BufferSizeAssumption DEF TxInv, Loop
<1>3. ~AfterData =>
        /\ Held(usartTxBuffer) <= Before + copied
        /\ Len(raw) <= Len(sending) /\ Before + Len(raw) <= BUFFER_SIZE - 1
        /\ loop = "connect" /\ back = "receive" => Len(sending) = SendSize["connect"]
  BY <1>1 DEF RoomInv, RoomFor
<1>4. raw \in Seq(Byte) /\ Before \in Nat
  BY <1>2 DEF SketchTypes, Types, CallTypes, Before
<1>5. copied >= Len(raw) \/ AfterData
  <2>1. Len(raw) \in Nat
    BY <1>4
  <2> QED
    BY <1>1, <1>2, <1>3, <1>4, <2>1
<1>6. ASSUME loop = "connect", back = "receive"
      PROVE  Held(usartTxBuffer) <= SendSize["connect"]
  <2>1. Before = 0
    BY <1>1, <1>6 DEF Before
  <2> QED
    BY <1>2, <1>3, <1>6, <2>1 DEF AfterData
<1>7. loop = "connect" /\ back = "receive" => Before' = SendSize["connect"]
  BY <1>1 DEF Before
<1>8. RoomInv'
  BY <1>1, <1>6, <1>7 DEF RoomInv
<1> QED
  BY <1>5, <1>8 DEF AfterData

(* The steps that leave the ring alone and main where the bound on what it *)
(* holds is the same.                                                      *)
LEMMA RoomElsewhere ==
  ASSUME RoomInv, usartTxBuffer' = usartTxBuffer, loop' = loop,
         pc' \notin {"send", "frame"},
         loop = "connect" /\ pc' # "return" =>
           /\ pc \notin {"send", "return"}
           /\ pc \in {"setup", "connect", "frame"} => pc' \in {"setup", "connect", "frame"}
           /\ pc \notin {"setup", "connect", "frame"} => pc' \notin {"setup", "connect", "frame"}
  PROVE  RoomInv'
<1>1. loop = "connect" /\ pc' # "return" => Before' = Before
  BY DEF Before
<1> QED
  BY <1>1 DEF RoomInv

LEMMA MainRoom ==
  ASSUME ConnectTimeout > 1, EncodedPayloads, RoomForFrames,
         MainInv, MainInv', SketchTypes, RoomInv, Main
  PROVE  RoomInv'
<1>o. Order /\ MainShape /\ SendSize["connect"] \in Nat /\ client \in ClientRecord
  BY SizeAssumption DEF MainInv, Loop, SketchTypes, Types
<1>1. CASE Setup
  BY <1>1, RoomElsewhere DEF Setup, txVars
<1>2. CASE Connect
  <2>1. /\ pc = "connect" /\ loop = "connect" /\ loop' = loop /\ pc' = "frame"
        /\ usartTxBuffer' = usartTxBuffer
    BY <1>2, <1>o DEF Connect, Order, txVars
  <2>2. Before' = Before
    BY <2>1 DEF Before
  <2> QED
    BY <2>1, <2>2 DEF RoomInv
<1>3. CASE TransmitPrepared
  BY <1>3, RoomOfFrame
<1>4. CASE TransmitReject
  BY <1>4, RoomOfReject
<1>5. CASE Copy
  BY <1>5, RoomOfCopy
<1>6. CASE EndSend
  BY <1>6, RoomOfEnd
<1>7. CASE Receive \/ Decode \/ Decoding
  BY <1>7, RoomElsewhere DEF Receive, Decode, Decoding, txVars, mainVars
<1>8. CASE CheckTimeout
  <2>1. ret' # "ERR_FRAME_TIME_OUT"
    BY DEF MainInv, Rearmed
  <2> QED
    BY <1>8, <2>1, RoomElsewhere DEF CheckTimeout, txVars
<1>9. CASE DecodingFails \/ DecodingRejects \/ DecodingAccepts
  BY <1>9, RoomElsewhere DEF DecodingFails, DecodingRejects, DecodingAccepts, txVars
<1>10. CASE SendData
  <2>1. PICK bytes \in UserData : hdlc_send_data(bytes)
    BY <1>10 DEF SendData
  <2>2. /\ pc = "data" /\ pc' = "frame" /\ loop = "connect" /\ loop' = "data"
        /\ usartTxBuffer' = usartTxBuffer /\ client.state = READY_STATE
    BY <1>10, <1>o DEF SendData, Order, txVars, SketchTypes, Prepared
  <2>3. ~(Len(bytes) > SIZE_DATA_BUFFERS)
    BY UserDataAssumption DEF EncodedPayloads, SIZE_DATA_BUFFERS
  <2>4. client' = [client EXCEPT !.state = RECIVING, !.frameI = Control_(I_FRAME),
                                 !.data_i_frame = bytes[1],
                                 !.len_data_i_frame = Len(bytes),
                                 !.current_index_frame = 0]
    BY <2>1, <2>2, <2>3 DEF hdlc_send_data
  <2>5. client'.data_i_frame = bytes[1] /\ client'.len_data_i_frame = Len(bytes)
    BY <1>o, <2>4 DEF ClientRecord
  <2>6. Before = SendSize["connect"] /\ Before' = SendSize["connect"]
    BY <2>2 DEF Before
  <2> QED
    BY <2>2, <2>5, <2>6 DEF RoomInv
<1>11. CASE Display
  BY <1>11, <1>o, RoomElsewhere DEF Display, txVars, Order
<1> QED
  BY <1>1, <1>2, <1>3, <1>4, <1>5, <1>6, <1>7, <1>8, <1>9, <1>10, <1>11 DEF Main

LEMMA SketchNextRoom ==
  ASSUME ConnectTimeout > 1, EncodedPayloads, RoomForFrames,
         MainInv, MainInv', SketchTypes, RoomInv, [SketchNext]_sketchVars
  PROVE  RoomInv'
<1>1. CASE Main
  BY <1>1, MainRoom
<1>2. CASE UNCHANGED sketchVars \/ PeerActs
  <2>1. UNCHANGED <<pc, back, loop, client, raw, usartTxBuffer, sending, copied>>
    BY <1>2 DEF sketchVars, vars, clientVars, txVars, mainVars, PeerActs, PeerSend
  <2> QED
    BY <2>1 DEF RoomInv, Before, AfterData, RoomFor
<1>3. CASE ShiftOut
  <2>1. /\ UNCHANGED <<pc, back, loop, client, raw, sending, copied>> /\ TxInv
        /\ Held(usartTxBuffer') <= Held(usartTxBuffer)
    BY <1>3, ShiftHolds
    DEF ShiftOut, vars, clientVars, mainVars, SketchTypes, USART_UDRE_vect
  <2>2. Before' = Before /\ AfterData' = AfterData
    BY <2>1 DEF Before, AfterData
  <2>3. usartTxBuffer' \in TxRing
    BY <1>3, <2>1, RingKept DEF ShiftOut, TxInv
  <2>4. /\ Held(usartTxBuffer) \in Int /\ Held(usartTxBuffer') \in Int
        /\ Before \in Int /\ Before + copied \in Int
    BY <2>1, <2>3, HeldRange, SizeAssumption, BufferSizeAssumption DEF TxInv, Before, Loop
  <2>5. /\ Held(usartTxBuffer) <= Before => Held(usartTxBuffer') <= Before
        /\ Held(usartTxBuffer) <= Before + copied => Held(usartTxBuffer') <= Before + copied
    BY <2>1, <2>4
  <2> QED
    BY <2>1, <2>2, <2>5 DEF RoomInv, RoomFor
<1> QED
  BY <1>1, <1>2, <1>3 DEF SketchNext

LEMMA InitRoom == SketchInit => RoomInv
<1> SUFFICES ASSUME SketchInit PROVE RoomInv
  OBVIOUS
<1>1. pc = "setup" /\ loop = "connect"
  BY DEF SketchInit
<1>2. Held(usartTxBuffer) = 0
  BY DEF SketchInit, TxInit, Held
<1>3. Before = 0
  BY <1>1 DEF Before
<1> QED
  BY <1>1, <1>2, <1>3 DEF RoomInv

(* UART_send puts the whole frame into the ring, whatever the handler has  *)
(* taken out of it and when: only a reject of the data loop may be cut.    *)
(* For every timeout that main cannot see expire and for arrays and a ring *)
(* with room for the frames.                                               *)
THEOREM WholeFrames ==
  ASSUME ConnectTimeout > 1, EncodedPayloads, RoomForFrames
  PROVE  SketchSpec => FramesLeaveWhole
<1>1. MainInv /\ MainInv' /\ SketchTypes /\ RoomInv /\ [SketchNext]_sketchVars => RoomInv'
  BY SketchNextRoom
<1>2. MainInv /\ SketchTypes /\ RoomInv
        => [EndSend => copied >= Len(raw) \/ (loop = "data" /\ back = "return")]_sketchVars
  BY RoomOfEnd
<1>3. MainInv /\ SketchTypes /\ [SketchNext]_sketchVars => SketchTypes'
  BY SketchNextTypes
<1> QED
  BY <1>1, <1>2, <1>3, InitRoom, InitSketchTypes, MainInvariance, PTL
  DEF SketchSpec, FramesLeaveWhole

(* Stuffing at most doubles a frame.                                       *)
LEMMA StuffedLength ==
  \A bytes \in Seq(Byte) : Len(Stuffed(bytes)) <= 2 * Len(bytes)
<1> DEFINE T == {bytes \in Seq(Byte) : Len(Stuffed(bytes)) <= 2 * Len(bytes)}
<1>1. <<>> \in T
  BY StuffedEmpty
<1>2. ASSUME NEW bytes \in Seq(Byte), NEW value \in Byte, bytes \in T
      PROVE  Append(bytes, value) \in T
  <2> DEFINE old == Stuffed(bytes)
             piece == hdlc_escape_value(value)
  <2>1. Stuffed(Append(bytes, value)) = old \o piece
    BY StuffedAppend
  <2>2. Len(piece) <= 2 /\ Len(piece) \in Nat /\ piece \in Seq(Byte)
    BY EscapeType DEF hdlc_escape_value
  <2>3. old \in Seq(Byte) /\ Len(old) <= 2 * Len(bytes)
    BY <1>2, StuffedType
  <2> HIDE DEF old, piece
  <2>4. Len(old \o piece) = Len(old) + Len(piece)
    BY <2>2, <2>3
  <2>5. Append(bytes, value) \in Seq(Byte) /\ Len(Append(bytes, value)) = Len(bytes) + 1
    BY <1>2
  <2> QED
    BY <2>1, <2>2, <2>3, <2>4, <2>5
<1> HIDE DEF T
<1>3. \A bytes \in Seq(Byte) : bytes \in T
  BY <1>1, <1>2, SeqSetInduction
<1> QED
  BY <1>3 DEF T

LEMMA FrameLength ==
  ASSUME NEW field \in Control, NEW data \in Seq(Byte), Len(data) <= 4
  PROVE  /\ Len(hdlc_frame_data(field, data)) \in 0 .. 18
         /\ data = <<>> => Len(hdlc_frame_data(field, data)) <= 10
<1> DEFINE body == FrameBody(field, data)
           trailer == FcsTrailer(FoldLeft(calc_fcs, FCS_INIT_VALUE, body))
           inner == Stuffed(body \o trailer)
           flag == <<HDLC_FLAG_SEQUENCE>>
<1>1. body \in Seq(Byte)
  BY BodyType
<1>2. trailer \in Seq(Byte) /\ Len(trailer) = 2
  BY <1>1, FcsRange, TrailerType
<1>3. Len(body) <= 2 + Len(data)
  BY DEF FrameBody
<1>4. flag \in Seq(Byte) /\ Len(flag) = 1
  BY DEF HDLC_FLAG_SEQUENCE, Byte
<1>5. hdlc_frame_data(field, data) = flag \o inner \o flag
  BY DEF hdlc_frame_data
<1> HIDE DEF body, trailer, flag
<1>6. /\ body \o trailer \in Seq(Byte)
      /\ Len(body \o trailer) = Len(body) + 2
  <2>1. body \in Seq(Byte) /\ trailer \in Seq(Byte)
    BY <1>1, <1>2
  <2>2. body \o trailer \in Seq(Byte) /\ Len(body \o trailer) = Len(body) + Len(trailer)
    BY <2>1, ConcatProperties
  <2> QED
    BY <1>2, <2>2
<1>7. inner \in Seq(Byte) /\ Len(inner) <= 2 * (Len(body) + 2)
  BY <1>6, StuffedType, StuffedLength
<1> HIDE DEF inner
<1>8. Len(flag \o inner \o flag) = Len(inner) + 2
  <2>1. flag \in Seq(Byte) /\ inner \in Seq(Byte)
    BY <1>4, <1>7
  <2>2. flag \o inner \in Seq(Byte) /\ Len(flag \o inner) = Len(flag) + Len(inner)
    BY <2>1, ConcatProperties
  <2>3. Len((flag \o inner) \o flag) = Len(flag \o inner) + Len(flag)
    BY <2>1, <2>2, ConcatProperties
  <2>4. flag \o inner \o flag = (flag \o inner) \o flag
    OBVIOUS
  <2>5. Len(inner) \in Nat
    BY <2>1
  <2> QED
    BY <1>4, <2>2, <2>3, <2>4, <2>5
<1>9. Len(inner) \in Nat /\ Len(body) \in Nat /\ Len(data) \in Nat
  BY <1>1, <1>7
<1> QED
  <2> DEFINE l == Len(inner)
             b == Len(body)
             d == Len(data)
             f == Len(hdlc_frame_data(field, data))
  <2>1. l \in Nat /\ b \in Nat /\ d \in Nat /\ d <= 4 /\ b <= 2 + d /\ l <= 2 * (b + 2)
    BY <1>3, <1>7, <1>9
  <2>2. f = l + 2 /\ (data = <<>> => d = 0)
    BY <1>5, <1>8
  <2> HIDE DEF l, b, d, f
  <2>3. f \in 0 .. 18 /\ (d = 0 => f <= 10)
    BY <2>1, <2>2
  <2> QED
    BY <2>2, <2>3 DEF f

(* The arrays of the sketch and the ring of circular_buf.h:4 have room for *)
(* the frames of any payload of up to four bytes, however they are         *)
(* stuffed.                                                                *)
LEMMA SketchHasRoom ==
  ASSUME BUFFER_SIZE = 32, SendSize = [connect |-> 10, data |-> 72], RejectSize = 20,
         EncodedPayloads
  PROVE  RoomForFrames
<1>1. <<>> \in Seq(Byte) /\ Len(<<>>) <= 4
  OBVIOUS
<1>2. /\ Control_(S_FRAME) \in Control /\ Control_(S_FRAME_NACK) \in Control
      /\ Control_(I_FRAME) \in Control
  BY DEF Control_, Control, S_FRAME, S_FRAME_NACK, I_FRAME
<1>3. ASSUME NEW bytes \in UserData
      PROVE  Carried(bytes[1], Len(bytes)) \in Seq(Byte) /\ Len(Carried(bytes[1], Len(bytes))) <= 4
  <2> DEFINE n == Len(bytes)
             first == bytes[1]
             s == <<first, 0, n % 256, n \div 256>>
  <2>1. bytes \in Seq(Byte) /\ n \in 1 .. 4
    <3>1. /\ bytes \in Seq(Byte)
          /\ Len(bytes) \in 1 .. 4 \/ Len(bytes) > SIZE_DATA_BUFFERS
          /\ Len(bytes) <= SIZE_DATA_BUFFERS
      BY UserDataAssumption DEF EncodedPayloads
    <3> QED
      BY <3>1 DEF SIZE_DATA_BUFFERS
  <2>2. first \in Byte
    BY <2>1, ElementOfSeq
  <2> HIDE DEF first, n
  <2>3. n % 256 = n /\ n \div 256 = 0
    BY <2>1
  <2>4. s = <<first, 0, n, 0>> /\ 0 \in Byte /\ n \in Byte
    BY <2>1, <2>3 DEF Byte
  <2> HIDE DEF s
  <2>5. \A k \in 1 .. n : s[k] \in Byte
    BY <2>1, <2>2, <2>4
  <2>6. n \in Nat /\ 1 \in Int /\ 1 <= n /\ n - 1 + 1 = n
    BY <2>1
  <2>7. SubSeq(s, 1, n) \in Seq(Byte) /\ Len(SubSeq(s, 1, n)) = n
    BY <2>5, <2>6, SubSeqProperties
  <2>8. Carried(bytes[1], Len(bytes)) = SubSeq(s, 1, n)
    BY DEF Carried, n, s, first
  <2>9. n <= 4
    BY <2>1
  <2> QED
    BY <2>7, <2>8, <2>9
<1>4. ASSUME NEW bytes \in UserData
      PROVE  Len(hdlc_frame_data(Control_(I_FRAME), Carried(bytes[1], Len(bytes)))) \in 0 .. 18
  BY <1>2, <1>3, FrameLength
<1>5. /\ Len(hdlc_frame_data(Control_(S_FRAME), <<>>)) \in 0 .. 10
      /\ Len(hdlc_frame_data(Control_(S_FRAME_NACK), <<>>)) \in 0 .. 10
  <2> SUFFICES ASSUME NEW field \in Control
               PROVE  Len(hdlc_frame_data(field, <<>>)) \in 0 .. 10
    BY <1>2
  <2> DEFINE none == <<>>
             length == Len(hdlc_frame_data(field, none))
  <2>1. none \in Seq(Byte) /\ Len(none) <= 4 /\ none = <<>>
    BY <1>1
  <2> HIDE DEF none
  <2>2. length \in 0 .. 18 /\ length <= 10
    BY <2>1, FrameLength
  <2> HIDE DEF length
  <2>3. length \in 0 .. 10
    BY <2>2
  <2> QED
    BY <2>3 DEF length, none
<1>6. ASSUME NEW length \in 0 .. 18, NEW frame, Len(frame) = length
      PROVE  /\ RoomFor(frame, 72, 10)
             /\ length <= 10 => RoomFor(frame, 10, 0) /\ RoomFor(frame, 20, 10)
  <2>1. length <= 72 /\ 10 + length <= 31 /\ (length <= 10 => length <= 20 /\ 0 + length <= 31)
    BY <1>6
  <2> QED
    BY <1>6, <2>1 DEF RoomFor
<1>7. /\ SendSize["connect"] = 10 /\ SendSize["data"] = 72
  OBVIOUS
<1> QED
  BY <1>4, <1>5, <1>6, <1>7 DEF RoomForFrames

=============================================================================
