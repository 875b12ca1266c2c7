------------------------------ MODULE HdlcLink ------------------------------
(***************************************************************************)
(* A station that frames messages with hdlc_frame_data, a serial line that *)
(* may damage a byte, and a receiver that feeds the decoder with chunks of *)
(* any size and keeps, as hdlc.h asks, what the decoder tells it not to    *)
(* discard.                                                                *)
(***************************************************************************)
EXTENDS HdlcParser, FiniteSets

CONSTANTS
  Message,     \* [control : Control, data : Seq(Byte)]: what may be sent
  MaxFrames,   \* bound: frames sent
  MaxFill,     \* bound: idle flags sent before a frame
  MaxHurt,     \* bound: frames damaged on the line
  NoiseByte,   \* bytes a disturbance may put on the line
  Lead,        \* byte sequences that may be on the line before the first frame
  ChunkSize    \* how many new bytes a call of the decoder may be given

(* Only an I-frame has data: hdlc_frame_data leaves out that of another.   *)
ASSUME MessageAssumption ==
  /\ Message \subseteq [control : Control, data : Seq(Byte)]
  /\ \A m \in Message : m.control.frame # I_FRAME => m.data = <<>>
ASSUME LineAssumption == NoiseByte \subseteq Byte /\ Lead \subseteq Seq(Byte)
ASSUME SizeAssumption ==
  MaxFrames \in Nat /\ MaxFill \in Nat /\ MaxHurt \in Nat /\ ChunkSize \subseteq Nat

VARIABLES
  sent,  \* history: every message sent
  hurt,  \* history: the positions in sent whose frame was damaged
  line,  \* bytes on their way
  rest,  \* bytes the receiver has kept from the last chunk
  got    \* history: every message the decoder returned

vars == <<parserVars, sent, hurt, line, rest, got>>
linkVars == <<sent, hurt, line, rest, got>>

Init ==
  /\ ParserInit
  /\ sent = <<>>
  /\ hurt = {}
  /\ line \in Lead
  /\ rest = <<>>
  /\ got = <<>>

----------------------------------------------------------------------------
(* The frame of m with one byte lost, changed or inserted.                 *)
Damaged(frame) ==
  LET n == Len(frame)
  IN  {RemoveAt(frame, k) : k \in 1 .. n}
        \cup {ReplaceAt(frame, k, b) : k \in 1 .. n, b \in NoiseByte}
        \cup {InsertAt(frame, k, b) : k \in 1 .. n + 1, b \in NoiseByte}

Fill(n) == [k \in 1 .. n |-> HDLC_FLAG_SEQUENCE]

Send(m) ==
  /\ Len(sent) < MaxFrames
  /\ sent' = Append(sent, m)
  /\ LET frame == hdlc_frame_data(m.control, m.data)
     IN  \/ /\ \E n \in 0 .. MaxFill : line' = line \o Fill(n) \o frame
            /\ UNCHANGED hurt
         \/ /\ Cardinality(hurt) < MaxHurt
            /\ hurt' = hurt \cup {Len(sent')}
            /\ \E bytes \in Damaged(frame) \ {frame} : line' = line \o bytes
  /\ UNCHANGED <<parserVars, rest, got>>

(* The receiver passes what it kept and some new bytes.                    *)
Receive(n) ==
  /\ rest # <<>> \/ n > 0
  /\ n <= Len(line)
  /\ GetData(rest \o SubSeq(line, 1, n), control, dest)
  /\ line' = SubSeq(line, n + 1, Len(line))
  /\ rest' = <<>>
  /\ UNCHANGED <<sent, hurt, got>>

(* No message: the whole chunk has been used.                              *)
NoMessage == ReturnNoMessage /\ UNCHANGED linkVars

(* Bytes up to the closing flag are discarded, the flag is kept.           *)
Keep == rest' = SubSeq(src, i + 1, Len(src))

BadFrame == ReturnBadFrame /\ Keep /\ UNCHANGED <<sent, hurt, line, got>>

Decoded ==
  [control |-> control, data |-> [k \in 1 .. DataLength |-> dest[k - 1]]]

Frame ==
  /\ ReturnFrame
  /\ Keep
  /\ got' = Append(got, Decoded)
  /\ UNCHANGED <<sent, hurt, line>>

Next ==
  \/ \E m \in Message : Send(m)
  \/ \E n \in ChunkSize \cup {Len(line)} : Receive(n)
  \/ Scan /\ UNCHANGED linkVars
  \/ NoMessage
  \/ BadFrame
  \/ Frame

Spec == Init /\ [][Next]_vars

----------------------------------------------------------------------------
(* Every variable holds a value its C type can hold.                       *)
TypeOK ==
  /\ ParserTypeOK
  /\ line \in Seq(Byte) /\ rest \in Seq(Byte)

(* Once the line has been read to its end, every frame that was not itself *)
(* damaged has been delivered, however the bytes were cut into chunks.     *)
Quiet == line = <<>> /\ rest = <<>> /\ phase = "idle"
Channel == INSTANCE FrameChannel
Undamaged ==
  LET good == [k \in DOMAIN sent |-> IF k \in hurt THEN <<>> ELSE <<sent[k]>>]
  IN  FlattenSeq(good)
UndamagedFramesArrive == Quiet => Channel!Subsequence(Undamaged, got)

(* Damage is detected: what is delivered was sent, in order, once.         *)
ImplementsChannel == Channel!Spec
=============================================================================
