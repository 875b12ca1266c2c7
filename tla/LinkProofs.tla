----------------------------- MODULE LinkProofs -----------------------------
(***************************************************************************)
(* What holds of the link for every message, every damage, every chunk the *)
(* receiver may take and every size of an int: the types, and that a frame *)
(* that comes undamaged is delivered.                                      *)
(***************************************************************************)
EXTENDS HdlcLink, HdlcLemmas

----------------------------------------------------------------------------
(* A frame and what it is made of.                                         *)
Flag == <<HDLC_FLAG_SEQUENCE>>
FrameOf(m) == hdlc_frame_data(m.control, m.data)
Plain(m) ==
  LET body == FrameBody(m.control, m.data)
  IN  body \o FcsTrailer(FoldLeft(calc_fcs, FCS_INIT_VALUE, body))

LEMMA FlagType == Flag \in Seq(Byte) /\ Len(Flag) = 1 /\ Flag[1] = HDLC_FLAG_SEQUENCE
<1>1. HDLC_FLAG_SEQUENCE \in Byte
  BY DEF HDLC_FLAG_SEQUENCE, Byte
<1> QED
  BY <1>1 DEF Flag

LEMMA PlainOfMessage ==
  ASSUME NEW m \in Message
  PROVE  /\ Plain(m) \in Seq(Byte) /\ Len(Plain(m)) = Len(m.data) + 4
         /\ Plain(m)[1] = HDLC_ALL_STATION_ADDR
         /\ Plain(m)[2] = hdlc_frame_control_type(m.control)
         /\ \A k \in 1 .. Len(m.data) : Plain(m)[k + 2] = m.data[k]
<1> DEFINE head == <<HDLC_ALL_STATION_ADDR, hdlc_frame_control_type(m.control)>>
           body == FrameBody(m.control, m.data)
           trailer == FcsTrailer(FoldLeft(calc_fcs, FCS_INIT_VALUE, body))
           a == HDLC_ALL_STATION_ADDR
           c == hdlc_frame_control_type(m.control)
           data == m.data
<1>1. /\ m.control \in Control /\ data \in Seq(Byte)
      /\ m.control.frame # I_FRAME => data = <<>>
  BY MessageAssumption
<1>2. a \in Byte /\ c \in Byte
  <2>1. a \in Byte
    BY DEF HDLC_ALL_STATION_ADDR, Byte
  <2> QED
    BY <1>1, <2>1, ControlByte
<1>3. body \in Seq(Byte) /\ trailer \in Seq(Byte) /\ Len(trailer) = 2
  <2>1. body \in Seq(Byte)
    BY <1>1, BodyType
  <2> QED
    BY <2>1, FcsRange, TrailerType
<1>4. head \in Seq(Byte) /\ Len(head) = 2 /\ head[1] = a /\ head[2] = c
  <2> HIDE DEF a, c
  <2>1. <<a, c>> \in Seq(Byte) /\ Len(<<a, c>>) = 2
    BY <1>2
  <2>2. head = <<a, c>>
    BY DEF a, c
  <2> QED
    BY <2>1, <2>2
<1> HIDE DEF a, c, data, trailer
<1>5. body = head \o data
  <2> HIDE DEF head
  <2>1. CASE m.control.frame = I_FRAME
    BY <2>1 DEF FrameBody, head, data
  <2>2. CASE m.control.frame # I_FRAME
    <3>1. data = <<>> /\ head \o <<>> = head
      BY <1>1, <1>4, <2>2, ConcatEmptySeq
    <3>2. body = head
      BY <2>2 DEF FrameBody, head
    <3> QED
      BY <3>1, <3>2
  <2> QED
    BY <2>1, <2>2
<1> HIDE DEF head, body
<1>6. /\ Len(body) = Len(head) + Len(data)
      /\ \A k \in 1 .. Len(head) + Len(data) :
           body[k] = IF k <= Len(head) THEN head[k] ELSE data[k - Len(head)]
  BY <1>1, <1>4, <1>5, ConcatProperties
<1>7. /\ body \o trailer \in Seq(Byte) /\ Len(body \o trailer) = Len(body) + Len(trailer)
      /\ \A k \in 1 .. Len(body) + Len(trailer) :
           (body \o trailer)[k] = IF k <= Len(body) THEN body[k] ELSE trailer[k - Len(body)]
  BY <1>3, ConcatProperties
<1> DEFINE bytes == body \o trailer
<1>8. Plain(m) = bytes
  BY DEF Plain, body, trailer
<1>9. Len(data) \in Nat
  BY <1>1
<1> HIDE DEF bytes
<1>10. Len(bytes) = Len(data) + 4
  BY <1>3, <1>4, <1>6, <1>7, <1>9 DEF bytes
<1>11. bytes[1] = a /\ bytes[2] = c
  BY <1>3, <1>4, <1>6, <1>7, <1>9 DEF bytes
<1>12. \A k \in 1 .. Len(data) : bytes[k + 2] = data[k]
  BY <1>3, <1>4, <1>6, <1>7, <1>9 DEF bytes
<1> QED
  BY <1>7, <1>8, <1>10, <1>11, <1>12 DEF bytes, a, c, data

LEMMA FcsOfPlain ==
  ASSUME NEW m \in Message
  PROVE  FoldLeft(calc_fcs, FCS_INIT_VALUE, Plain(m)) = FCS_GOOD_VALUE
<1> DEFINE body == FrameBody(m.control, m.data)
           n == FoldLeft(calc_fcs, FCS_INIT_VALUE, body)
           low == (FCS_INVERT_MASK - n) % 256
           high == (FCS_INVERT_MASK - n) \div 256
<1>1. m.control \in Control /\ m.data \in Seq(Byte)
  BY MessageAssumption
<1>2. body \in Seq(Byte)
  BY <1>1, BodyType
<1>3. n \in FcsValue
  BY <1>2, FcsRange
<1>4. FcsTrailer(n) = <<low, high>>
  BY DEF FcsTrailer
<1> HIDE DEF body
<1>5. low \in Byte /\ high \in Byte
  <2>1. n \in Int /\ 0 <= n /\ n <= FCS_INVERT_MASK
    BY <1>3, FcsBounds
  <2>2. FCS_INVERT_MASK - n \in FcsValue
    <3> HIDE DEF n
    <3>1. FCS_INVERT_MASK - n \in Int /\ 0 <= FCS_INVERT_MASK - n
            /\ FCS_INVERT_MASK - n <= FCS_INVERT_MASK
      BY <2>1 DEF FCS_INVERT_MASK
    <3> QED
      BY <3>1, FcsBounds
  <2> QED
    BY <2>2, SplitFcs
<1>6. Plain(m) = body \o FcsTrailer(n)
  BY DEF Plain, body
<1> HIDE DEF n, low, high
<1>7. FoldLeft(calc_fcs, n, <<low, high>>) = FCS_GOOD_VALUE
  BY <1>3, <1>4, Residue
<1>8. FoldLeft(calc_fcs, n, <<low, high>>) = calc_fcs(calc_fcs(n, low), high)
  BY <1>5, TwoBytes
<1>9. body \o <<low, high>> = Append(Append(body, low), high)
  <2> DEFINE one == <<low>>
             other == <<high>>
  <2>1. one \in Seq(Byte) /\ other \in Seq(Byte)
    BY <1>5
  <2>2. <<low, high>> = Append(one, high)
    BY <1>5, PairAppend
  <2>3. Append(one, high) = one \o other
    BY <1>5, <2>1, AppendIsConcat
  <2>4. Append(body, low) = body \o one
    BY <1>2, <1>5, AppendIsConcat
  <2>5. body \o one \in Seq(Byte)
    BY <1>2, <2>1
  <2>6. Append(body \o one, high) = (body \o one) \o other
    BY <1>5, <2>5, AppendIsConcat
  <2> HIDE DEF one, other
  <2>7. (body \o one) \o other = body \o (one \o other)
    BY <1>2, <2>1, ConcatAssociative
  <2> QED
    BY <2>2, <2>3, <2>4, <2>6, <2>7
<1>10. Append(body, low) \in Seq(Byte)
  BY <1>2, <1>5
<1>11. FoldLeft(calc_fcs, FCS_INIT_VALUE, Append(Append(body, low), high))
         = calc_fcs(calc_fcs(n, low), high)
  <2>1. FoldLeft(calc_fcs, FCS_INIT_VALUE, Append(body, low)) = calc_fcs(n, low)
    BY <1>2, <1>5, FcsOfAppend DEF n
  <2>2. FoldLeft(calc_fcs, FCS_INIT_VALUE, Append(Append(body, low), high))
          = calc_fcs(FoldLeft(calc_fcs, FCS_INIT_VALUE, Append(body, low)), high)
    BY <1>5, <1>10, FcsOfAppend
  <2> QED
    BY <2>1, <2>2
<1> QED
  BY <1>4, <1>6, <1>7, <1>8, <1>9, <1>11

LEMMA FrameParts ==
  ASSUME NEW m \in Message
  PROVE  /\ FrameOf(m) = Flag \o Stuffed(Plain(m)) \o Flag
         /\ Stuffed(Plain(m)) \in Seq(Byte) /\ FrameOf(m) \in Seq(Byte)
<1>1. FrameOf(m) = Flag \o Stuffed(Plain(m)) \o Flag
  BY DEF FrameOf, Plain, Flag, hdlc_frame_data
<1>2. Plain(m) \in Seq(Byte)
  BY PlainOfMessage
<1>3. Stuffed(Plain(m)) \in Seq(Byte)
  BY <1>2, StuffedType
<1> QED
  BY <1>1, <1>3, FlagType

----------------------------------------------------------------------------
(* What is left on the line of a frame of which the decoder has taken j    *)
(* bytes, and an escape byte when escaped: all up to the closing flag.     *)
Remaining(bytes, j) == Stuffed(SubSeq(bytes, j + 1, Len(bytes)))
Left(bytes, j, escaped) ==
  IF escaped THEN <<Flip20(bytes[j + 1])>> \o Remaining(bytes, j + 1) ELSE Remaining(bytes, j)

LEMMA StuffedOne ==
  ASSUME NEW v \in Byte
  PROVE  Stuffed(<<v>>) = hdlc_escape_value(v)
<1> DEFINE one == <<v>>
           piece == hdlc_escape_value(v)
<1>1. one = Append(<<>>, v) /\ <<>> \in Seq(Byte)
  OBVIOUS
<1>2. piece \in Seq(Byte)
  BY EscapeType
<1> HIDE DEF one, piece
<1>3. Stuffed(Append(<<>>, v)) = Stuffed(<<>>) \o piece
  BY <1>1, StuffedAppend DEF piece
<1>4. <<>> \o piece = piece
  BY <1>2, ConcatEmptySeq
<1>5. Stuffed(one) = piece
  BY <1>1, <1>3, <1>4, StuffedEmpty
<1> QED
  BY <1>5 DEF one, piece

LEMMA RemainingSteps ==
  ASSUME NEW bytes \in Seq(Byte)
  PROVE  /\ Remaining(bytes, 0) = Stuffed(bytes)
         /\ Remaining(bytes, Len(bytes)) = <<>>
         /\ \A j \in 0 .. Len(bytes) : Remaining(bytes, j) \in Seq(Byte)
         /\ \A j \in 0 .. Len(bytes) - 1 :
              Remaining(bytes, j)
                = hdlc_escape_value(bytes[j + 1]) \o Remaining(bytes, j + 1)
<1>1. Remaining(bytes, 0) = Stuffed(bytes)
  <2>1. SubSeq(bytes, 0 + 1, Len(bytes)) = bytes
    OBVIOUS
  <2> QED
    BY <2>1 DEF Remaining
<1>2. Remaining(bytes, Len(bytes)) = <<>>
  <2>1. SubSeq(bytes, Len(bytes) + 1, Len(bytes)) = <<>>
    OBVIOUS
  <2> QED
    BY <2>1, StuffedEmpty DEF Remaining
<1>3. ASSUME NEW j \in 0 .. Len(bytes)
      PROVE  SubSeq(bytes, j + 1, Len(bytes)) \in Seq(Byte)
  OBVIOUS
<1>4. \A j \in 0 .. Len(bytes) : Remaining(bytes, j) \in Seq(Byte)
  BY <1>3, StuffedType DEF Remaining
<1>5. ASSUME NEW j \in 0 .. Len(bytes) - 1
      PROVE  Remaining(bytes, j)
               = hdlc_escape_value(bytes[j + 1]) \o Remaining(bytes, j + 1)
  <2> DEFINE v == bytes[j + 1]
             one == <<v>>
             after == SubSeq(bytes, (j + 1) + 1, Len(bytes))
  <2>1. v \in Byte
    OBVIOUS
  <2>2. SubSeq(bytes, j + 1, Len(bytes)) = one \o after
    OBVIOUS
  <2>3. one \in Seq(Byte) /\ after \in Seq(Byte)
    BY <1>3
  <2> HIDE DEF v, one, after
  <2>4. Stuffed(one \o after) = Stuffed(one) \o Stuffed(after)
    BY <2>3, StuffedConcat
  <2>5. Stuffed(one) = hdlc_escape_value(v)
    BY <2>1, StuffedOne DEF one
  <2> QED
    BY <2>2, <2>4, <2>5 DEF Remaining, v, after
<1> QED
  BY <1>1, <1>2, <1>4, <1>5

(* The next byte of a frame: one that needs no stuffing, or an escape      *)
(* byte and then the byte changed, neither of them a flag.                 *)
LEMMA NextOfFrame ==
  ASSUME NEW bytes \in Seq(Byte), NEW j \in 0 .. Len(bytes) - 1
  PROVE  LET v == bytes[j + 1]
             special == v \in {HDLC_FLAG_SEQUENCE, HDLC_CONTROL_ESCAPE}
         IN  /\ v \in Byte
             /\ ~special => Left(bytes, j, FALSE) = <<v>> \o Left(bytes, j + 1, FALSE)
             /\ special => Left(bytes, j, FALSE) = <<HDLC_CONTROL_ESCAPE>> \o Left(bytes, j, TRUE)
             /\ Left(bytes, j, TRUE) = <<Flip20(v)>> \o Left(bytes, j + 1, FALSE)
             /\ special => /\ Flip20(v) \notin {HDLC_FLAG_SEQUENCE, HDLC_CONTROL_ESCAPE}
                           /\ Flip20(Flip20(v)) = v
<1> DEFINE v == bytes[j + 1]
           next == Remaining(bytes, j + 1)
<1>1. v \in Byte /\ j \in 0 .. Len(bytes) /\ j + 1 \in 0 .. Len(bytes)
  OBVIOUS
<1>2. next \in Seq(Byte)
  BY <1>1, RemainingSteps
<1>3. Remaining(bytes, j) = hdlc_escape_value(v) \o next
  BY RemainingSteps
<1> HIDE DEF v, next
<1>4. CASE v \notin {HDLC_FLAG_SEQUENCE, HDLC_CONTROL_ESCAPE}
  <2>1. hdlc_escape_value(v) = <<v>>
    BY <1>4 DEF hdlc_escape_value
  <2> QED
    BY <1>1, <1>3, <1>4, <2>1 DEF Left, v, next
<1>5. CASE v \in {HDLC_FLAG_SEQUENCE, HDLC_CONTROL_ESCAPE}
  <2> DEFINE e == HDLC_CONTROL_ESCAPE
             f == Flip20(v)
             one == <<e>>
             other == <<f>>
  <2>1. /\ e \in Byte /\ f \in Byte /\ f \notin {HDLC_FLAG_SEQUENCE, HDLC_CONTROL_ESCAPE}
        /\ Flip20(f) = v
    BY <1>5 DEF HDLC_FLAG_SEQUENCE, HDLC_CONTROL_ESCAPE, Flip20, Byte
  <2>2. hdlc_escape_value(v) = <<e, f>>
    BY <1>5 DEF hdlc_escape_value
  <2> HIDE DEF e, f
  <2>3. one \in Seq(Byte) /\ other \in Seq(Byte)
    BY <2>1
  <2>4. <<e, f>> = one \o other
    BY <2>1, <2>3, PairAppend, AppendIsConcat
  <2> HIDE DEF one, other
  <2>5. (one \o other) \o next = one \o (other \o next)
    BY <1>2, <2>3, ConcatAssociative
  <2> QED
    BY <1>1, <1>3, <1>5, <2>1, <2>2, <2>4, <2>5 DEF Left, v, next, e, f, one, other
<1> QED
  BY <1>4, <1>5

----------------------------------------------------------------------------
(* The frames of the messages todo stand in s in this order, where one may *)
(* open with the flag that closed the one before.                          *)
StandsAt(s, p, frame) ==
  /\ p >= 1
  /\ p + Len(frame) - 1 <= Len(s)
  /\ \A k \in 1 .. Len(frame) : s[p + k - 1] = frame[k]

Places(s, todo, at) ==
  /\ \A k \in 1 .. Len(todo) : StandsAt(s, at[k], FrameOf(todo[k]))
  /\ \A j, k \in 1 .. Len(todo) :
       j < k => at[j] + Len(FrameOf(todo[j])) - 1 <= at[k]

InOrder(s, todo) == \E at \in [1 .. Len(todo) -> Nat] : Places(s, todo, at)

LEMMA FrameEnds ==
  ASSUME NEW m \in Message
  PROVE  /\ FrameOf(m) \in Seq(Byte) /\ Len(FrameOf(m)) \in Nat /\ Len(FrameOf(m)) >= 6
         /\ FrameOf(m)[1] = HDLC_FLAG_SEQUENCE
         /\ FrameOf(m)[2] = HDLC_ALL_STATION_ADDR
<1>1. m.control \in Control /\ m.data \in Seq(Byte)
  BY MessageAssumption
<1> QED
  BY <1>1, FrameShape DEF FrameOf

LEMMA NothingInOrder ==
  /\ \A s \in Seq(Byte) : InOrder(s, <<>>)
  /\ \A todo \in Seq(Message) : InOrder(<<>>, todo) => todo = <<>>
<1>1. ASSUME NEW s \in Seq(Byte) PROVE InOrder(s, <<>>)
  <2> DEFINE at == [k \in 1 .. Len(<<>>) |-> 0]
  <2>1. at \in [1 .. Len(<<>>) -> Nat] /\ 1 .. Len(<<>>) = {}
    OBVIOUS
  <2>2. Places(s, <<>>, at)
    BY <2>1 DEF Places
  <2> QED
    BY <2>1, <2>2 DEF InOrder
<1>2. ASSUME NEW todo \in Seq(Message), InOrder(<<>>, todo), todo # <<>> PROVE FALSE
  <2>1. 1 \in 1 .. Len(todo) /\ todo[1] \in Message
    BY <1>2
  <2>2. PICK at \in [1 .. Len(todo) -> Nat] : Places(<<>>, todo, at)
    BY <1>2 DEF InOrder
  <2> DEFINE frame == FrameOf(todo[1])
             p == at[1]
  <2>3. StandsAt(<<>>, p, frame) /\ p \in Nat
    BY <2>1, <2>2 DEF Places
  <2>4. Len(frame) \in Nat /\ Len(frame) >= 6
    BY <2>1, FrameEnds
  <2> HIDE DEF frame, p
  <2>5. p >= 1 /\ p + Len(frame) - 1 <= 0
    BY <2>3 DEF StandsAt
  <2> QED
    BY <2>3, <2>4, <2>5
<1> QED
  BY <1>1, <1>2

(* More bytes on the line change nothing of what stands on it.             *)
LEMMA StandsLonger ==
  ASSUME NEW s \in Seq(Byte), NEW t \in Seq(Byte), NEW p \in Nat, NEW frame \in Seq(Byte),
         StandsAt(s, p, frame)
  PROVE  StandsAt(s \o t, p, frame)
<1> DEFINE both == s \o t
<1>1. /\ Len(both) = Len(s) + Len(t)
      /\ \A k \in 1 .. Len(s) + Len(t) : both[k] = IF k <= Len(s) THEN s[k] ELSE t[k - Len(s)]
  BY ConcatProperties
<1>2. Len(s) \in Nat /\ Len(t) \in Nat /\ Len(frame) \in Nat
  OBVIOUS
<1> HIDE DEF both
<1>3. p >= 1 /\ p + Len(frame) - 1 <= Len(s) /\ \A k \in 1 .. Len(frame) : s[p + k - 1] = frame[k]
  BY DEF StandsAt
<1>4. ASSUME NEW k \in 1 .. Len(frame) PROVE both[p + k - 1] = frame[k]
  <2>1. p + k - 1 \in 1 .. Len(s) + Len(t) /\ p + k - 1 <= Len(s)
    BY <1>2, <1>3
  <2>2. both[p + k - 1] = s[p + k - 1]
    BY <1>1, <2>1
  <2> QED
    BY <1>3, <2>2
<1>5. p + Len(frame) - 1 <= Len(both)
  BY <1>1, <1>2, <1>3
<1>6. StandsAt(both, p, frame)
  BY <1>3, <1>4, <1>5 DEF StandsAt
<1> QED
  BY <1>6 DEF both

LEMMA InOrderLonger ==
  ASSUME NEW s \in Seq(Byte), NEW t \in Seq(Byte), NEW todo \in Seq(Message),
         InOrder(s, todo)
  PROVE  InOrder(s \o t, todo)
<1>1. PICK at \in [1 .. Len(todo) -> Nat] : Places(s, todo, at)
  BY DEF InOrder
<1>2. ASSUME NEW k \in 1 .. Len(todo) PROVE StandsAt(s \o t, at[k], FrameOf(todo[k]))
  <2>1. StandsAt(s, at[k], FrameOf(todo[k])) /\ at[k] \in Nat /\ todo[k] \in Message
    BY <1>1 DEF Places
  <2> QED
    BY <2>1, StandsLonger, FrameEnds
<1>3. Places(s \o t, todo, at)
  BY <1>1, <1>2 DEF Places
<1> QED
  BY <1>3 DEF InOrder

(* A frame sent stands behind all that was on the line.                    *)
LEMMA InOrderSent ==
  ASSUME NEW s \in Seq(Byte), NEW todo \in Seq(Message), NEW m \in Message, InOrder(s, todo)
  PROVE  InOrder(s \o FrameOf(m), Append(todo, m))
<1> DEFINE frame == FrameOf(m)
           both == s \o frame
           more == Append(todo, m)
           n == Len(todo)
<1>1. PICK at \in [1 .. n -> Nat] : Places(s, todo, at)
  BY DEF InOrder
<1>2. frame \in Seq(Byte) /\ Len(frame) \in Nat /\ n \in Nat /\ Len(s) \in Nat
  BY FrameEnds
<1>3. /\ both \in Seq(Byte) /\ Len(both) = Len(s) + Len(frame)
      /\ \A k \in 1 .. Len(s) + Len(frame) :
           both[k] = IF k <= Len(s) THEN s[k] ELSE frame[k - Len(s)]
  BY <1>2, ConcatProperties
<1>4. /\ more \in Seq(Message) /\ Len(more) = n + 1 /\ more[n + 1] = m
      /\ \A k \in 1 .. n : more[k] = todo[k] /\ todo[k] \in Message
  BY AppendProperties
<1> DEFINE new == [k \in 1 .. Len(more) |-> IF k = n + 1 THEN Len(s) + 1 ELSE at[k]]
<1>5. /\ new \in [1 .. Len(more) -> Nat] /\ new[n + 1] = Len(s) + 1
      /\ \A k \in 1 .. n : new[k] = at[k] /\ at[k] \in Nat
  <2> HIDE DEF more, n, frame
  <2>1. n + 1 \in 1 .. Len(more) /\ Len(s) + 1 \in Nat
    BY <1>2, <1>4
  <2>2. ASSUME NEW k \in 1 .. n PROVE k \in 1 .. Len(more) /\ k # n + 1 /\ at[k] \in Nat
    BY <1>1, <1>2, <1>4
  <2>3. \A k \in 1 .. Len(more) : k # n + 1 => k \in 1 .. n
    BY <1>2, <1>4
  <2> QED
    BY <2>1, <2>2, <2>3
<1> HIDE DEF frame, both, more, new, n
<1>6. ASSUME NEW k \in 1 .. n PROVE StandsAt(both, new[k], FrameOf(more[k]))
  <2>1. StandsAt(s, at[k], FrameOf(todo[k])) /\ todo[k] \in Message /\ at[k] \in Nat
    BY <1>1, <1>4, <1>5 DEF Places, n
  <2>2. StandsAt(both, at[k], FrameOf(todo[k]))
    BY <1>2, <2>1, StandsLonger, FrameEnds DEF both
  <2> QED
    BY <1>4, <1>5, <2>2
<1>7. StandsAt(both, new[n + 1], FrameOf(more[n + 1]))
  <2>1. ASSUME NEW k \in 1 .. Len(frame) PROVE both[Len(s) + 1 + k - 1] = frame[k]
    <3> DEFINE q == Len(s) + 1 + k - 1
    <3>1. q \in 1 .. Len(s) + Len(frame) /\ ~(q <= Len(s)) /\ q - Len(s) = k
      BY <1>2
    <3> HIDE DEF q
    <3>2. both[q] = frame[k]
      BY <1>3, <3>1
    <3> QED
      BY <3>2 DEF q
  <2>2. Len(s) + 1 >= 1 /\ Len(s) + 1 + Len(frame) - 1 <= Len(both)
    BY <1>2, <1>3
  <2>3. StandsAt(both, Len(s) + 1, frame)
    BY <2>1, <2>2 DEF StandsAt
  <2> QED
    BY <1>4, <1>5, <2>3 DEF frame
<1>8. ASSUME NEW j \in 1 .. n + 1, NEW k \in 1 .. n + 1, j < k
      PROVE  new[j] + Len(FrameOf(more[j])) - 1 <= new[k]
  <2>1. j \in 1 .. n /\ n \in Nat
    BY <1>2, <1>8
  <2>2. CASE k = n + 1
    <3>1. StandsAt(s, at[j], FrameOf(todo[j]))
      BY <1>1, <2>1 DEF Places, n
    <3>2. at[j] + Len(FrameOf(todo[j])) - 1 <= Len(s)
      BY <3>1 DEF StandsAt
    <3>3. Len(FrameOf(todo[j])) \in Nat /\ at[j] \in Nat
      BY <1>4, <1>5, <2>1, FrameEnds
    <3> QED
      BY <1>2, <1>4, <1>5, <2>1, <2>2, <3>2, <3>3
  <2>3. CASE k # n + 1
    <3>1. k \in 1 .. n
      BY <1>2, <2>3
    <3>2. at[j] + Len(FrameOf(todo[j])) - 1 <= at[k]
      BY <1>1, <1>8, <2>1, <3>1 DEF Places, n
    <3> QED
      BY <1>4, <1>5, <2>1, <3>1, <3>2
  <2> QED
    BY <2>2, <2>3
<1>9. Places(both, more, new)
  <2>1. \A k \in 1 .. Len(more) : k \in 1 .. n \/ k = n + 1
    BY <1>2, <1>4
  <2> QED
    BY <1>4, <1>6, <1>7, <1>8, <2>1 DEF Places
<1>10. InOrder(both, more)
  BY <1>5, <1>9 DEF InOrder
<1> QED
  BY <1>10 DEF both, more, frame

(* Bytes that are read and belong to no frame to come can be forgotten.    *)
LEMMA StandsAfter ==
  ASSUME NEW head \in Seq(Byte), NEW t \in Seq(Byte), NEW p \in Nat, NEW frame \in Seq(Byte),
         p > Len(head), StandsAt(head \o t, p, frame)
  PROVE  StandsAt(t, p - Len(head), frame)
<1> DEFINE both == head \o t
           q == p - Len(head)
<1>1. /\ Len(both) = Len(head) + Len(t)
      /\ \A k \in 1 .. Len(head) + Len(t) :
           both[k] = IF k <= Len(head) THEN head[k] ELSE t[k - Len(head)]
  BY ConcatProperties
<1>2. Len(head) \in Nat /\ Len(t) \in Nat /\ Len(frame) \in Nat
  OBVIOUS
<1>3. /\ p + Len(frame) - 1 <= Len(both)
      /\ \A k \in 1 .. Len(frame) : both[p + k - 1] = frame[k]
  BY DEF StandsAt
<1> HIDE DEF both
<1>4. q \in Nat /\ q >= 1 /\ q + Len(frame) - 1 <= Len(t)
  BY <1>1, <1>2, <1>3
<1>5. ASSUME NEW k \in 1 .. Len(frame) PROVE t[q + k - 1] = frame[k]
  <2> DEFINE at == p + k - 1
  <2>1. /\ at \in 1 .. Len(head) + Len(t) /\ ~(at <= Len(head))
        /\ at - Len(head) = q + k - 1
    BY <1>1, <1>2, <1>3
  <2>2. both[at] = frame[k]
    BY <1>3
  <2> HIDE DEF at, q
  <2> QED
    BY <1>1, <2>1, <2>2
<1> HIDE DEF q
<1>6. StandsAt(t, q, frame)
  BY <1>4, <1>5 DEF StandsAt
<1> QED
  BY <1>6 DEF q

LEMMA InOrderAfter ==
  ASSUME NEW head \in Seq(Byte), NEW t \in Seq(Byte), NEW todo \in Seq(Message),
         NEW at \in [1 .. Len(todo) -> Nat], Places(head \o t, todo, at),
         \A k \in 1 .. Len(todo) : at[k] > Len(head)
  PROVE  InOrder(t, todo)
<1> DEFINE h == Len(head)
           n == Len(todo)
           new == [k \in 1 .. n |-> at[k] - h]
<1>1. h \in Nat /\ n \in Nat
  OBVIOUS
<1>2. \A k \in 1 .. n : at[k] \in Nat /\ at[k] > h /\ todo[k] \in Message
  OBVIOUS
<1> HIDE DEF h
<1>3. new \in [1 .. n -> Nat] /\ \A k \in 1 .. n : new[k] = at[k] - h
  BY <1>1, <1>2
<1> HIDE DEF new, n
<1>4. ASSUME NEW k \in 1 .. n PROVE StandsAt(t, new[k], FrameOf(todo[k]))
  <2>1. StandsAt(head \o t, at[k], FrameOf(todo[k]))
    BY DEF Places, n
  <2>2. StandsAt(t, at[k] - h, FrameOf(todo[k]))
    BY <1>2, <2>1, StandsAfter, FrameEnds DEF h
  <2> QED
    BY <1>3, <2>2
<1>5. ASSUME NEW j \in 1 .. n, NEW k \in 1 .. n, j < k
      PROVE  new[j] + Len(FrameOf(todo[j])) - 1 <= new[k]
  <2>1. at[j] + Len(FrameOf(todo[j])) - 1 <= at[k]
    BY <1>5 DEF Places, n
  <2> DEFINE len == Len(FrameOf(todo[j]))
  <2>2. len \in Nat
    BY <1>2, FrameEnds
  <2>3. /\ new[j] = at[j] - h /\ new[k] = at[k] - h
        /\ at[j] \in Nat /\ at[k] \in Nat /\ at[j] + len - 1 <= at[k]
    BY <1>2, <1>3, <2>1
  <2> HIDE DEF len
  <2>4. new[j] + len - 1 <= new[k]
    BY <1>1, <2>2, <2>3
  <2> QED
    BY <2>4 DEF len
<1>6. Places(t, todo, new)
  BY <1>4, <1>5 DEF Places, n
<1> QED
  BY <1>3, <1>6 DEF InOrder, n

LEMMA InOrderNext ==
  ASSUME NEW b \in Byte, NEW t \in Seq(Byte), NEW todo \in Seq(Message),
         InOrder(<<b>> \o t, todo),
         todo # <<>> => ~StandsAt(<<b>> \o t, 1, FrameOf(todo[1]))
  PROVE  InOrder(t, todo)
<1> DEFINE head == <<b>>
           n == Len(todo)
<1>1. PICK at \in [1 .. n -> Nat] : Places(head \o t, todo, at)
  BY DEF InOrder
<1>2. head \in Seq(Byte) /\ Len(head) = 1 /\ n \in Nat
  OBVIOUS
<1>3. \A k \in 1 .. n : todo[k] \in Message /\ at[k] \in Nat
  OBVIOUS
<1>4. n > 0 => ~StandsAt(head \o t, 1, FrameOf(todo[1]))
  OBVIOUS
<1> HIDE DEF head, n
<1>5. ASSUME NEW k \in 1 .. n PROVE at[k] > 1
  <2>1. 1 \in 1 .. n /\ n > 0
    BY <1>2
  <2>2. StandsAt(head \o t, at[1], FrameOf(todo[1]))
    BY <1>1, <2>1 DEF Places, n
  <2>3. at[1] >= 1 /\ at[1] # 1
    BY <1>4, <2>1, <2>2 DEF StandsAt
  <2>4. CASE k = 1
    BY <1>3, <2>1, <2>3, <2>4
  <2>5. CASE k # 1
    <3>1. at[1] + Len(FrameOf(todo[1])) - 1 <= at[k]
      BY <1>1, <2>1, <2>5 DEF Places, n
    <3>2. Len(FrameOf(todo[1])) \in Nat /\ Len(FrameOf(todo[1])) >= 6
      BY <1>3, <2>1, FrameEnds
    <3> QED
      BY <1>3, <2>1, <2>3, <3>1, <3>2
  <2> QED
    BY <2>4, <2>5
<1>6. InOrder(t, todo)
  BY <1>1, <1>2, <1>5, InOrderAfter DEF n
<1> QED
  BY <1>6

(* Where the first frame opens, its bytes, the flag that closes it and the *)
(* frames after it follow.                                                 *)
LEMMA StandsFirst ==
  ASSUME NEW s \in Seq(Byte), NEW frame \in Seq(Byte), StandsAt(s, 1, frame)
  PROVE  \E after \in Seq(Byte) : s = frame \o after
<1> DEFINE after == SubSeq(s, Len(frame) + 1, Len(s))
           m == Len(frame)
           n == Len(s)
<1>1. m \in Nat /\ n \in Nat
  OBVIOUS
<1>2. m <= n /\ \A k \in 1 .. m : s[k] = frame[k]
  <2>1. 1 + m - 1 <= n /\ \A k \in 1 .. m : s[1 + k - 1] = frame[k]
    BY DEF StandsAt
  <2>2. \A k \in 1 .. m : 1 + k - 1 = k
    BY <1>1
  <2> QED
    BY <1>1, <2>1, <2>2
<1>3. SubSeq(s, 1, m) = frame
  BY <1>1, <1>2
<1>4. after \in Seq(Byte) /\ s = SubSeq(s, 1, m) \o after
  <2>1. SubSeq(s, 1, m) \o SubSeq(s, m + 1, n) = SubSeq(s, 1, n)
    <3>1. 1 \in 1 .. Len(s) + 1 /\ m \in 1 - 1 .. Len(s) /\ n \in m .. Len(s)
      BY <1>1, <1>2
    <3> HIDE DEF m, n
    <3> QED
      BY <3>1, ConcatAdjacentSubSeq
  <2>2. SubSeq(s, 1, n) = s /\ after \in Seq(Byte)
    BY SubSeqFull
  <2> QED
    BY <2>1, <2>2
<1> QED
  BY <1>3, <1>4

(* What follows the first flag of the frame of m.                          *)
FrameAhead(t, m, later) ==
  \E more \in Seq(Byte) : t = Stuffed(Plain(m)) \o (Flag \o more) /\ InOrder(Flag \o more, later)

LEMMA InOrderOpens ==
  ASSUME NEW b \in Byte, NEW t \in Seq(Byte), NEW m \in Message, NEW later \in Seq(Message),
         InOrder(<<b>> \o t, <<m>> \o later), StandsAt(<<b>> \o t, 1, FrameOf(m))
  PROVE  /\ b = HDLC_FLAG_SEQUENCE
         /\ FrameAhead(t, m, later)
<1> DEFINE inner == Stuffed(Plain(m))
           frame == FrameOf(m)
           head == Flag \o inner
           one == <<b>>
           first == <<m>>
           todo == first \o later
<1>1. one \in Seq(Byte) /\ Len(one) = 1 /\ one[1] = b /\ first \in Seq(Message)
      /\ Len(first) = 1 /\ first[1] = m
  OBVIOUS
<1>2. frame = head \o Flag /\ inner \in Seq(Byte) /\ frame \in Seq(Byte)
  BY FrameParts
<1>3. /\ Flag \in Seq(Byte) /\ Len(Flag) = 1 /\ head \in Seq(Byte)
      /\ Len(head) = Len(inner) + 1 /\ Len(head) \in Nat
  <2>1. /\ Flag \in Seq(Byte) /\ Len(Flag) = 1 /\ Len(inner) \in Nat
    BY <1>2, FlagType
  <2>2. head \in Seq(Byte) /\ Len(head) = Len(Flag) + Len(inner)
    BY <1>2, <2>1, ConcatProperties
  <2> HIDE DEF head, inner
  <2> QED
    BY <2>1, <2>2
<1> HIDE DEF inner, frame, one, first
<1>4. one \o t \in Seq(Byte)
  BY <1>1
<1>5. PICK more \in Seq(Byte) : one \o t = frame \o more
  BY <1>2, <1>4, StandsFirst DEF one, frame
<1> DEFINE rest2 == Flag \o more
<1>6. rest2 \in Seq(Byte)
  BY <1>3
<1>7. one \o t = head \o rest2 /\ one \o t = Flag \o (inner \o rest2)
  <2>1. (head \o Flag) \o more = head \o (Flag \o more)
    <3>1. head \in Seq(Byte) /\ Flag \in Seq(Byte) /\ more \in Seq(Byte)
      BY <1>3
    <3> HIDE DEF head
    <3> QED
      BY <3>1, ConcatAssociative
  <2>2. (Flag \o inner) \o rest2 = Flag \o (inner \o rest2)
    BY SMTT(20), <1>2, <1>3, <1>6, ConcatAssociative
  <2> QED
    BY <1>2, <1>5, <2>1, <2>2
<1> HIDE DEF head, rest2
<1>8. b = HDLC_FLAG_SEQUENCE /\ t = inner \o rest2
  <2> DEFINE u == inner \o rest2
             f == HDLC_FLAG_SEQUENCE
  <2>1. u \in Seq(Byte) /\ f \in Byte
    BY <1>2, <1>6 DEF HDLC_FLAG_SEQUENCE, Byte
  <2>2. <<b>> \o t = <<f>> \o u
    BY <1>7 DEF one, Flag
  <2> HIDE DEF u, f
  <2>3. /\ (<<b>> \o t)[1] = b /\ Tail(<<b>> \o t) = t
        /\ (<<f>> \o u)[1] = f /\ Tail(<<f>> \o u) = u
    BY <2>1
  <2> QED
    BY <2>2, <2>3 DEF u, f
<1>9. InOrder(rest2, later)
  <2> DEFINE n == Len(later)
  <2>1. PICK at \in [1 .. Len(todo) -> Nat] : Places(one \o t, todo, at)
    BY DEF InOrder, one, first
  <2>2. /\ Len(todo) = n + 1 /\ n \in Nat /\ todo[1] = m
        /\ \A k \in 1 .. n : todo[k + 1] = later[k] /\ later[k] \in Message
    <3>1. /\ Len(todo) = Len(first) + Len(later)
          /\ \A k \in 1 .. Len(first) + Len(later) :
               todo[k] = IF k <= Len(first) THEN first[k] ELSE later[k - Len(first)]
      BY <1>1, ConcatProperties
    <3>2. n \in Nat /\ \A k \in 1 .. n : later[k] \in Message
      OBVIOUS
    <3> HIDE DEF todo
    <3> QED
      BY <1>1, <3>1, <3>2
  <2> DEFINE new == [k \in 1 .. n |-> at[k + 1]]
  <2> HIDE DEF todo
  <2>3. new \in [1 .. n -> Nat] /\ \A k \in 1 .. n : new[k] = at[k + 1] /\ k + 1 \in 1 .. n + 1
    BY <2>1, <2>2
  <2> HIDE DEF new, n
  <2>4. ASSUME NEW k \in 1 .. n
        PROVE  StandsAt(one \o t, new[k], FrameOf(later[k])) /\ new[k] > Len(head)
    <3>1. k + 1 \in 1 .. n + 1 /\ 1 \in 1 .. n + 1 /\ 1 < k + 1
      BY <2>2
    <3>2. StandsAt(one \o t, at[k + 1], FrameOf(todo[k + 1]))
      BY <2>1, <2>2, <3>1 DEF Places
    <3>3. at[1] >= 1 /\ at[1] + Len(frame) - 1 <= at[k + 1]
      <4>1. StandsAt(one \o t, at[1], FrameOf(todo[1]))
        BY <2>1, <2>2, <3>1 DEF Places
      <4>2. at[1] + Len(FrameOf(todo[1])) - 1 <= at[k + 1]
        BY <2>1, <2>2, <3>1 DEF Places
      <4> QED
        BY <2>2, <4>1, <4>2 DEF StandsAt, frame
    <3>4. Len(frame) = Len(head) + 1
      <4>1. Len(head \o Flag) = Len(head) + Len(Flag)
        BY <1>3, ConcatProperties
      <4> QED
        BY <1>2, <1>3, <4>1
    <3>5. at[1] \in Nat /\ at[k + 1] \in Nat
      BY <2>1, <2>2, <3>1
    <3>6. at[k + 1] > Len(head)
      BY <1>3, <3>3, <3>4, <3>5
    <3> QED
      BY <2>2, <2>3, <3>2, <3>6
  <2>5. ASSUME NEW j \in 1 .. n, NEW k \in 1 .. n, j < k
        PROVE  new[j] + Len(FrameOf(later[j])) - 1 <= new[k]
    <3>1. j + 1 \in 1 .. n + 1 /\ k + 1 \in 1 .. n + 1 /\ j + 1 < k + 1
      BY <2>2, <2>5
    <3>2. at[j + 1] + Len(FrameOf(todo[j + 1])) - 1 <= at[k + 1]
      BY <2>1, <2>2, <3>1 DEF Places
    <3> QED
      BY <2>2, <2>3, <3>2
  <2>6. Places(head \o rest2, later, new)
    BY <1>7, <2>4, <2>5 DEF Places, n
  <2> QED
    BY <1>3, <1>6, <2>3, <2>4, <2>6, InOrderAfter DEF n
<1>10. FrameAhead(t, m, later)
  BY <1>8, <1>9 DEF FrameAhead, inner, rest2
<1> QED
  BY <1>8, <1>10

----------------------------------------------------------------------------
(* What is on its way and what the receiver holds; between calls the       *)
(* decoder has no chunk, in a call the receiver holds nothing, and a call  *)
(* that has met a closing flag has its index.                              *)
LinkTypes ==
  /\ sent \in Seq(Message) /\ hurt \subseteq 1 .. Len(sent)
  /\ line \in Seq(Byte) /\ rest \in Seq(Byte)

CallShape ==
  /\ phase = "idle" => src = <<>> /\ i = 0
  /\ phase # "idle" => rest = <<>>
  /\ phase = "return" => hdlc_state.end_index = hdlc_state.src_index

LinkInv == ParserInv /\ LinkTypes /\ CallShape

LEMMA DamagedType ==
  ASSUME NEW frame \in Seq(Byte)
  PROVE  Damaged(frame) \subseteq Seq(Byte)
<1> SUFFICES ASSUME NEW bytes \in Damaged(frame) PROVE bytes \in Seq(Byte)
  OBVIOUS
<1> DEFINE n == Len(frame)
<1>1. n \in Nat
  OBVIOUS
<1>2. \A k \in 1 .. n + 1 : /\ SubSeq(frame, 1, k - 1) \in Seq(Byte)
                            /\ SubSeq(frame, k, n) \in Seq(Byte)
                            /\ SubSeq(frame, k + 1, n) \in Seq(Byte)
  OBVIOUS
<1>3. CASE \E k \in 1 .. n : bytes = RemoveAt(frame, k)
  <2>1. PICK k \in 1 .. n : bytes = RemoveAt(frame, k)
    BY <1>3
  <2>2. k \in 1 .. n + 1
    BY <1>1
  <2> QED
    BY <1>2, <2>1, <2>2 DEF RemoveAt
<1>4. CASE \E k \in 1 .. n, b \in NoiseByte : bytes = ReplaceAt(frame, k, b)
  <2>1. PICK k \in 1 .. n, b \in NoiseByte : bytes = ReplaceAt(frame, k, b)
    BY <1>4
  <2>2. b \in Byte
    BY LineAssumption
  <2> QED
    BY <2>1, <2>2 DEF ReplaceAt
<1>5. CASE \E k \in 1 .. n + 1, b \in NoiseByte : bytes = InsertAt(frame, k, b)
  <2>1. PICK k \in 1 .. n + 1, b \in NoiseByte : bytes = InsertAt(frame, k, b)
    BY <1>5
  <2>2. <<b>> \in Seq(Byte)
    BY LineAssumption
  <2>3. bytes = SubSeq(frame, 1, k - 1) \o <<b>> \o SubSeq(frame, k, n)
    BY <2>1 DEF InsertAt
  <2>4. SubSeq(frame, 1, k - 1) \in Seq(Byte) /\ SubSeq(frame, k, n) \in Seq(Byte)
    BY <1>2
  <2> QED
    BY <2>2, <2>3, <2>4
<1> QED
  BY <1>3, <1>4, <1>5 DEF Damaged

(* What a message sent puts on the line.                                   *)
LEMMA SendEffect ==
  ASSUME LinkTypes, NEW m \in Message, Send(m)
  PROVE  /\ UNCHANGED <<parserVars, rest, got>> /\ sent' = Append(sent, m)
         /\ \E idle, bytes \in Seq(Byte) :
              /\ line' = (line \o idle) \o bytes
              /\ \/ hurt' = hurt /\ bytes = FrameOf(m)
                 \/ hurt' = hurt \cup {Len(sent) + 1}
<1>1. UNCHANGED <<parserVars, rest, got>> /\ sent' = Append(sent, m) /\ Len(sent') = Len(sent) + 1
  BY DEF Send, LinkTypes
<1>2. FrameOf(m) \in Seq(Byte) /\ line \in Seq(Byte) /\ <<>> \in Seq(Byte)
  BY FrameEnds DEF LinkTypes
<1> DEFINE frame == FrameOf(m)
<1>3. CASE \E n \in 0 .. MaxFill : line' = line \o Fill(n) \o frame /\ hurt' = hurt
  <2>1. PICK n \in 0 .. MaxFill : line' = line \o Fill(n) \o frame
    BY <1>3
  <2>2. Fill(n) \in Seq(Byte)
    <3>1. HDLC_FLAG_SEQUENCE \in Byte /\ n \in Nat
      BY SizeAssumption DEF HDLC_FLAG_SEQUENCE, Byte
    <3> QED
      BY <3>1 DEF Fill
  <2> QED
    BY <1>1, <1>2, <1>3, <2>1, <2>2
<1>4. CASE \E bytes \in Damaged(frame) : line' = line \o bytes /\ hurt' = hurt \cup {Len(sent')}
  <2>1. PICK bytes \in Damaged(frame) : line' = line \o bytes
    BY <1>4
  <2>2. bytes \in Seq(Byte)
    BY <1>2, <2>1, DamagedType
  <2>3. line \o <<>> = line
    BY <1>2, ConcatEmptySeq
  <2> QED
    BY <1>1, <1>2, <1>4, <2>1, <2>2, <2>3
<1> QED
  BY <1>3, <1>4 DEF Send, FrameOf

LEMMA InitLink == Init => LinkInv
<1> SUFFICES ASSUME Init PROVE LinkInv
  OBVIOUS
<1>1. ParserInv /\ phase = "idle"
  BY InitParserInv DEF Init, ParserInit
<1>2. LinkTypes
  BY LineAssumption DEF Init, LinkTypes
<1>3. CallShape
  BY DEF Init, ParserInit, CallShape
<1> QED
  BY <1>1, <1>2, <1>3 DEF LinkInv

LEMMA KeepType ==
  ASSUME LinkInv, Keep
  PROVE  rest' \in Seq(Byte)
<1>1. src \in Seq(Byte) /\ i \in 0 .. Len(src)
  BY DEF LinkInv, ParserInv, ParserTypeOK
<1>2. i + 1 \in 1 .. Len(src) + 1 /\ Len(src) \in Nat
  BY <1>1
<1> QED
  BY <1>1, <1>2 DEF Keep

LEMMA OneMorePlace ==
  ASSUME NEW n \in Nat, NEW old, NEW new, old \subseteq 1 .. n,
         new = old \/ new = old \cup {n + 1}
  PROVE  new \subseteq 1 .. n + 1
<1>1. 1 .. n \subseteq 1 .. n + 1 /\ n + 1 \in 1 .. n + 1
  OBVIOUS
<1> QED
  BY <1>1

LEMMA NextLink == LinkInv /\ [Next]_vars => LinkInv'
<1> SUFFICES ASSUME LinkInv, [Next]_vars PROVE LinkInv'
  OBVIOUS
<1>0. ParserInv /\ ParserTypeOK /\ LinkTypes /\ CallShape
  BY DEF LinkInv, ParserInv
<1>1. CASE UNCHANGED vars
  <2>1. ParserInv'
    BY <1>0, <1>1, ParserStutter DEF vars
  <2>2. LinkTypes' /\ CallShape'
    BY <1>0, <1>1 DEF vars, parserVars, LinkTypes, CallShape
  <2> QED
    BY <2>1, <2>2 DEF LinkInv
<1>2. ASSUME NEW m \in Message, Send(m) PROVE LinkInv'
  <2>1. UNCHANGED <<parserVars, rest>> /\ sent' = Append(sent, m)
    BY <1>0, <1>2, SendEffect
  <2>2. ParserInv'
    BY <1>0, <2>1, ParserStutter
  <2>3. CallShape'
    BY <1>0, <2>1 DEF CallShape, parserVars
  <2>4. PICK idle, bytes \in Seq(Byte) :
          /\ line' = (line \o idle) \o bytes
          /\ hurt' = hurt \/ hurt' = hurt \cup {Len(sent) + 1}
    BY <1>0, <1>2, SendEffect
  <2>5. line' \in Seq(Byte)
    BY <1>0, <2>4 DEF LinkTypes
  <2>6. sent' \in Seq(Message) /\ Len(sent') = Len(sent) + 1 /\ Len(sent) \in Nat
    BY <1>0, <2>1 DEF LinkTypes
  <2>7. hurt' \subseteq 1 .. Len(sent')
    <3>1. PICK n \in Nat : n = Len(sent)
      BY <2>6
    <3>2. hurt \subseteq 1 .. n /\ (hurt' = hurt \/ hurt' = hurt \cup {n + 1})
      BY <1>0, <2>4, <3>1 DEF LinkTypes
    <3>3. hurt' \subseteq 1 .. n + 1
      BY <3>2, OneMorePlace
    <3> QED
      BY <2>6, <3>1, <3>3
  <2> QED
    BY <1>0, <2>1, <2>2, <2>3, <2>5, <2>6, <2>7 DEF LinkInv, LinkTypes
<1>3. ASSUME NEW n \in ChunkSize \cup {Len(line)}, Receive(n) PROVE LinkInv'
  <2>1. line \in Seq(Byte) /\ rest \in Seq(Byte) /\ n \in Nat /\ n <= Len(line)
    BY <1>0, <1>3, SizeAssumption DEF LinkTypes, Receive
  <2> DEFINE chunk == rest \o SubSeq(line, 1, n)
  <2>2. chunk \in Seq(Byte) /\ SubSeq(line, n + 1, Len(line)) \in Seq(Byte)
    <3>1. SubSeq(line, 1, n) \in Seq(Byte) /\ SubSeq(line, n + 1, Len(line)) \in Seq(Byte)
      BY <2>1
    <3> QED
      BY <2>1, <3>1
  <2> HIDE DEF chunk
  <2>3. GetData(chunk, control, dest)
    BY <1>3 DEF Receive, chunk
  <2>4. ParserInv'
    BY <1>0, <2>2, <2>3, GetDataInv DEF ParserTypeOK
  <2>5. LinkTypes'
    BY <1>0, <1>3, <2>2 DEF Receive, LinkTypes
  <2>6. CallShape'
    BY <1>0, <1>3, <2>3 DEF Receive, GetData, CallShape
  <2> QED
    BY <2>4, <2>5, <2>6 DEF LinkInv
<1>4. CASE Scan /\ UNCHANGED linkVars
  <2>1. ParserInv'
    BY <1>0, <1>4, ScanInv
  <2>2. LinkTypes'
    BY <1>0, <1>4 DEF linkVars, LinkTypes
  <2>3. /\ phase = "scan"
        /\ Skipped \/ Discarded \/ Opened \/ Closed \/ Escaped \/ Taken
    BY <1>0, <1>4, ScanEffect
  <2>4. phase' # "idle" /\ (phase' = "return" => hdlc_state'.end_index = hdlc_state'.src_index)
    BY <2>3 DEF Skipped, Discarded, Opened, Closed, Escaped, Taken, Counted
  <2>5. CallShape'
    BY <1>0, <1>4, <2>3, <2>4 DEF CallShape, linkVars
  <2> QED
    BY <2>1, <2>2, <2>5 DEF LinkInv
<1>5. CASE NoMessage
  <2>1. ParserInv'
    BY <1>0, <1>5, ReturnInv DEF NoMessage
  <2>2. LinkTypes' /\ CallShape'
    BY <1>0, <1>5 DEF NoMessage, ReturnNoMessage, LeaveCall, linkVars, LinkTypes, CallShape
  <2> QED
    BY <2>1, <2>2 DEF LinkInv
<1>6. CASE BadFrame \/ Frame
  <2>1. ParserInv'
    BY <1>0, <1>6, ReturnInv DEF BadFrame, Frame
  <2>2. Keep /\ UNCHANGED <<sent, hurt, line>> /\ phase' = "idle" /\ src' = <<>> /\ i' = 0
    BY <1>6 DEF BadFrame, Frame, ReturnBadFrame, ReturnFrame, LeaveCall
  <2>3. LinkTypes' /\ CallShape'
    BY <1>0, <2>2, KeepType DEF LinkTypes, CallShape
  <2> QED
    BY <2>1, <2>3 DEF LinkInv
<1> QED
  BY <1>1, <1>2, <1>3, <1>4, <1>5, <1>6 DEF Next

(* The invariant of the decoder holds under the link, the line carries     *)
(* bytes, and the receiver holds bytes back only between two calls.        *)
THEOREM Invariance == Spec => []LinkInv
  BY InitLink, NextLink, PTL DEF Spec

(* The decoder and the receiver around it keep their types, for every      *)
(* message, damage and cut of the line.                                    *)
THEOREM TypeCorrect == Spec => []TypeOK
<1>1. LinkInv => TypeOK
  BY DEF LinkInv, ParserInv, LinkTypes, TypeOK
<1> QED
  BY <1>1, Invariance, PTL

----------------------------------------------------------------------------
(* The bytes the decoder has not read: of its chunk, of what the receiver  *)
(* has kept, and of the line.                                              *)
Unread == SubSeq(src, i + 1, Len(src)) \o (rest \o line)

LEMMA FirstByte ==
  ASSUME NEW S, NEW b \in S, NEW t \in Seq(S)
  PROVE  /\ <<b>> \o t \in Seq(S) /\ Len(<<b>> \o t) = Len(t) + 1
         /\ (<<b>> \o t)[1] = b /\ Tail(<<b>> \o t) = t
         /\ t # <<>> => (<<b>> \o t)[2] = t[1] /\ t[1] \in S
OBVIOUS

LEMMA SameFirst ==
  ASSUME NEW S, NEW b \in S, NEW t \in Seq(S), NEW c \in S, NEW u \in Seq(S),
         <<b>> \o t = <<c>> \o u
  PROVE  b = c /\ t = u
<1>1. (<<b>> \o t)[1] = b /\ Tail(<<b>> \o t) = t
  BY FirstByte
<1>2. (<<c>> \o u)[1] = c /\ Tail(<<c>> \o u) = u
  BY FirstByte
<1> QED
  BY <1>1, <1>2

LEMMA UnreadType ==
  ASSUME LinkInv
  PROVE  /\ Unread \in Seq(Byte)
         /\ src = <<>> /\ i = 0 => Unread = rest \o line
         /\ i = Len(src) => Unread = rest \o line
<1>1. /\ src \in Seq(Byte) /\ i \in 0 .. Len(src) /\ rest \in Seq(Byte) /\ line \in Seq(Byte)
  BY DEF LinkInv, ParserInv, ParserTypeOK, LinkTypes
<1>2. rest \o line \in Seq(Byte)
  BY <1>1
<1>3. i + 1 \in 1 .. Len(src) + 1 /\ Len(src) \in Nat
  BY <1>1
<1>4. SubSeq(src, i + 1, Len(src)) \in Seq(Byte)
  BY <1>1, <1>3
<1>5. Unread \in Seq(Byte)
  BY <1>2, <1>4 DEF Unread
<1>6. ASSUME i = Len(src) PROVE Unread = rest \o line
  <2>1. SubSeq(src, Len(src) + 1, Len(src)) = <<>>
    BY <1>1
  <2>2. SubSeq(src, i + 1, Len(src)) = <<>>
    BY <1>6, <2>1
  <2>3. <<>> \o (rest \o line) = rest \o line
    BY <1>2, ConcatEmptySeq
  <2> QED
    BY <2>2, <2>3 DEF Unread
<1>7. src = <<>> /\ i = 0 => i = Len(src)
  OBVIOUS
<1> QED
  BY <1>5, <1>6, <1>7

LEMMA ReadHere ==
  ASSUME LinkInv, i < Len(src)
  PROVE  \E t \in Seq(Byte) :
           /\ Here \in Byte /\ Unread = <<Here>> \o t
           /\ FlagFollows => t # <<>> /\ t[1] = HDLC_FLAG_SEQUENCE
           /\ UNCHANGED <<src, rest, line>> /\ i' = i + 1 => Unread' = t
<1> DEFINE n == Len(src)
           left == SubSeq(src, (i + 1) + 1, n)
           t == left \o (rest \o line)
<1>1. /\ src \in Seq(Byte) /\ rest \o line \in Seq(Byte) /\ Here \in Byte
      /\ i \in Nat /\ n \in Nat /\ i < n
  <2>1. src \in Seq(Byte) /\ i \in 0 .. Len(src) /\ rest \in Seq(Byte) /\ line \in Seq(Byte)
    BY DEF LinkInv, ParserInv, ParserTypeOK, LinkTypes
  <2>2. i + 1 \in 1 .. Len(src) /\ i \in Nat /\ Len(src) \in Nat
    BY <2>1
  <2> QED
    BY <2>1, <2>2, ElementOfSeq DEF Here
<1>2. SubSeq(src, i + 1, n) = <<src[i + 1]>> \o left /\ left \in Seq(Byte)
  <2>1. i + 1 \in 1 .. n
    BY <1>1
  <2> QED
    BY <1>1, <2>1
<1>3. t \in Seq(Byte)
  BY <1>1, <1>2
<1>4. Unread = <<Here>> \o t
  <2> DEFINE one == <<Here>>
             more == rest \o line
  <2>1. one \in Seq(Byte) /\ more \in Seq(Byte) /\ left \in Seq(Byte)
    BY <1>1, <1>2
  <2>2. Unread = (one \o left) \o more
    BY <1>2 DEF Unread, Here
  <2> HIDE DEF left, one, more
  <2>3. (one \o left) \o more = one \o (left \o more)
    BY <2>1, ConcatAssociative
  <2> QED
    BY <2>2, <2>3 DEF one, more
<1>5. ASSUME FlagFollows PROVE t # <<>> /\ t[1] = HDLC_FLAG_SEQUENCE
  <2>1. (i + 1) + 1 \in 1 .. n /\ src[(i + 1) + 1] = HDLC_FLAG_SEQUENCE
    <3>1. i < n - 1 /\ src[i + 2] = HDLC_FLAG_SEQUENCE
      BY <1>5 DEF FlagFollows
    <3>2. (i + 1) + 1 = i + 2
      BY <1>1
    <3> QED
      BY <1>1, <3>1, <3>2
  <2>2. left # <<>> /\ left[1] = src[(i + 1) + 1]
    <3> DEFINE p == (i + 1) + 1
    <3>1. p \in 1 .. n /\ p \in Nat /\ n \in Nat
      BY <1>1, <2>1
    <3> HIDE DEF p, n
    <3>2. Len(SubSeq(src, p, n)) = n - p + 1 /\ SubSeq(src, p, n)[1] = src[p]
      BY <1>1, <3>1 DEF n
    <3>3. n - p + 1 # 0
      BY <3>1
    <3>4. SubSeq(src, p, n) # <<>>
      BY <3>2, <3>3
    <3> QED
      BY <3>2, <3>4 DEF p, n
  <2> DEFINE more == rest \o line
  <2>3. more \in Seq(Byte)
    BY <1>1
  <2> HIDE DEF left, more, t
  <2>4. left \o more # <<>> /\ (left \o more)[1] = left[1]
    BY <1>2, <2>2, <2>3
  <2> QED
    BY <2>1, <2>2, <2>4 DEF t, more
<1>6. UNCHANGED <<src, rest, line>> /\ i' = i + 1 => Unread' = t
  BY DEF Unread
<1> HIDE DEF t
<1> QED
  BY <1>1, <1>3, <1>4, <1>5, <1>6

----------------------------------------------------------------------------
(* Nothing of a frame is taken where it opens.                             *)
OpenFresh ==
  InFrame =>
     /\ Distance >= 1
     /\ Distance = 1 => /\ hdlc_state.fcs = FCS_INIT_VALUE
                        /\ hdlc_state.control_escape = FALSE
                        /\ hdlc_state.dest_index = 0

LEMMA ScanOpenFresh ==
  ASSUME LinkInv, OpenFresh, IndexInRange, IndexInRange', Scan
  PROVE  OpenFresh'
<1>1. /\ ParserTypeOK /\ FreshBetweenFrames
      /\ Skipped \/ Discarded \/ Opened \/ Closed \/ Escaped \/ Taken
  BY ScanEffect DEF LinkInv, ParserInv
<1>2. /\ Distance \in Int
      /\ hdlc_state'.start_index = hdlc_state.start_index
           /\ hdlc_state'.src_index = Wrap(hdlc_state.src_index + 1)
           => Distance' = Distance + 1
      /\ hdlc_state'.start_index = hdlc_state.src_index
           /\ hdlc_state'.src_index = Wrap(hdlc_state.src_index + 1)
           => Distance' = 1
  BY <1>1, DistanceArithmetic
<1>3. CASE Skipped
  BY <1>3 DEF Skipped, Kept, InFrame, OpenFresh
<1>4. CASE Discarded
  BY <1>4 DEF Discarded, InFrame, OpenFresh, Distance
<1>5. CASE Opened
  <2>1. Distance' = 1
    BY <1>2, <1>5 DEF Opened, Counted
  <2>2. /\ hdlc_state.start_index < 0
        /\ hdlc_state'.fcs = hdlc_state.fcs
        /\ hdlc_state'.control_escape = hdlc_state.control_escape
        /\ hdlc_state'.dest_index = hdlc_state.dest_index
    BY <1>1, <1>5 DEF Opened, InFrame, NothingStored, SameBytes, ParserTypeOK, HdlcState, Int16
  <2>3. hdlc_state.fcs = FCS_INIT_VALUE /\ hdlc_state.dest_index = 0 /\ ~hdlc_state.control_escape
    BY <1>1, <2>2 DEF FreshBetweenFrames, Fresh
  <2>4. hdlc_state.control_escape = FALSE
    <3>1. hdlc_state.control_escape \in BOOLEAN
      BY <1>1 DEF ParserTypeOK, HdlcState
    <3> QED
      BY <2>3, <3>1, Zenon
  <2> QED
    BY <2>1, <2>2, <2>3, <2>4 DEF OpenFresh
<1>6. CASE Closed
  <2>1. /\ hdlc_state'.start_index = hdlc_state.start_index
        /\ hdlc_state'.src_index = hdlc_state.src_index
        /\ hdlc_state'.fcs = hdlc_state.fcs
        /\ hdlc_state'.control_escape = hdlc_state.control_escape
        /\ hdlc_state'.dest_index = hdlc_state.dest_index
    BY <1>6 DEF Closed, NothingStored, SameBytes
  <2>2. Distance' = Distance /\ InFrame' = InFrame
    BY <2>1 DEF Distance, InFrame
  <2> QED
    BY <2>1, <2>2 DEF OpenFresh
<1>7. CASE Escaped \/ Taken
  <2>1. Distance' = Distance + 1 /\ InFrame
    BY <1>2, <1>7 DEF Escaped, Taken, Counted, Kept
  <2>2. Distance >= 1
    BY <2>1 DEF OpenFresh
  <2> QED
    BY <1>2, <2>1, <2>2 DEF OpenFresh
<1> QED
  BY <1>1, <1>3, <1>4, <1>5, <1>6, <1>7

----------------------------------------------------------------------------
(* The decoder has taken the first j bytes of a frame, and perhaps the     *)
(* escape byte before the next.                                            *)
HasRead(bytes, field, j) ==
  /\ hdlc_state.fcs = FoldLeft(calc_fcs, FCS_INIT_VALUE, SubSeq(bytes, 1, j))
  /\ j < 2 => Distance = j + 1 /\ hdlc_state.dest_index = 0
  /\ j >= 2 => Distance > j /\ hdlc_state.dest_index = j - 2 /\ control = field
  /\ \A k \in 1 .. j - 2 : k - 1 \in DOMAIN dest /\ dest[k - 1] = bytes[k + 2]
  /\ hdlc_state.control_escape = TRUE =>
       j >= 2 /\ j < Len(bytes) /\ bytes[j + 1] \in {HDLC_FLAG_SEQUENCE, HDLC_CONTROL_ESCAPE}

LEMMA TakeOneMore ==
  ASSUME LinkInv, IndexInRange, IndexInRange', Taken,
         NEW bytes \in Seq(Byte), NEW field, NEW j \in 0 .. Len(bytes) - 1,
         HasRead(bytes, field, j), Value = bytes[j + 1],
         hdlc_get_control_type(bytes[2]) = field
  PROVE  HasRead(bytes, field, j + 1)'
<1>1. /\ ParserTypeOK /\ InFrame /\ j \in Nat /\ j + 1 \in 1 .. Len(bytes)
      /\ Len(bytes) \in Nat
  BY DEF LinkInv, ParserInv, Taken
<1>2. /\ Distance \in Int /\ Distance <= INT_MAX - 4
      /\ Distance > 0 => (IsControl <=> Distance = 2)
      /\ Distance > 0 => (IsData <=> Distance > 2)
      /\ Distance' = Distance + 1
  BY <1>1, DistanceArithmetic DEF Taken, Counted, Kept
<1>3. hdlc_state'.fcs = FoldLeft(calc_fcs, FCS_INIT_VALUE, SubSeq(bytes, 1, j + 1))
  <2> DEFINE v == bytes[j + 1]
             done == SubSeq(bytes, 1, j)
  <2>1. v \in Byte /\ done \in Seq(Byte)
    BY <1>1
  <2>2. SubSeq(bytes, 1, j + 1) = Append(done, v)
    BY <1>1
  <2>3. hdlc_state'.fcs = calc_fcs(hdlc_state.fcs, v)
    BY DEF Taken
  <2>4. hdlc_state.fcs = FoldLeft(calc_fcs, FCS_INIT_VALUE, done)
    BY DEF HasRead
  <2> HIDE DEF v, done
  <2>5. FoldLeft(calc_fcs, FCS_INIT_VALUE, Append(done, v))
          = calc_fcs(FoldLeft(calc_fcs, FCS_INIT_VALUE, done), v)
    BY <2>1, FcsOfAppend
  <2> QED
    BY <2>2, <2>3, <2>4, <2>5
<1>4. hdlc_state'.control_escape = FALSE
  BY DEF Taken
<1>5. CASE j < 2
  <2>1. Distance = j + 1 /\ hdlc_state.dest_index = 0
    BY <1>5 DEF HasRead
  <2>2. ~IsData /\ (IsControl <=> j = 1)
    BY <1>1, <1>2, <1>5, <2>1
  <2>3. /\ hdlc_state'.dest_index = 0
        /\ control' = IF j = 1 THEN hdlc_get_control_type(Value) ELSE control
    BY <2>1, <2>2 DEF Taken, NothingStored
  <2>4. j = 1 => Value = bytes[2]
    BY <1>1
  <2>5. Distance' = (j + 1) + 1
    BY <1>1, <1>2, <2>1
  <2>6. 1 .. (j + 1) - 2 = {}
    BY <1>1, <1>5
  <2>7. j + 1 >= 2 => Distance' > j + 1 /\ hdlc_state'.dest_index = (j + 1) - 2 /\ control' = field
    BY <1>1, <1>5, <2>3, <2>4, <2>5
  <2> QED
    BY <1>3, <1>4, <2>3, <2>5, <2>6, <2>7 DEF HasRead
<1>6. CASE j >= 2
  <2>1. Distance > j /\ hdlc_state.dest_index = j - 2 /\ control = field
    BY <1>6 DEF HasRead
  <2>2. IsData /\ ~IsControl
    BY <1>1, <1>2, <1>6, <2>1
  <2>3. /\ hdlc_state'.dest_index = Wrap(hdlc_state.dest_index + 1) /\ control' = field
        /\ dest' = [k \in DOMAIN dest \cup {j - 2} |-> IF k = j - 2 THEN Value ELSE dest[k]]
    BY <2>1, <2>2 DEF Taken
  <2>4. hdlc_state'.dest_index = (j + 1) - 2
    <3>1. j - 2 + 1 <= INT_MAX /\ INT_MAX \in Nat
      BY <1>1, <1>2, <2>1, IntMaxAssumption
    <3>2. Wrap(j - 2 + 1) = j - 2 + 1
      BY <1>1, <3>1 DEF Wrap
    <3> QED
      BY <1>1, <2>1, <2>3, <3>2
  <2>5. Distance' > j + 1
    BY <1>1, <1>2, <2>1
  <2>6. ASSUME NEW k \in 1 .. (j + 1) - 2
        PROVE  k - 1 \in DOMAIN dest' /\ dest'[k - 1] = bytes[k + 2]
    <3>1. CASE k = j - 1
      <4>1. k - 1 = j - 2 /\ k + 2 = j + 1
        BY <1>1, <3>1
      <4> QED
        BY <2>3, <4>1
    <3>2. CASE k # j - 1
      <4>1. k \in 1 .. j - 2 /\ k - 1 # j - 2
        BY <1>1, <3>2
      <4>2. k - 1 \in DOMAIN dest /\ dest[k - 1] = bytes[k + 2]
        BY <4>1 DEF HasRead
      <4> QED
        BY <2>3, <4>1, <4>2
    <3> QED
      BY <3>1, <3>2
  <2>7. ~(j + 1 < 2)
    BY <1>1, <1>6
  <2> QED
    BY <1>3, <1>4, <2>3, <2>4, <2>5, <2>6, <2>7 DEF HasRead
<1> QED
  BY <1>1, <1>5, <1>6

----------------------------------------------------------------------------
(* The decoder is in the frame of m: what it has not read begins with the  *)
(* rest of that frame, and the frames of later stand behind it.            *)
Within(m, later) ==
  /\ InFrame
  /\ \E j \in 0 .. Len(Plain(m)), more \in Seq(Byte) :
       /\ HasRead(Plain(m), m.control, j)
       /\ Unread = Left(Plain(m), j, hdlc_state.control_escape) \o (Flag \o more)
       /\ InOrder(Flag \o more, later)

LEMMA WhereItStands ==
  ASSUME NEW b \in Byte, NEW t \in Seq(Byte), NEW m \in Message,
         StandsAt(<<b>> \o t, 1, FrameOf(m))
  PROVE  t # <<>> /\ t[1] = HDLC_ALL_STATION_ADDR
<1> DEFINE frame == FrameOf(m)
           s == <<b>> \o t
           n == Len(frame)
<1>1. frame \in Seq(Byte) /\ n \in Nat /\ n >= 6 /\ frame[2] = HDLC_ALL_STATION_ADDR
  BY FrameEnds
<1>2. Len(s) = Len(t) + 1 /\ Len(t) \in Nat /\ (t # <<>> => s[2] = t[1])
  BY FirstByte
<1> HIDE DEF s
<1>3. 1 + n - 1 <= Len(s) /\ \A k \in 1 .. n : s[1 + k - 1] = frame[k]
  BY DEF StandsAt, s
<1> HIDE DEF frame, n
<1>4. s[2] = HDLC_ALL_STATION_ADDR
  <2>1. 2 \in 1 .. n /\ 1 + 2 - 1 = 2
    BY <1>1
  <2> QED
    BY <1>1, <1>3, <2>1
<1>5. t # <<>>
  <2>1. Len(t) # 0
    BY <1>1, <1>2, <1>3
  <2> QED
    BY <2>1
<1> QED
  BY <1>2, <1>4, <1>5

LEMMA FlagIsNotAddress ==
  HDLC_FLAG_SEQUENCE # HDLC_ALL_STATION_ADDR /\ HDLC_FLAG_SEQUENCE # HDLC_CONTROL_ESCAPE
BY DEF HDLC_FLAG_SEQUENCE, HDLC_ALL_STATION_ADDR, HDLC_CONTROL_ESCAPE

(* A frame opens where the decoder has just met its first flag.            *)
LEMMA OpensWithin ==
  ASSUME NEW m \in Message, NEW later, NEW more \in Seq(Byte),
         InFrame', Distance' = 1, OpenFresh',
         Unread' = Stuffed(Plain(m)) \o (Flag \o more), InOrder(Flag \o more, later)
  PROVE  Within(m, later)'
<1> DEFINE bytes == Plain(m)
<1>1. bytes \in Seq(Byte) /\ 0 \in 0 .. Len(bytes)
  BY PlainOfMessage
<1> HIDE DEF bytes
<1>2. /\ hdlc_state'.fcs = FCS_INIT_VALUE
      /\ hdlc_state'.control_escape = FALSE
      /\ hdlc_state'.dest_index = 0
  BY DEF OpenFresh
<1>3. HasRead(bytes, m.control, 0)'
  <2>1. SubSeq(bytes, 1, 0) = <<>> /\ 1 .. 0 - 2 = {}
    BY <1>1
  <2>2. FoldLeft(calc_fcs, FCS_INIT_VALUE, SubSeq(bytes, 1, 0)) = FCS_INIT_VALUE
    BY <2>1, FcsOfEmpty
  <2> QED
    BY <1>2, <2>1, <2>2 DEF HasRead
<1>4. Left(bytes, 0, FALSE) = Stuffed(bytes)
  BY <1>1, RemainingSteps DEF Left
<1>5. Unread' = Left(bytes, 0, hdlc_state'.control_escape) \o (Flag \o more)
  BY <1>2, <1>4 DEF bytes
<1> QED
  BY <1>1, <1>3, <1>5 DEF Within, bytes

LEMMA ScanAhead ==
  ASSUME LinkInv, OpenFresh, IndexInRange, IndexInRange', Scan, UNCHANGED linkVars,
         NEW todo \in Seq(Message), InOrder(Unread, todo)
  PROVE  \/ InOrder(Unread, todo)'
         \/ \E m \in Message, later \in Seq(Message) :
              todo = <<m>> \o later /\ Within(m, later)'
<1>1. /\ ParserTypeOK /\ src' = src /\ rest' = rest /\ line' = line
      /\ Scanning
      /\ Skipped \/ Discarded \/ Opened \/ Closed \/ Escaped \/ Taken
  BY ScanEffect DEF LinkInv, ParserInv, linkVars, Scanning
<1>2. PICK t \in Seq(Byte) :
        /\ Here \in Byte /\ Unread = <<Here>> \o t
        /\ FlagFollows => t # <<>> /\ t[1] = HDLC_FLAG_SEQUENCE
        /\ i' = i + 1 => Unread' = t
  BY <1>1, ReadHere DEF Scanning
<1>3. Closed => Unread' = Unread
  BY <1>1 DEF Closed, Unread
<1>4. ~Closed => Unread' = t
  BY <1>1, <1>2 DEF Skipped, Discarded, Opened, Escaped, Taken, Counted
<1>5. CASE Closed
  BY <1>3, <1>5 DEF InOrder
<1>6. CASE ~Closed /\ (todo # <<>> => ~StandsAt(Unread, 1, FrameOf(todo[1])))
  <2>1. InOrder(t, todo)
    BY <1>2, <1>6, InOrderNext
  <2> QED
    BY <1>4, <1>6, <2>1 DEF InOrder
<1>7. CASE ~Closed /\ todo # <<>> /\ StandsAt(Unread, 1, FrameOf(todo[1]))
  <2> DEFINE m == todo[1]
             later == Tail(todo)
  <2>1. m \in Message /\ later \in Seq(Message) /\ todo = <<m>> \o later
    BY <1>7
  <2> HIDE DEF m, later
  <2>2. StandsAt(<<Here>> \o t, 1, FrameOf(m)) /\ InOrder(<<Here>> \o t, <<m>> \o later)
    BY <1>2, <1>7, <2>1 DEF m
  <2>3. AtFlag /\ ~FlagFollows
    <3>1. Here = HDLC_FLAG_SEQUENCE
      BY <1>2, <2>1, <2>2, InOrderOpens
    <3>2. t[1] = HDLC_ALL_STATION_ADDR
      BY <1>2, <2>1, <2>2, WhereItStands
    <3> QED
      BY <1>2, <3>1, <3>2, FlagIsNotAddress DEF AtFlag
  <2>4. FrameAhead(t, m, later)
    <3> DEFINE b == Here
    <3>1. b \in Byte /\ m \in Message /\ later \in Seq(Message)
      BY <1>2, <2>1
    <3>2. StandsAt(<<b>> \o t, 1, FrameOf(m)) /\ InOrder(<<b>> \o t, <<m>> \o later)
      BY <2>2
    <3> HIDE DEF b
    <3> QED
      BY <3>1, <3>2, InOrderOpens
  <2>5. PICK more \in Seq(Byte) :
          t = Stuffed(Plain(m)) \o (Flag \o more) /\ InOrder(Flag \o more, later)
    BY <2>4 DEF FrameAhead
  <2>6. OpenFresh'
    BY ScanOpenFresh
  <2>7. InFrame' /\ Distance' = 1
    <3>1. Discarded \/ Opened
      BY <1>1, <1>7, <2>3, FlagIsNotAddress DEF Skipped, Escaped, Taken, AtFlag
    <3>2. CASE Discarded
      <4>1. InFrame /\ JustOpened /\ hdlc_state' = hdlc_state
        BY <2>3, <3>2 DEF Discarded, RedundantFlag
      <4>2. Distance = 1
        BY <1>1, <4>1, DistanceArithmetic
      <4> QED
        BY <4>1, <4>2 DEF InFrame, Distance
    <3>3. CASE Opened
      <4>1. /\ hdlc_state'.start_index = hdlc_state.src_index
            /\ hdlc_state'.src_index = Wrap(hdlc_state.src_index + 1)
        BY <3>3 DEF Opened, Counted
      <4>2. Distance' = 1
        BY <1>1, <4>1, DistanceArithmetic
      <4>3. hdlc_state.src_index >= 0
        BY DEF IndexInRange
      <4> QED
        BY <4>1, <4>2, <4>3 DEF InFrame
    <3> QED
      BY <3>1, <3>2, <3>3
  <2>8. Within(m, later)'
    BY <1>4, <1>7, <2>1, <2>5, <2>6, <2>7, OpensWithin
  <2> QED
    BY <2>1, <2>8
<1> QED
  BY <1>5, <1>6, <1>7

(* A byte further on in a frame, or past the flags that may close it.      *)
LEMMA SplitFirst ==
  ASSUME NEW t \in Seq(Byte), t # <<>>
  PROVE  Tail(t) \in Seq(Byte) /\ t = <<t[1]>> \o Tail(t) /\ t[1] \in Byte
OBVIOUS

LEMMA HasReadKept ==
  ASSUME NEW bytes \in Seq(Byte), NEW field, NEW j \in 0 .. Len(bytes),
         HasRead(bytes, field, j), Distance' = Distance, dest' = dest, control' = control,
         hdlc_state'.fcs = hdlc_state.fcs, hdlc_state'.dest_index = hdlc_state.dest_index,
         hdlc_state'.control_escape = hdlc_state.control_escape
  PROVE  HasRead(bytes, field, j)'
BY DEF HasRead

LEMMA FirstTwoPlain ==
  ASSUME NEW m \in Message, NEW j \in 0 .. Len(Plain(m)) - 1,
         Plain(m)[j + 1] \in {HDLC_FLAG_SEQUENCE, HDLC_CONTROL_ESCAPE}
  PROVE  j >= 2
<1> DEFINE bytes == Plain(m)
<1>1. bytes[1] \notin {HDLC_FLAG_SEQUENCE, HDLC_CONTROL_ESCAPE}
  BY PlainOfMessage, FlagIsNotAddress DEF HDLC_ALL_STATION_ADDR, HDLC_CONTROL_ESCAPE
<1>2. bytes[2] \notin {HDLC_FLAG_SEQUENCE, HDLC_CONTROL_ESCAPE}
  <2>1. m.control \in Control
    BY MessageAssumption
  <2> QED
    BY <2>1, PlainOfMessage, ControlByte
<1>3. bytes[j + 1] \in {HDLC_FLAG_SEQUENCE, HDLC_CONTROL_ESCAPE}
  OBVIOUS
<1>4. j \in Nat
  OBVIOUS
<1> HIDE DEF bytes
<1> QED
  BY <1>1, <1>2, <1>3, <1>4

LEMMA ScanWithin ==
  ASSUME LinkInv, IndexInRange, IndexInRange', Scan, UNCHANGED linkVars,
         NEW m \in Message, NEW later \in Seq(Message), Within(m, later)
  PROVE  Within(m, later)'
<1> DEFINE bytes == Plain(m)
           n == Len(bytes)
<1>1. /\ ParserTypeOK /\ src' = src /\ rest' = rest /\ line' = line
      /\ Scanning /\ InFrame
      /\ Skipped \/ Discarded \/ Opened \/ Closed \/ Escaped \/ Taken
  BY ScanEffect DEF LinkInv, ParserInv, linkVars, Scanning, Within
<1>2. PICK t \in Seq(Byte) :
        /\ Here \in Byte /\ Unread = <<Here>> \o t
        /\ FlagFollows => t # <<>> /\ t[1] = HDLC_FLAG_SEQUENCE
        /\ i' = i + 1 => Unread' = t
  BY <1>1, ReadHere DEF Scanning
<1>3. PICK j \in 0 .. n, more \in Seq(Byte) :
        /\ HasRead(bytes, m.control, j)
        /\ Unread = Left(bytes, j, hdlc_state.control_escape) \o (Flag \o more)
        /\ InOrder(Flag \o more, later)
  BY DEF Within
<1>4. /\ bytes \in Seq(Byte) /\ n \in Nat /\ n >= 4
      /\ m.control \in Control /\ hdlc_get_control_type(bytes[2]) = m.control
  <2>1. m.control \in Control /\ Len(m.data) \in Nat
    BY MessageAssumption
  <2>2. Plain(m) \in Seq(Byte) /\ Len(Plain(m)) = Len(m.data) + 4
    BY PlainOfMessage
  <2> QED
    BY <2>1, <2>2, PlainOfMessage, ControlReadBack
<1>5. hdlc_state.control_escape \in BOOLEAN
  BY <1>1 DEF ParserTypeOK, HdlcState
<1> DEFINE after == Flag \o more
<1>6. after \in Seq(Byte)
  BY FlagType
<1> HIDE DEF bytes, n
<1>7. CASE j = n
  <2>1. hdlc_state.control_escape = FALSE
    BY <1>3, <1>4, <1>5, <1>7 DEF HasRead, n
  <2>2. Left(bytes, n, FALSE) = <<>>
    BY <1>4, RemainingSteps DEF Left, n
  <2>3. Unread = after
    <3>1. Unread = <<>> \o after
      BY <1>3, <1>7, <2>1, <2>2
    <3> QED
      BY <1>6, <3>1, ConcatEmptySeq
  <2>4. Here = HDLC_FLAG_SEQUENCE /\ t = more
    <3> DEFINE b == Here
               f == HDLC_FLAG_SEQUENCE
    <3>1. b \in Byte /\ f \in Byte /\ <<b>> \o t = <<f>> \o more
      BY <1>2, <2>3 DEF Flag, HDLC_FLAG_SEQUENCE, Byte
    <3> HIDE DEF b, f
    <3>2. b = f /\ t = more
      BY <3>1, SameFirst
    <3> QED
      BY <3>2 DEF b, f
  <2>5. Discarded \/ Closed
    BY <1>1, <2>4, FlagIsNotAddress DEF Skipped, Opened, Escaped, Taken, AtFlag
  <2>6. CASE Discarded
    <3>1. ~JustOpened
      <4>1. Distance > j /\ j >= 2 /\ j \in Nat /\ Distance \in Int
        BY <1>1, <1>3, <1>4, <1>7, DistanceArithmetic DEF HasRead
      <4>2. Distance # 1
        BY <4>1
      <4> QED
        BY <1>1, <4>2, DistanceArithmetic
    <3>2. more # <<>> /\ more[1] = HDLC_FLAG_SEQUENCE
      BY <1>2, <2>4, <2>6, <3>1 DEF Discarded, RedundantFlag
    <3> DEFINE another == Tail(more)
    <3>3. another \in Seq(Byte) /\ more = Flag \o another
      BY <3>2, SplitFirst DEF Flag
    <3>4. InOrder(more, later)
      <4>1. HDLC_FLAG_SEQUENCE \in Byte
        BY DEF HDLC_FLAG_SEQUENCE, Byte
      <4>2. ASSUME later # <<>>
            PROVE  ~StandsAt(<<HDLC_FLAG_SEQUENCE>> \o more, 1, FrameOf(later[1]))
        <5>1. later[1] \in Message
          BY <4>2
        <5> QED
          BY <3>2, <4>1, <5>1, WhereItStands, FlagIsNotAddress
      <4>3. InOrder(<<HDLC_FLAG_SEQUENCE>> \o more, later)
        BY <1>3 DEF Flag
      <4> QED
        BY <4>1, <4>2, <4>3, InOrderNext
    <3>5. Unread' = more /\ UNCHANGED <<hdlc_state, dest, control>>
      BY <1>2, <2>4, <2>6 DEF Discarded
    <3>6. HasRead(bytes, m.control, j)' /\ InFrame'
      BY <1>1, <1>3, <1>4, <3>5, HasReadKept DEF Distance, InFrame, n
    <3> HIDE DEF another
    <3>7. Unread' = Left(bytes, j, hdlc_state'.control_escape) \o (Flag \o another)
      <4>1. Left(bytes, j, hdlc_state'.control_escape) = <<>>
        BY <1>7, <2>1, <2>2, <3>5
      <4>2. <<>> \o more = more
        BY ConcatEmptySeq
      <4> QED
        BY <3>3, <3>5, <4>1, <4>2
    <3> QED
      BY <3>3, <3>4, <3>6, <3>7 DEF Within, bytes, n
  <2>7. CASE Closed
    <3>1. /\ Distance' = Distance /\ InFrame' /\ dest' = dest /\ control' = control
          /\ hdlc_state'.fcs = hdlc_state.fcs /\ hdlc_state'.dest_index = hdlc_state.dest_index
          /\ hdlc_state'.control_escape = hdlc_state.control_escape
      BY <1>1, <2>7 DEF Closed, NothingStored, SameBytes, Distance, InFrame
    <3>2. HasRead(bytes, m.control, j)'
      BY <1>3, <1>4, <3>1, HasReadKept DEF n
    <3>3. Unread' = Unread
      BY <1>1, <2>7 DEF Closed, Unread
    <3>4. Unread' = Left(bytes, j, hdlc_state'.control_escape) \o (Flag \o more)
      BY <1>3, <3>1, <3>3
    <3> QED
      BY <1>3, <3>1, <3>2, <3>4 DEF Within, bytes, n
  <2> QED
    BY <2>5, <2>6, <2>7
<1>8. CASE j # n
  <2> DEFINE v == bytes[j + 1]
             special == v \in {HDLC_FLAG_SEQUENCE, HDLC_CONTROL_ESCAPE}
             next == Left(bytes, j + 1, FALSE)
  <2>1. j \in 0 .. n - 1 /\ j + 1 \in 0 .. n /\ j \in Nat
    BY <1>4, <1>8
  <2>2. /\ v \in Byte
        /\ ~special => Left(bytes, j, FALSE) = <<v>> \o next
        /\ special => Left(bytes, j, FALSE) = <<HDLC_CONTROL_ESCAPE>> \o Left(bytes, j, TRUE)
        /\ Left(bytes, j, TRUE) = <<Flip20(v)>> \o next
        /\ special => /\ Flip20(v) \notin {HDLC_FLAG_SEQUENCE, HDLC_CONTROL_ESCAPE}
                      /\ Flip20(Flip20(v)) = v
    BY <1>4, <2>1, NextOfFrame DEF n
  <2>3. next \in Seq(Byte) /\ Left(bytes, j, TRUE) \in Seq(Byte) /\ Flip20(v) \in Byte
    <3>1. next \in Seq(Byte)
      BY <1>4, <2>1, RemainingSteps DEF Left, n
    <3>2. Flip20(v) \in Byte
      BY <2>2, Flip20Type
    <3> DEFINE f == Flip20(v)
    <3>3. Left(bytes, j, TRUE) = <<f>> \o next
      BY <2>2
    <3> HIDE DEF f, next
    <3>4. <<f>> \o next \in Seq(Byte)
      BY <3>1, <3>2, FirstByte DEF f
    <3> QED
      BY <3>1, <3>2, <3>3, <3>4
  <2> HIDE DEF v, next, after
  <2>4. ASSUME NEW c \in Byte, NEW u \in Seq(Byte),
               Left(bytes, j, hdlc_state.control_escape) = <<c>> \o u
        PROVE  Here = c /\ t = u \o after
    <3> DEFINE b == Here
               one == <<c>>
               all == u \o after
    <3>1. one \in Seq(Byte) /\ b \in Byte /\ all \in Seq(Byte)
      BY <1>2, <1>6
    <3>2. (one \o u) \o after = one \o (u \o after)
      BY <1>6, <3>1, ConcatAssociative
    <3>3. <<b>> \o t = <<c>> \o all
      BY <1>2, <1>3, <2>4, <3>2 DEF after
    <3> HIDE DEF b, one, all
    <3>4. b = c /\ t = all
      BY SMTT(20), <3>1, <3>3, SameFirst
    <3> QED
      BY <3>4 DEF b, all
  <2>5. ASSUME Taken, Value = v, t = next \o after PROVE Within(m, later)'
    <3>1. HasRead(bytes, m.control, j + 1)'
      BY <1>3, <1>4, <2>1, <2>5, TakeOneMore DEF v, n
    <3>2. InFrame' /\ hdlc_state'.control_escape = FALSE /\ Unread' = t
      BY <1>1, <1>2, <2>5 DEF Taken, Kept, Counted, InFrame
    <3>3. Unread' = Left(bytes, j + 1, hdlc_state'.control_escape) \o (Flag \o more)
      BY <2>5, <3>2 DEF next, after
    <3> QED
      BY <1>3, <2>1, <3>1, <3>2, <3>3 DEF Within, bytes, n
  <2>6. CASE hdlc_state.control_escape = TRUE
    <3>1. special
      BY <1>3, <2>6 DEF HasRead, v
    <3>2. Here = Flip20(v) /\ t = next \o after
      BY <2>2, <2>3, <2>4, <2>6
    <3>3. Taken
      BY <1>1, <2>2, <3>1, <3>2 DEF Skipped, Discarded, Opened, Closed, Escaped, AtFlag
    <3>4. Value = v
      BY <2>2, <2>6, <3>1, <3>2 DEF Value
    <3> QED
      BY <2>5, <3>2, <3>3, <3>4
  <2>7. CASE hdlc_state.control_escape = FALSE /\ ~special
    <3>1. Here = v /\ t = next \o after
      BY <2>2, <2>3, <2>4, <2>7
    <3>2. Taken
      BY <1>1, <2>7, <3>1 DEF Skipped, Discarded, Opened, Closed, Escaped, AtFlag
    <3>3. Value = v
      BY <2>7, <3>1 DEF Value
    <3> QED
      BY <2>5, <3>1, <3>2, <3>3
  <2>8. CASE hdlc_state.control_escape = FALSE /\ special
    <3>1. HDLC_CONTROL_ESCAPE \in Byte
      BY DEF HDLC_CONTROL_ESCAPE, Byte
    <3>2. Here = HDLC_CONTROL_ESCAPE /\ t = Left(bytes, j, TRUE) \o after
      BY <2>2, <2>3, <2>4, <2>8, <3>1
    <3>3. Escaped
      BY <1>1, <3>2, FlagIsNotAddress DEF Skipped, Discarded, Opened, Closed, Taken, AtFlag
    <3>4. j >= 2
      BY <2>1, <2>8, FirstTwoPlain DEF v, bytes, n
    <3>5. /\ InFrame' /\ hdlc_state'.control_escape = TRUE /\ Unread' = t
          /\ hdlc_state'.fcs = hdlc_state.fcs /\ control' = control /\ dest' = dest
          /\ hdlc_state'.dest_index = hdlc_state.dest_index
      BY <1>1, <1>2, <3>3 DEF Escaped, Kept, Counted, NothingStored, SameBytes, InFrame
    <3>6. Distance' = Distance + 1 /\ Distance \in Int
      BY <1>1, <3>3, DistanceArithmetic DEF Escaped, Counted, Kept
    <3>7. HasRead(bytes, m.control, j)'
      <4>1. Distance > j /\ ~(j < 2)
        BY <1>3, <2>1, <3>4 DEF HasRead
      <4>2. Distance' > j
        BY <2>1, <3>6, <4>1
      <4>3. j < Len(bytes) /\ bytes[j + 1] \in {HDLC_FLAG_SEQUENCE, HDLC_CONTROL_ESCAPE}
        BY <1>4, <2>1, <2>8 DEF n, v
      <4> QED
        BY <1>3, <3>4, <3>5, <4>1, <4>2, <4>3 DEF HasRead
    <3>8. Unread' = Left(bytes, j, hdlc_state'.control_escape) \o (Flag \o more)
      BY <3>2, <3>5 DEF after
    <3> QED
      BY <1>3, <3>5, <3>7, <3>8 DEF Within, bytes, n
  <2> QED
    BY <1>5, <2>6, <2>7, <2>8
<1> QED
  BY <1>7, <1>8

----------------------------------------------------------------------------
(* How what is delivered keeps up with what was sent undamaged.            *)
LEMMA SubsequenceOfAny ==
  ASSUME NEW S, NEW t \in Seq(S)
  PROVE  Channel!Subsequence(<<>>, t)
<1> DEFINE at == [k \in DOMAIN <<>> |-> 1]
<1>1. DOMAIN <<>> = {} /\ at \in [DOMAIN <<>> -> DOMAIN t]
  OBVIOUS
<1> HIDE DEF at
<1> QED
  BY <1>1 DEF Channel!Subsequence

LEMMA SubsequenceLonger ==
  ASSUME NEW S, NEW s \in Seq(S), NEW T, NEW t \in Seq(T), NEW e \in T,
         Channel!Subsequence(s, t)
  PROVE  Channel!Subsequence(s, Append(t, e))
<1> DEFINE more == Append(t, e)
<1>1. PICK at \in [DOMAIN s -> DOMAIN t] :
        /\ \A j, k \in DOMAIN s : j < k => at[j] < at[k]
        /\ \A k \in DOMAIN s : s[k] = t[at[k]]
  BY DEF Channel!Subsequence
<1>2. DOMAIN t \subseteq DOMAIN more /\ \A k \in DOMAIN t : more[k] = t[k]
  OBVIOUS
<1> HIDE DEF more
<1>3. at \in [DOMAIN s -> DOMAIN more] /\ \A k \in DOMAIN s : s[k] = more[at[k]]
  BY <1>1, <1>2
<1>4. Channel!Subsequence(s, more)
  BY <1>1, <1>3 DEF Channel!Subsequence
<1> QED
  BY <1>4 DEF more

LEMMA SubsequenceBoth ==
  ASSUME NEW S, NEW s \in Seq(S), NEW e \in S, NEW T, NEW t \in Seq(T), e \in T,
         Channel!Subsequence(s, t)
  PROVE  Channel!Subsequence(Append(s, e), Append(t, e))
<1> DEFINE m == Len(s)
           n == Len(t)
           longer == Append(s, e)
           more == Append(t, e)
<1>1. PICK at \in [DOMAIN s -> DOMAIN t] :
        /\ \A j, k \in DOMAIN s : j < k => at[j] < at[k]
        /\ \A k \in DOMAIN s : s[k] = t[at[k]]
  BY DEF Channel!Subsequence
<1>2. /\ m \in Nat /\ n \in Nat /\ DOMAIN s = 1 .. m /\ DOMAIN t = 1 .. n
      /\ DOMAIN longer = 1 .. m + 1 /\ DOMAIN more = 1 .. n + 1
      /\ \A k \in 1 .. m : longer[k] = s[k]
      /\ \A k \in 1 .. n : more[k] = t[k]
      /\ longer[m + 1] = e /\ more[n + 1] = e
  OBVIOUS
<1> HIDE DEF longer, more, m, n
<1> DEFINE new == [k \in 1 .. m + 1 |-> IF k = m + 1 THEN n + 1 ELSE at[k]]
<1>3. \A k \in 1 .. m + 1 : k = m + 1 \/ k \in 1 .. m
  BY <1>2
<1>4. \A k \in 1 .. m : at[k] \in 1 .. n /\ at[k] \in 1 .. n + 1 /\ at[k] < n + 1 /\ k # m + 1
                       /\ k \in 1 .. m + 1
  BY <1>1, <1>2
<1>5. /\ new \in [1 .. m + 1 -> 1 .. n + 1] /\ new[m + 1] = n + 1
      /\ \A k \in 1 .. m : new[k] = at[k]
  BY <1>2, <1>3, <1>4
<1> HIDE DEF new
<1>6. ASSUME NEW j \in 1 .. m + 1, NEW k \in 1 .. m + 1, j < k PROVE new[j] < new[k]
  <2>1. j \in 1 .. m
    BY <1>2, <1>6
  <2>2. CASE k = m + 1
    BY <1>4, <1>5, <2>1, <2>2
  <2>3. CASE k \in 1 .. m
    BY <1>1, <1>2, <1>5, <1>6, <2>1, <2>3
  <2> QED
    BY <1>3, <2>2, <2>3
<1>7. ASSUME NEW k \in 1 .. m + 1 PROVE longer[k] = more[new[k]]
  <2>1. CASE k = m + 1
    BY <1>2, <1>5, <2>1
  <2>2. CASE k \in 1 .. m
    BY ZenonT(20), <1>1, <1>2, <1>4, <1>5, <2>2
  <2> QED
    BY <1>3, <2>1, <2>2
<1>8. Channel!Subsequence(longer, more)
  BY <1>2, <1>5, <1>6, <1>7 DEF Channel!Subsequence
<1> QED
  BY <1>8 DEF longer, more

(* The messages of s at no position of h.                                  *)
Pieces(s, h) == [k \in DOMAIN s |-> IF k \in h THEN <<>> ELSE <<s[k]>>]
Intact(s, h) == FlattenSeq(Pieces(s, h))

LEMMA IntactGrows ==
  ASSUME NEW s \in Seq(Message), NEW h, h \subseteq 1 .. Len(s), NEW m \in Message
  PROVE  /\ Intact(s, h) \in Seq(Message)
         /\ Intact(Append(s, m), h) = Append(Intact(s, h), m)
         /\ Intact(Append(s, m), h \cup {Len(s) + 1}) = Intact(s, h)
<1> DEFINE n == Len(s)
           more == Append(s, m)
           old == Pieces(s, h)
           one == <<m>>
           none == <<>>
<1>1. /\ n \in Nat /\ DOMAIN s = 1 .. n /\ DOMAIN more = 1 .. n + 1
      /\ \A k \in 1 .. n : more[k] = s[k] /\ s[k] \in Message
      /\ more[n + 1] = m
  OBVIOUS
<1>2. one \in Seq(Message) /\ none \in Seq(Message)
  OBVIOUS
<1>3. old \in Seq(Seq(Message)) /\ Len(old) = n
  <2> DEFINE piece(k) == IF k \in h THEN none ELSE <<s[k]>>
  <2>1. \A k \in 1 .. n : piece(k) \in Seq(Message)
    BY <1>1, <1>2
  <2>2. old = [k \in 1 .. n |-> piece(k)]
    BY <1>1 DEF Pieces
  <2> HIDE DEF old, piece, n
  <2>3. old \in [1 .. n -> Seq(Message)]
    BY <2>1, <2>2
  <2> QED
    BY <1>1, <2>3
<1>4. h \subseteq 1 .. n /\ n + 1 \notin h /\ \A k \in 1 .. n : k # n + 1
  BY <1>1
<1>5. ASSUME NEW g, \A k \in 1 .. n : k \in g <=> k \in h
      PROVE  Pieces(more, g) = Append(old, IF n + 1 \in g THEN none ELSE one)
  <2> DEFINE last == IF n + 1 \in g THEN none ELSE one
             whole == Append(old, last)
             pieces == Pieces(more, g)
  <2>1. last \in Seq(Message)
    BY <1>2
  <2>2. /\ whole \in Seq(Seq(Message)) /\ DOMAIN whole = 1 .. n + 1
        /\ whole[n + 1] = last /\ \A k \in 1 .. n : whole[k] = old[k]
    <3> HIDE DEF last, old, n
    <3> QED
      BY <1>1, <1>3, <2>1
  <2>3. \A k \in 1 .. n + 1 : pieces[k] = whole[k]
    <3> DEFINE piece(k) == <<s[k]>>
               other(k) == <<more[k]>>
    <3>1. \A k \in 1 .. n : old[k] = IF k \in h THEN none ELSE piece(k)
      BY <1>1 DEF Pieces
    <3>2. \A k \in 1 .. n + 1 : pieces[k] = IF k \in g THEN none ELSE other(k)
      BY <1>1 DEF Pieces
    <3>3. other(n + 1) = one /\ \A k \in 1 .. n : other(k) = piece(k)
      BY <1>1
    <3> HIDE DEF pieces, whole, old, more, n, piece, other, one
    <3>4. \A k \in 1 .. n + 1 : k \in 1 .. n \/ k = n + 1
      BY <1>1
    <3>5. n + 1 \in 1 .. n + 1 /\ \A k \in 1 .. n : k \in 1 .. n + 1
      BY <1>1
    <3>6. \A k \in 1 .. n : pieces[k] = whole[k]
      BY <1>5, <2>2, <3>1, <3>2, <3>3, <3>5
    <3>7. pieces[n + 1] = whole[n + 1]
      BY <2>2, <3>2, <3>3, <3>5
    <3> QED
      BY <3>4, <3>6, <3>7
  <2>4. pieces = [k \in 1 .. n + 1 |-> pieces[k]]
    BY <1>1 DEF Pieces
  <2>5. whole = [k \in 1 .. n + 1 |-> whole[k]]
    BY <2>2
  <2> HIDE DEF pieces, whole
  <2>6. pieces = whole
    BY <2>3, <2>4, <2>5
  <2> QED
    BY <2>6 DEF pieces, whole
<1> HIDE DEF old, none, n, more
<1>6. Pieces(more, h) = Append(old, one)
  BY <1>4, <1>5
<1>7. Pieces(more, h \cup {n + 1}) = Append(old, none)
  BY <1>4, <1>5
<1>8. FlattenSeq(old) \in Seq(Message)
  BY <1>3, FlattenType
<1>9. FlattenSeq(Append(old, one)) = FlattenSeq(old) \o one
  BY <1>2, <1>3, FlattenAppend
<1>10. FlattenSeq(Append(old, none)) = FlattenSeq(old) \o none
  BY <1>2, <1>3, FlattenAppend
<1>11. FlattenSeq(old) \o none = FlattenSeq(old)
  BY <1>8, ConcatEmptySeq DEF none
<1> HIDE DEF one
<1>12. FlattenSeq(old) \o one = Append(FlattenSeq(old), m)
  BY <1>8, AppendIsConcat DEF one
<1> QED
  BY <1>6, <1>7, <1>8, <1>9, <1>10, <1>11, <1>12 DEF Intact, old, more, n

LEMMA UndamagedIsIntact == Undamaged = Intact(sent, hurt)
BY DEF Undamaged, Intact, Pieces

----------------------------------------------------------------------------
(* How far the receiver has come: what is undamaged of what was sent is    *)
(* delivered up to done; the rest stands in order in the bytes not read,   *)
(* but for the frame of m that the decoder is in.                          *)
Ahead(done) ==
  \E todo \in Seq(Message) : Undamaged = done \o todo /\ InOrder(Unread, todo)
Inside(done) ==
  \E m \in Message, later \in Seq(Message) :
     Undamaged = done \o (<<m>> \o later) /\ Within(m, later)
Progress ==
  /\ \E S : got \in Seq(S)
  /\ \E done \in Seq(Message) : Channel!Subsequence(done, got) /\ (Ahead(done) \/ Inside(done))

LEMMA WithinKept ==
  ASSUME NEW m \in Message, NEW later, Within(m, later), Unread' = Unread,
         UNCHANGED <<hdlc_state, control, dest>>
  PROVE  Within(m, later)'
<1> DEFINE bytes == Plain(m)
<1>1. PICK j \in 0 .. Len(bytes), more \in Seq(Byte) :
        /\ HasRead(bytes, m.control, j)
        /\ Unread = Left(bytes, j, hdlc_state.control_escape) \o (Flag \o more)
        /\ InOrder(Flag \o more, later)
  BY DEF Within
<1>2. bytes \in Seq(Byte)
  BY PlainOfMessage
<1>3. InFrame' /\ Distance' = Distance
  BY DEF Within, InFrame, Distance
<1> HIDE DEF bytes
<1>4. HasRead(bytes, m.control, j)'
  BY <1>1, <1>2, <1>3, HasReadKept
<1>5. Unread' = Left(bytes, j, hdlc_state'.control_escape) \o (Flag \o more)
  BY <1>1
<1> QED
  BY <1>1, <1>3, <1>4, <1>5 DEF Within, bytes

(* A step that only hands bytes from the line to the decoder.              *)
LEMMA ProgressKept ==
  ASSUME Progress, Unread' = Unread, UNCHANGED <<hdlc_state, control, dest, sent, hurt, got>>
  PROVE  Progress'
<1>1. PICK done \in Seq(Message) : Channel!Subsequence(done, got) /\ (Ahead(done) \/ Inside(done))
  BY DEF Progress
<1>2. Undamaged' = Undamaged
  BY DEF Undamaged
<1>3. Ahead(done) => Ahead(done)'
  BY <1>2 DEF Ahead, InOrder
<1>4. Inside(done) => Inside(done)'
  BY <1>2, WithinKept DEF Inside
<1>5. Channel!Subsequence(done, got)'
  BY <1>1 DEF Channel!Subsequence
<1> QED
  BY <1>1, <1>3, <1>4, <1>5 DEF Progress

LEMMA EmptyHanded ==
  ASSUME NEW s \in Seq(Byte)
  PROVE  SubSeq(<<>>, 0 + 1, Len(<<>>)) \o s = s
<1>1. SubSeq(<<>>, 0 + 1, Len(<<>>)) = <<>>
  OBVIOUS
<1> QED
  BY <1>1, ConcatEmptySeq

LEMMA ReceiveProgress ==
  ASSUME LinkInv, Progress, NEW n \in ChunkSize \cup {Len(line)}, Receive(n)
  PROVE  Progress'
<1> DEFINE now == SubSeq(line, 1, n)
           rest2 == SubSeq(line, n + 1, Len(line))
           chunk == rest \o now
<1>1. /\ rest \in Seq(Byte) /\ line \in Seq(Byte) /\ n \in Nat /\ n <= Len(line)
      /\ phase = "idle" /\ src = <<>> /\ i = 0
      /\ src' = chunk /\ i' = 0 /\ rest' = <<>> /\ line' = rest2
      /\ UNCHANGED <<hdlc_state, control, dest, sent, hurt, got>>
  BY SizeAssumption DEF Receive, GetData, LinkInv, LinkTypes, CallShape
<1>2. now \in Seq(Byte) /\ rest2 \in Seq(Byte) /\ now \o rest2 = line
  <2>1. 1 \in 1 .. Len(line) + 1 /\ n \in 1 - 1 .. Len(line) /\ Len(line) \in n .. Len(line)
    BY <1>1
  <2>2. SubSeq(line, 1, n) \o SubSeq(line, n + 1, Len(line)) = SubSeq(line, 1, Len(line))
    BY <1>1, <2>1, ConcatAdjacentSubSeq
  <2>3. now \in Seq(Byte) /\ rest2 \in Seq(Byte)
    BY <1>1
  <2> QED
    BY <1>1, <2>2, <2>3, SubSeqFull
<1> HIDE DEF now, rest2
<1>3. Unread = rest \o line
  BY <1>1, UnreadType
<1>4. Unread' = chunk \o rest2
  <2>1. chunk \in Seq(Byte) /\ <<>> \o rest2 = rest2
    BY <1>1, <1>2, ConcatEmptySeq
  <2>2. SubSeq(chunk, 0 + 1, Len(chunk)) = chunk
    BY <2>1
  <2> HIDE DEF chunk
  <2> QED
    BY <1>1, <2>1, <2>2 DEF Unread
<1>5. (rest \o now) \o rest2 = rest \o (now \o rest2)
  <2>1. rest \in Seq(Byte) /\ now \in Seq(Byte) /\ rest2 \in Seq(Byte)
    BY <1>1, <1>2
  <2> QED
    BY <2>1, ConcatAssociative
<1> QED
  BY <1>1, <1>2, <1>3, <1>4, <1>5, ProgressKept

(* The decoder returns with all of its chunk used, or at a closing flag.   *)
LEMMA ReturnKinds ==
  ASSUME LinkInv, IndexInRange, Returning
  PROVE  /\ rest = <<>>
         /\ FrameFound => phase = "return" /\ i < Len(src) /\ AtFlag /\ InFrame
                          /\ hdlc_state.end_index = hdlc_state.src_index
         /\ ~FrameFound => i = Len(src)
<1>1. rest = <<>>
  BY DEF LinkInv, CallShape, Returning
<1>2. EndOnlyAtFlag /\ CallShape /\ hdlc_state.end_index \in Int
  BY DEF LinkInv, ParserInv, ParserTypeOK, HdlcState, Int16
<1>3. FrameFound => phase = "return"
  BY <1>2 DEF EndOnlyAtFlag, FrameFound
<1>4. phase = "return" => /\ FrameFound /\ i < Len(src) /\ AtFlag /\ InFrame
                          /\ hdlc_state.end_index = hdlc_state.src_index
  BY <1>2 DEF EndOnlyAtFlag, CallShape, FrameFound, InFrame, IndexInRange
<1> QED
  BY <1>1, <1>3, <1>4 DEF Returning

LEMMA NoMessageProgress ==
  ASSUME LinkInv, IndexInRange, Progress, NoMessage
  PROVE  Progress'
<1>1. /\ rest \in Seq(Byte) /\ line \in Seq(Byte)
      /\ Returning /\ ~FrameFound /\ src' = <<>> /\ i' = 0
      /\ UNCHANGED <<hdlc_state, control, dest, sent, hurt, line, rest, got>>
  BY DEF NoMessage, ReturnNoMessage, LeaveCall, linkVars, LinkInv, LinkTypes
<1>2. Unread = rest \o line
  BY <1>1, ReturnKinds, UnreadType
<1>3. Unread' = rest \o line
  BY <1>1, EmptyHanded DEF Unread
<1> QED
  BY <1>1, <1>2, <1>3, ProgressKept

(* A frame, good or bad: the bytes kept are the ones not read.             *)
LEMMA KeptAreUnread ==
  ASSUME LinkInv, Keep, rest = <<>>, src' = <<>>, i' = 0, line' = line
  PROVE  Unread' = Unread
<1>1. /\ line \in Seq(Byte) /\ rest' \in Seq(Byte) /\ rest' \o line \in Seq(Byte)
      /\ rest' = SubSeq(src, i + 1, Len(src))
  BY KeepType DEF LinkInv, LinkTypes, Keep
<1>2. Unread = rest' \o line
  <2>1. <<>> \o line = line
    BY <1>1, ConcatEmptySeq
  <2> QED
    BY <1>1, <2>1 DEF Unread
<1>3. Unread' = rest' \o line
  BY <1>1, EmptyHanded DEF Unread
<1> QED
  BY <1>2, <1>3

(* The closing flag of a frame that is read to its end is the one that is  *)
(* met, and then the frame is accepted and gives the message back.         *)
LEMMA ClosedWithin ==
  ASSUME LinkInv, IndexInRange, Returning, FrameFound,
         NEW m \in Message, NEW later \in Seq(Message), Within(m, later)
  PROVE  FrameValid /\ Decoded = m /\ InOrder(Unread, later)
<1> DEFINE bytes == Plain(m)
           n == Len(bytes)
           start == hdlc_state.start_index
           here == hdlc_state.src_index
<1>1. /\ ParserTypeOK /\ InFrame /\ i < Len(src) /\ Here = HDLC_FLAG_SEQUENCE
      /\ hdlc_state.end_index = here
  BY ReturnKinds DEF LinkInv, ParserInv, AtFlag
<1>2. PICK t \in Seq(Byte) : Here \in Byte /\ Unread = <<Here>> \o t
  BY <1>1, ReadHere
<1>3. PICK j \in 0 .. n, more \in Seq(Byte) :
        /\ HasRead(bytes, m.control, j)
        /\ Unread = Left(bytes, j, hdlc_state.control_escape) \o (Flag \o more)
        /\ InOrder(Flag \o more, later)
  BY DEF Within
<1>4. /\ bytes \in Seq(Byte) /\ n \in Nat /\ n = Len(m.data) + 4 /\ Len(m.data) \in Nat
      /\ \A k \in 1 .. Len(m.data) : bytes[k + 2] = m.data[k]
      /\ m \in [control : Control, data : Seq(Byte)]
  BY PlainOfMessage, MessageAssumption
<1>5. hdlc_state.control_escape \in BOOLEAN
  BY <1>1 DEF ParserTypeOK, HdlcState
<1>6. FoldLeft(calc_fcs, FCS_INIT_VALUE, bytes) = FCS_GOOD_VALUE
  BY FcsOfPlain
<1> DEFINE after == Flag \o more
<1>7. after \in Seq(Byte)
  BY FlagType
<1> HIDE DEF bytes, n, after
<1>8. j = n
  <2> SUFFICES ASSUME j # n PROVE FALSE
    OBVIOUS
  <2> DEFINE v == bytes[j + 1]
             special == v \in {HDLC_FLAG_SEQUENCE, HDLC_CONTROL_ESCAPE}
             next == Left(bytes, j + 1, FALSE)
  <2>1. j \in 0 .. n - 1 /\ j + 1 \in 0 .. n /\ j \in Nat
    BY <1>4
  <2>2. /\ v \in Byte
        /\ ~special => Left(bytes, j, FALSE) = <<v>> \o next
        /\ special => Left(bytes, j, FALSE) = <<HDLC_CONTROL_ESCAPE>> \o Left(bytes, j, TRUE)
        /\ Left(bytes, j, TRUE) = <<Flip20(v)>> \o next
        /\ special => Flip20(v) \notin {HDLC_FLAG_SEQUENCE, HDLC_CONTROL_ESCAPE}
    BY <1>4, <2>1, NextOfFrame DEF n
  <2>3. next \in Seq(Byte)
    BY <1>4, <2>1, RemainingSteps DEF Left, n
  <2> HIDE DEF v, next
  <2>4. ASSUME NEW c \in Byte, NEW u \in Seq(Byte),
               Left(bytes, j, hdlc_state.control_escape) = <<c>> \o u
        PROVE  c = HDLC_FLAG_SEQUENCE
    <3> DEFINE b == Here
               one == <<c>>
               all == u \o after
    <3>1. one \in Seq(Byte) /\ b \in Byte /\ all \in Seq(Byte)
      BY <1>2, <1>7
    <3>2. (one \o u) \o after = one \o (u \o after)
      BY <1>7, <3>1, ConcatAssociative
    <3>3. <<b>> \o t = <<c>> \o all
      BY <1>2, <1>3, <2>4, <3>2 DEF after
    <3> HIDE DEF b, one, all
    <3>4. b = c
      BY <3>1, <3>3, SameFirst
    <3> QED
      BY <1>1, <3>4 DEF b
  <2>5. HDLC_CONTROL_ESCAPE \in Byte /\ Flip20(v) \in Byte
    <3>1. HDLC_CONTROL_ESCAPE \in Byte
      BY DEF HDLC_CONTROL_ESCAPE, Byte
    <3>2. Flip20(v) \in Byte
      BY <2>2, Flip20Type
    <3> QED
      BY <3>1, <3>2
  <2> DEFINE f == Flip20(v)
  <2>6. Left(bytes, j, TRUE) = <<f>> \o next /\ f \in Byte
    BY <2>2, <2>5
  <2>7. special => f \notin {HDLC_FLAG_SEQUENCE, HDLC_CONTROL_ESCAPE}
    BY <2>2
  <2> HIDE DEF f
  <2>8. Left(bytes, j, TRUE) \in Seq(Byte)
    BY <2>3, <2>6, FirstByte
  <2>9. CASE hdlc_state.control_escape = TRUE
    <3>1. special
      BY <1>3, <2>9 DEF HasRead, v
    <3> QED
      BY <2>3, <2>4, <2>6, <2>7, <2>9, <3>1
  <2>10. CASE hdlc_state.control_escape = FALSE /\ special
    BY <2>2, <2>4, <2>5, <2>8, <2>10, FlagIsNotAddress
  <2>11. CASE hdlc_state.control_escape = FALSE /\ ~special
    BY <2>2, <2>3, <2>4, <2>11
  <2> QED
    BY <1>5, <2>9, <2>10, <2>11
<1>9. InOrder(Unread, later)
  <2>1. hdlc_state.control_escape = FALSE
    BY <1>3, <1>4, <1>5, <1>8 DEF HasRead, n
  <2>2. Left(bytes, n, FALSE) = <<>>
    BY <1>4, RemainingSteps DEF Left, n
  <2>3. Unread = <<>> \o after
    BY <1>3, <1>8, <2>1, <2>2 DEF after
  <2>4. Unread = after
    BY <1>7, <2>3, ConcatEmptySeq
  <2> QED
    BY <1>3, <2>4 DEF after
<1>10. /\ hdlc_state.fcs = FCS_GOOD_VALUE /\ control = m.control
       /\ Distance > n /\ hdlc_state.dest_index = n - 2
       /\ \A k \in 1 .. n - 2 : dest[k - 1] = bytes[k + 2]
  <2>1. SubSeq(bytes, 1, n) = bytes
    BY <1>4 DEF n
  <2>2. n >= 2
    BY <1>4
  <2> QED
    BY <1>3, <1>6, <1>8, <2>1, <2>2 DEF HasRead
<1>11. FrameValid
  <2>1. /\ start \in Int /\ here \in Int /\ start >= 0 /\ here <= INT_MAX - 4 /\ INT_MAX \in Int
        /\ here - start > n /\ n >= 4 /\ n \in Nat
    BY <1>1, <1>4, <1>10, IntMaxAssumption
       DEF ParserTypeOK, HdlcState, Int16, IndexInRange, InFrame, Distance
  <2> HIDE DEF start, here
  <2>2. here >= start + 4 /\ ~(start + 4 > INT_MAX)
    BY <2>1
  <2>3. Wrap(start + 4) = start + 4
    BY <2>2 DEF Wrap
  <2> QED
    BY <1>1, <1>10, <2>2, <2>3 DEF FrameValid, start
<1>12. Decoded = m
  <2>1. DataLength = Len(m.data)
    <3>1. n - 2 - FcsSize = Len(m.data)
      BY <1>4 DEF FcsSize
    <3> QED
      BY <1>4, <1>10, <3>1 DEF DataLength, SizeT
  <2>2. ASSUME NEW k \in 1 .. Len(m.data) PROVE dest[k - 1] = m.data[k]
    <3>1. k \in 1 .. n - 2
      BY <1>4
    <3>2. dest[k - 1] = bytes[k + 2]
      BY <1>10, <3>1
    <3>3. bytes[k + 2] = m.data[k]
      BY <1>4
    <3> QED
      BY <3>2, <3>3
  <2> DEFINE stored == [k \in 1 .. Len(m.data) |-> dest[k - 1]]
             data == m.data
  <2>3. stored = data
    <3>1. data = [k \in 1 .. Len(m.data) |-> data[k]]
      BY <1>4
    <3> HIDE DEF data
    <3> QED
      BY <2>2, <3>1 DEF data
  <2>4. Decoded = [control |-> m.control, data |-> stored]
    BY <1>10, <2>1 DEF Decoded
  <2>5. m = [control |-> m.control, data |-> m.data]
    BY <1>4
  <2> HIDE DEF stored
  <2> QED
    BY <2>3, <2>4, <2>5
<1> QED
  BY <1>9, <1>11, <1>12

LEMMA FrameProgress ==
  ASSUME LinkInv, IndexInRange, Progress, BadFrame \/ Frame
  PROVE  Progress'
<1>1. PICK done \in Seq(Message) : Channel!Subsequence(done, got) /\ (Ahead(done) \/ Inside(done))
  BY DEF Progress
<1>2. /\ Returning /\ FrameFound /\ Keep /\ src' = <<>> /\ i' = 0
      /\ UNCHANGED <<sent, hurt, line>>
      /\ \/ ~FrameValid /\ got' = got
         \/ FrameValid /\ got' = Append(got, Decoded)
  BY DEF BadFrame, Frame, ReturnBadFrame, ReturnFrame, LeaveCall
<1>3. Unread' = Unread
  BY <1>2, ReturnKinds, KeptAreUnread
<1>4. Undamaged' = Undamaged
  BY <1>2 DEF Undamaged
<1>5. PICK S : got \in Seq(S)
  BY DEF Progress
<1> DEFINE T == S \cup {Decoded}
<1>6. got \in Seq(T) /\ Decoded \in T /\ got' \in Seq(T)
  <2>1. got \in Seq(T)
    <3>1. \A k \in DOMAIN got : got[k] \in T
      BY <1>5
    <3>2. got = [k \in 1 .. Len(got) |-> got[k]] /\ Len(got) \in Nat /\ DOMAIN got = 1 .. Len(got)
      BY <1>5
    <3> HIDE DEF T
    <3>3. got \in [1 .. Len(got) -> T]
      BY <3>1, <3>2
    <3> QED
      BY <3>2, <3>3
  <2>2. Decoded \in T
    OBVIOUS
  <2> HIDE DEF T
  <2> QED
    BY <1>2, <2>1, <2>2
<1> HIDE DEF T
<1>7. Channel!Subsequence(done, got')
  BY <1>1, <1>2, <1>6, SubsequenceLonger
<1>8. CASE Ahead(done)
  <2>1. Ahead(done)'
    BY <1>3, <1>4, <1>8 DEF Ahead, InOrder
  <2>2. Channel!Subsequence(done, got)'
    BY <1>7 DEF Channel!Subsequence
  <2> QED
    BY <1>6, <2>1, <2>2 DEF Progress
<1>9. CASE Inside(done)
  <2>1. PICK m \in Message, later \in Seq(Message) :
          Undamaged = done \o (<<m>> \o later) /\ Within(m, later)
    BY <1>9 DEF Inside
  <2>2. FrameValid /\ Decoded = m /\ InOrder(Unread, later)
    BY <1>2, <2>1, ClosedWithin
  <2> DEFINE more == Append(done, m)
  <2>3. got' = Append(got, m) /\ m \in T
    BY <1>2, <1>6, <2>2
  <2>4. Channel!Subsequence(more, got')
    BY <1>1, <1>6, <2>3, SubsequenceBoth
  <2>5. more \in Seq(Message) /\ Undamaged = more \o later
    <3> DEFINE one == <<m>>
    <3>1. one \in Seq(Message) /\ more = done \o one
      BY AppendIsConcat
    <3> HIDE DEF one
    <3>2. (done \o one) \o later = done \o (one \o later)
      BY <3>1, ConcatAssociative
    <3> QED
      BY <2>1, <3>1, <3>2 DEF one
  <2> HIDE DEF more
  <2>6. Ahead(more)'
    BY <1>3, <1>4, <2>2, <2>5 DEF Ahead, InOrder
  <2>7. Channel!Subsequence(more, got)'
    BY <2>4 DEF Channel!Subsequence
  <2> QED
    BY <1>6, <2>5, <2>6, <2>7 DEF Progress
<1> QED
  BY <1>1, <1>8, <1>9

LEMMA SameJoined ==
  ASSUME NEW a \in Seq(Byte), NEW b \in Seq(Byte), NEW c \in Seq(Byte)
  PROVE  (a \o b) \o c = a \o (b \o c)
BY ConcatAssociative

(* What is sent stands behind everything else.                             *)
StandsBehind(a, r, l, x, y) == a \o (r \o ((l \o x) \o y)) = ((a \o (r \o l)) \o x) \o y

LEMMA BehindAll ==
  ASSUME NEW a \in Seq(Byte), NEW r \in Seq(Byte), NEW l \in Seq(Byte),
         NEW x \in Seq(Byte), NEW y \in Seq(Byte)
  PROVE  StandsBehind(a, r, l, x, y)
<1>1. (r \o l) \o x = r \o (l \o x)
  BY SameJoined
<1> DEFINE p == l \o x
           q == r \o l
<1>2. p \in Seq(Byte) /\ q \in Seq(Byte)
  OBVIOUS
<1> HIDE DEF p, q
<1>3. (r \o p) \o y = r \o (p \o y)
  BY SMTT(20), <1>2, SameJoined
<1>4. (a \o q) \o x = a \o (q \o x)
  BY SMTT(20), <1>2, SameJoined
<1> DEFINE u == q \o x
<1>5. u \in Seq(Byte)
  BY <1>2
<1> HIDE DEF u
<1>6. (a \o u) \o y = a \o (u \o y)
  BY SMTT(20), <1>5, SameJoined
<1>7. r \o (p \o y) = u \o y
  BY <1>1, <1>3 DEF p, q, u
<1>8. a \o u = (a \o q) \o x
  BY <1>4 DEF u
<1> QED
  BY <1>6, <1>7, <1>8 DEF p, q, StandsBehind

LEMMA LeftType ==
  ASSUME NEW bytes \in Seq(Byte), NEW field, NEW j \in 0 .. Len(bytes), HasRead(bytes, field, j)
  PROVE  Left(bytes, j, hdlc_state.control_escape) \in Seq(Byte)
<1> DEFINE left == Left(bytes, j, hdlc_state.control_escape)
<1>1. \A k \in 0 .. Len(bytes) : Remaining(bytes, k) \in Seq(Byte)
  BY RemainingSteps
<1>2. CASE hdlc_state.control_escape = TRUE
  <2>1. j + 1 \in 1 .. Len(bytes) /\ j + 1 \in 0 .. Len(bytes)
    BY <1>2 DEF HasRead
  <2>2. bytes[j + 1] \in Byte
    BY <2>1, ElementOfSeq
  <2> DEFINE f == Flip20(bytes[j + 1])
             tail == Remaining(bytes, j + 1)
  <2>3. f \in Byte /\ tail \in Seq(Byte)
    BY <1>1, <2>1, <2>2, Flip20Type
  <2>4. left = <<f>> \o tail
    BY <1>2 DEF Left
  <2> HIDE DEF f, tail, left
  <2>5. left \in Seq(Byte)
    BY <2>3, <2>4, FirstByte
  <2> QED
    BY <2>5 DEF left
<1>3. CASE hdlc_state.control_escape # TRUE
  BY <1>1, <1>3 DEF Left
<1> QED
  BY <1>2, <1>3

LEMMA WithinLonger ==
  ASSUME NEW m \in Message, NEW later, Within(m, later),
         NEW x \in Seq(Byte), NEW y \in Seq(Byte), Unread' = (Unread \o x) \o y,
         UNCHANGED parserVars, NEW newer,
         \A s \in Seq(Byte) : InOrder(s, later) => InOrder((s \o x) \o y, newer)
  PROVE  Within(m, newer)'
<1> DEFINE bytes == Plain(m)
<1>1. PICK j \in 0 .. Len(bytes), more \in Seq(Byte) :
        /\ HasRead(bytes, m.control, j)
        /\ Unread = Left(bytes, j, hdlc_state.control_escape) \o (Flag \o more)
        /\ InOrder(Flag \o more, later)
  BY DEF Within
<1> DEFINE left == Left(bytes, j, hdlc_state.control_escape)
           after == Flag \o more
           longer == (more \o x) \o y
<1>2. bytes \in Seq(Byte)
  BY PlainOfMessage
<1>3. Flag \in Seq(Byte) /\ after \in Seq(Byte) /\ more \o x \in Seq(Byte) /\ longer \in Seq(Byte)
  BY FlagType
<1>4. left \in Seq(Byte)
  BY <1>1, <1>2, LeftType
<1> HIDE DEF bytes, left
<1>5. (after \o x) \o y = Flag \o longer
  <2>1. after \o x = Flag \o (more \o x)
    BY <1>3, SameJoined
  <2> DEFINE u == more \o x
  <2>2. u \in Seq(Byte) /\ Flag \in Seq(Byte)
    BY <1>3
  <2> HIDE DEF u, after
  <2>3. (Flag \o u) \o y = Flag \o (u \o y)
    BY <2>2, SameJoined
  <2> QED
    BY <2>1, <2>3 DEF u
<1>6. Unread' = left \o (Flag \o longer)
  <2>1. Unread' = ((left \o after) \o x) \o y
    BY <1>1 DEF left
  <2>2. (left \o after) \o x = left \o (after \o x)
    BY ZenonT(20), <1>3, <1>4, SameJoined
  <2> DEFINE u == after \o x
  <2>3. u \in Seq(Byte)
    BY <1>3
  <2> HIDE DEF u, longer, after
  <2>4. (left \o u) \o y = left \o (u \o y)
    BY <1>4, <2>3, SameJoined
  <2> QED
    BY <1>5, <2>1, <2>2, <2>4 DEF u
<1>7. InOrder(Flag \o longer, newer)
  BY <1>1, <1>3, <1>5
<1>8. InFrame' /\ Distance' = Distance /\ UNCHANGED <<hdlc_state, control, dest>>
  BY DEF Within, InFrame, Distance, parserVars
<1>9. HasRead(bytes, m.control, j)'
  BY <1>1, <1>2, <1>8, HasReadKept
<1> HIDE DEF longer
<1>10. Unread' = Left(bytes, j, hdlc_state'.control_escape) \o (Flag \o longer)
  BY <1>6, <1>8 DEF left
<1> QED
  BY <1>1, <1>3, <1>7, <1>8, <1>9, <1>10 DEF Within, bytes

LEMMA AppendJoined ==
  ASSUME NEW s \in Seq(Message), NEW t \in Seq(Message), NEW m \in Message
  PROVE  Append(s \o t, m) = s \o Append(t, m) /\ Append(t, m) \in Seq(Message)
<1> DEFINE one == <<m>>
<1>1. one \in Seq(Message) /\ s \o t \in Seq(Message)
  OBVIOUS
<1>2. Append(s \o t, m) = (s \o t) \o one /\ Append(t, m) = t \o one
  BY <1>1, AppendIsConcat
<1> HIDE DEF one
<1>3. (s \o t) \o one = s \o (t \o one)
  BY <1>1, ConcatAssociative
<1>4. t \o one \in Seq(Message)
  BY <1>1
<1> QED
  BY <1>2, <1>3, <1>4

LEMMA InOrderBehind ==
  ASSUME NEW s \in Seq(Byte), NEW todo \in Seq(Message), InOrder(s, todo),
         NEW x \in Seq(Byte), NEW y \in Seq(Byte), NEW m \in Message
  PROVE  /\ InOrder((s \o x) \o y, todo)
         /\ InOrder((s \o x) \o FrameOf(m), Append(todo, m))
<1> DEFINE longer == s \o x
<1>1. longer \in Seq(Byte) /\ InOrder(longer, todo)
  BY InOrderLonger
<1> HIDE DEF longer
<1>2. InOrder(longer \o y, todo) /\ InOrder(longer \o FrameOf(m), Append(todo, m))
  BY <1>1, InOrderLonger, InOrderSent
<1> QED
  BY <1>2 DEF longer

LEMMA SendProgress ==
  ASSUME LinkInv, Progress, NEW m \in Message, Send(m)
  PROVE  Progress'
<1>1. LinkTypes /\ ParserTypeOK
  BY DEF LinkInv, ParserInv
<1>2. /\ UNCHANGED <<parserVars, rest, got>> /\ sent' = Append(sent, m)
      /\ \E idle, bytes \in Seq(Byte) :
           /\ line' = (line \o idle) \o bytes
           /\ \/ hurt' = hurt /\ bytes = FrameOf(m)
              \/ hurt' = hurt \cup {Len(sent) + 1}
  BY <1>1, SendEffect
<1>3. PICK x \in Seq(Byte), y \in Seq(Byte) :
        /\ line' = (line \o x) \o y
        /\ \/ hurt' = hurt /\ y = FrameOf(m)
           \/ hurt' = hurt \cup {Len(sent) + 1}
  BY <1>2
<1>4. Unread' = (Unread \o x) \o y /\ Unread \in Seq(Byte)
  <2> DEFINE a == SubSeq(src, i + 1, Len(src))
  <2> DEFINE r == rest
             l == line
  <2>1. r \in Seq(Byte) /\ l \in Seq(Byte)
    BY <1>1 DEF LinkTypes
  <2>2. a \in Seq(Byte)
    <3>1. src \in Seq(Byte) /\ i \in 0 .. Len(src)
      BY <1>1 DEF ParserTypeOK
    <3>2. i + 1 \in 1 .. Len(src) + 1
      BY <3>1
    <3> QED
      BY <3>1, <3>2
  <2>3. Unread' = a \o (r \o ((l \o x) \o y))
    BY <1>2, <1>3 DEF Unread, parserVars
  <2>4. Unread = a \o (r \o l)
    BY DEF Unread
  <2> HIDE DEF a, r, l
  <2>5. StandsBehind(a, r, l, x, y)
    BY <2>1, <2>2, BehindAll
  <2> QED
    BY <2>3, <2>4, <2>5, UnreadType DEF StandsBehind
<1>5. PICK done \in Seq(Message) : Channel!Subsequence(done, got) /\ (Ahead(done) \/ Inside(done))
  BY DEF Progress
<1>6. Channel!Subsequence(done, got)'
  BY <1>2, <1>5 DEF Channel!Subsequence
<1>7. /\ Undamaged \in Seq(Message)
      /\ \/ y = FrameOf(m) /\ Undamaged' = Append(Undamaged, m)
         \/ Undamaged' = Undamaged
  <2>1. sent \in Seq(Message) /\ hurt \subseteq 1 .. Len(sent)
    BY <1>1 DEF LinkTypes
  <2>2. Undamaged' = Intact(sent', hurt') /\ Undamaged = Intact(sent, hurt)
    BY DEF Undamaged, Intact, Pieces
  <2>3. /\ Intact(sent, hurt) \in Seq(Message)
        /\ Intact(Append(sent, m), hurt) = Append(Intact(sent, hurt), m)
        /\ Intact(Append(sent, m), hurt \cup {Len(sent) + 1}) = Intact(sent, hurt)
    BY <2>1, IntactGrows
  <2>4. CASE hurt' = hurt /\ y = FrameOf(m)
    <3>1. Undamaged' = Append(Undamaged, m)
      BY <1>2, <2>2, <2>3, <2>4
    <3> QED
      BY <2>2, <2>3, <2>4, <3>1
  <2>5. CASE hurt' = hurt \cup {Len(sent) + 1}
    <3>1. Undamaged' = Undamaged
      BY <1>2, <2>2, <2>3, <2>5
    <3> QED
      BY <2>2, <2>3, <3>1
  <2> QED
    BY <1>3, <2>4, <2>5
<1>8. CASE Ahead(done)
  <2>1. PICK todo \in Seq(Message) : Undamaged = done \o todo /\ InOrder(Unread, todo)
    BY <1>8 DEF Ahead
  <2>2. CASE y = FrameOf(m) /\ Undamaged' = Append(Undamaged, m)
    <3> DEFINE newer == Append(todo, m)
    <3>1. newer \in Seq(Message) /\ Undamaged' = done \o newer
      BY <2>1, <2>2, AppendJoined
    <3>2. InOrder(Unread', newer)
      BY <1>3, <1>4, <2>1, <2>2, InOrderBehind
    <3> HIDE DEF newer
    <3>3. Ahead(done)'
      BY <3>1, <3>2 DEF Ahead, InOrder
    <3> QED
      BY <1>2, <1>5, <1>6, <3>3 DEF Progress
  <2>3. CASE Undamaged' = Undamaged
    <3>1. InOrder(Unread', todo)
      BY <1>3, <1>4, <2>1, InOrderBehind
    <3>2. Ahead(done)'
      BY <2>1, <2>3, <3>1 DEF Ahead, InOrder
    <3> QED
      BY <1>2, <1>5, <1>6, <3>2 DEF Progress
  <2> QED
    BY <1>7, <2>2, <2>3
<1>9. CASE Inside(done)
  <2>1. PICK first \in Message, later \in Seq(Message) :
          Undamaged = done \o (<<first>> \o later) /\ Within(first, later)
    BY <1>9 DEF Inside
  <2>2. CASE y = FrameOf(m) /\ Undamaged' = Append(Undamaged, m)
    <3> DEFINE newer == Append(later, m)
               one == <<first>>
               todo == one \o later
    <3>1. newer \in Seq(Message) /\ one \in Seq(Message) /\ todo \in Seq(Message)
      BY AppendJoined
    <3> HIDE DEF one
    <3>2. Append(one \o later, m) = one \o newer
      BY <3>1, AppendJoined
    <3> HIDE DEF todo
    <3>3. Append(done \o todo, m) = done \o Append(todo, m)
      BY <3>1, AppendJoined
    <3>4. Undamaged' = done \o (<<first>> \o newer)
      BY <2>1, <2>2, <3>2, <3>3 DEF one, todo
    <3>5. \A s \in Seq(Byte) : InOrder(s, later) => InOrder((s \o x) \o y, newer)
      BY <1>3, <2>2, InOrderBehind
    <3> HIDE DEF newer
    <3>6. Within(first, newer)'
      BY <1>2, <1>3, <1>4, <2>1, <3>5, WithinLonger
    <3>7. Inside(done)'
      BY <3>1, <3>4, <3>6 DEF Inside
    <3> QED
      BY <1>2, <1>5, <1>6, <3>7 DEF Progress
  <2>3. CASE Undamaged' = Undamaged
    <3>1. \A s \in Seq(Byte) : InOrder(s, later) => InOrder((s \o x) \o y, later)
      BY <1>3, InOrderBehind
    <3>2. Within(first, later)'
      BY <1>2, <1>3, <1>4, <2>1, <3>1, WithinLonger
    <3>3. Inside(done)'
      BY <2>1, <2>3, <3>2 DEF Inside
    <3> QED
      BY <1>2, <1>5, <1>6, <3>3 DEF Progress
  <2> QED
    BY <1>7, <2>2, <2>3
<1> QED
  BY <1>5, <1>8, <1>9

LEMMA ScanProgress ==
  ASSUME LinkInv, OpenFresh, IndexInRange, IndexInRange', Progress, Scan, UNCHANGED linkVars
  PROVE  Progress'
<1>1. PICK done \in Seq(Message) : Channel!Subsequence(done, got) /\ (Ahead(done) \/ Inside(done))
  BY DEF Progress
<1>2. got' = got /\ Undamaged' = Undamaged
  BY DEF linkVars, Undamaged
<1>3. Channel!Subsequence(done, got)'
  BY <1>1, <1>2 DEF Channel!Subsequence
<1>4. Ahead(done) => Ahead(done)' \/ Inside(done)'
  <2> SUFFICES ASSUME Ahead(done) PROVE Ahead(done)' \/ Inside(done)'
    OBVIOUS
  <2>1. PICK todo \in Seq(Message) : Undamaged = done \o todo /\ InOrder(Unread, todo)
    BY DEF Ahead
  <2>2. CASE InOrder(Unread, todo)'
    BY <1>2, <2>1, <2>2 DEF Ahead
  <2>3. CASE \E m \in Message, later \in Seq(Message) :
               todo = <<m>> \o later /\ Within(m, later)'
    BY <1>2, <2>1, <2>3 DEF Inside
  <2> QED
    BY <2>1, <2>2, <2>3, ScanAhead
<1>5. Inside(done) => Inside(done)'
  BY <1>2, ScanWithin DEF Inside
<1> QED
  BY <1>1, <1>2, <1>3, <1>4, <1>5 DEF Progress

(* Only a turn of the loop moves the decoder within a frame.               *)
LEMMA OpenFreshKept ==
  ASSUME OpenFresh, hdlc_state' = hdlc_state \/ ~InFrame'
  PROVE  OpenFresh'
BY DEF OpenFresh, InFrame, Distance

LinkProgress == OpenFresh /\ Progress

LEMMA InitProgress == Init => LinkProgress
<1> SUFFICES ASSUME Init PROVE LinkProgress
  OBVIOUS
<1>1. LinkInv
  BY InitLink
<1>2. ~InFrame
  BY DEF Init, ParserInit, InFrame
<1>3. got = <<>> /\ sent = <<>>
  BY DEF Init
<1> DEFINE none == <<>>
<1>4. none \in Seq(Message) /\ got \in Seq(Message)
  BY <1>3
<1>5. Undamaged = <<>> \o <<>>
  <2>1. Pieces(sent, hurt) = <<>>
    BY <1>3 DEF Pieces
  <2>2. Undamaged = FlattenSeq(Pieces(sent, hurt))
    BY DEF Undamaged, Pieces
  <2>3. Undamaged = <<>>
    BY <2>1, <2>2, FlattenEmpty
  <2> QED
    BY <2>3, ConcatEmptySeq
<1>6. InOrder(Unread, <<>>)
  BY <1>1, UnreadType, NothingInOrder
<1>7. Ahead(none)
  BY <1>4, <1>5, <1>6 DEF Ahead
<1>8. Channel!Subsequence(none, got)
  BY <1>4, SubsequenceOfAny
<1> HIDE DEF none
<1> QED
  BY <1>2, <1>4, <1>7, <1>8 DEF LinkProgress, OpenFresh, Progress

LEMMA NextProgress ==
  ASSUME LinkInv, IndexInRange, IndexInRange', LinkProgress, [Next]_vars
  PROVE  LinkProgress'
<1>0. OpenFresh /\ Progress
  BY DEF LinkProgress
<1>1. CASE UNCHANGED vars
  <2>1. OpenFresh'
    BY <1>0, <1>1, OpenFreshKept DEF vars, parserVars
  <2>2. Unread' = Unread /\ UNCHANGED <<hdlc_state, control, dest, sent, hurt, got>>
    BY <1>1 DEF vars, parserVars, Unread
  <2> QED
    BY <1>0, <2>1, <2>2, ProgressKept DEF LinkProgress
<1>2. ASSUME NEW m \in Message, Send(m) PROVE LinkProgress'
  <2>1. OpenFresh'
    BY <1>0, <1>2, OpenFreshKept DEF Send, parserVars
  <2> QED
    BY <1>0, <1>2, <2>1, SendProgress DEF LinkProgress
<1>3. ASSUME NEW n \in ChunkSize \cup {Len(line)}, Receive(n) PROVE LinkProgress'
  <2>1. OpenFresh'
    BY <1>0, <1>3, OpenFreshKept DEF Receive, GetData
  <2> QED
    BY <1>0, <1>3, <2>1, ReceiveProgress DEF LinkProgress
<1>4. CASE Scan /\ UNCHANGED linkVars
  BY <1>0, <1>4, ScanOpenFresh, ScanProgress DEF LinkProgress
<1>5. CASE NoMessage
  <2>1. OpenFresh'
    BY <1>0, <1>5, OpenFreshKept DEF NoMessage, ReturnNoMessage, LeaveCall
  <2> QED
    BY <1>0, <1>5, <2>1, NoMessageProgress DEF LinkProgress
<1>6. CASE BadFrame \/ Frame
  <2>1. hdlc_state' = hdlc_get_data_reset_with_state(hdlc_state) /\ hdlc_state \in HdlcState
    BY <1>6 DEF BadFrame, Frame, ReturnBadFrame, ReturnFrame, LeaveCall, LinkInv, ParserInv,
                ParserTypeOK
  <2>2. ~InFrame'
    BY <2>1 DEF hdlc_get_data_reset_with_state, HdlcState, InFrame
  <2>3. OpenFresh'
    BY <1>0, <2>2, OpenFreshKept
  <2> QED
    BY <1>0, <1>6, <2>3, FrameProgress DEF LinkProgress
<1> QED
  BY <1>1, <1>2, <1>3, <1>4, <1>5, <1>6 DEF Next

(* Of a frame the decoder is in, something is left to read.                *)
LEMMA SomethingUnread ==
  ASSUME NEW m \in Message, NEW later, Within(m, later)
  PROVE  Unread # <<>>
<1> DEFINE bytes == Plain(m)
<1>1. PICK j \in 0 .. Len(bytes), more \in Seq(Byte) :
        /\ HasRead(bytes, m.control, j)
        /\ Unread = Left(bytes, j, hdlc_state.control_escape) \o (Flag \o more)
  BY DEF Within
<1> DEFINE left == Left(bytes, j, hdlc_state.control_escape)
           after == Flag \o more
<1>2. bytes \in Seq(Byte)
  BY PlainOfMessage
<1>3. left \in Seq(Byte)
  BY <1>1, <1>2, LeftType
<1>4. after \in Seq(Byte) /\ Len(after) >= 1
  BY FlagType, FirstByte DEF Flag
<1> HIDE DEF left, after
<1>5. Len(left \o after) = Len(left) + Len(after) /\ Len(left) \in Nat
  BY <1>3, <1>4
<1>6. Len(left \o after) # 0
  BY <1>4, <1>5
<1>7. left \o after # <<>>
  BY <1>6
<1> QED
  BY <1>1, <1>7 DEF left, after

LEMMA QuietProgress ==
  ASSUME LinkInv, Progress, Quiet
  PROVE  Channel!Subsequence(Undamaged, got)
<1>1. PICK done \in Seq(Message) : Channel!Subsequence(done, got) /\ (Ahead(done) \/ Inside(done))
  BY DEF Progress
<1>2. Unread = <<>>
  <2>1. src = <<>> /\ i = 0 /\ rest = <<>> /\ line = <<>>
    BY DEF Quiet, LinkInv, CallShape
  <2>2. Unread = <<>> \o <<>>
    BY <2>1, UnreadType
  <2> QED
    BY <2>2, ConcatEmptySeq
<1>3. CASE Ahead(done)
  <2>1. PICK todo \in Seq(Message) : Undamaged = done \o todo /\ InOrder(<<>>, todo)
    BY <1>2, <1>3 DEF Ahead
  <2>2. todo = <<>>
    BY <2>1, NothingInOrder
  <2>3. Undamaged = done
    BY <2>1, <2>2, ConcatEmptySeq
  <2> QED
    BY <1>1, <2>3
<1>4. CASE Inside(done)
  <2>1. PICK m \in Message, later \in Seq(Message) : Within(m, later)
    BY <1>4 DEF Inside
  <2> QED
    BY <1>2, <2>1, SomethingUnread
<1> QED
  BY <1>1, <1>3, <1>4

(* Once all has been read, every message whose frame was not damaged has   *)
(* been delivered, in order: for every message, every damage of the other  *)
(* frames and every cut into chunks, while the decoder's index of the line *)
(* has not come to its largest int.                                        *)
THEOREM FramesArrive == Spec /\ []IndexInRange => []UndamagedFramesArrive
<1>1. LinkInv /\ LinkProgress => UndamagedFramesArrive
  BY QuietProgress DEF LinkProgress, UndamagedFramesArrive
<1>2. ASSUME LinkInv, IndexInRange, IndexInRange', LinkProgress, [Next]_vars
      PROVE  LinkProgress'
  BY <1>2, NextProgress
<1> QED
  BY <1>1, <1>2, InitProgress, Invariance, PTL DEF Spec

=============================================================================
