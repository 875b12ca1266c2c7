---------------------------- MODULE CodecProofs ----------------------------
(***************************************************************************)
(* What holds of the calculations of the frame encoder for every control   *)
(* field and every payload.                                                *)
(***************************************************************************)
EXTENDS HdlcCodec, HdlcLemmas

----------------------------------------------------------------------------
(* The register of the payload loop is the one a fold over all the bytes   *)
(* so far gives: what hdlc_frame_data computes in one go.                  *)
RegisterOfBody ==
  fcs = FoldLeft(calc_fcs, FCS_INIT_VALUE, FrameBody(header, data))

IInv ==
  /\ header \in Control /\ data \in Seq(Byte) /\ fcs \in FcsValue
  /\ RegisterOfBody

LEMMA InitIInv == Init => IInv
<1> SUFFICES ASSUME Init PROVE IInv
  OBVIOUS
<1>1. header \in Control /\ data = <<>> /\ data \in Seq(Byte)
  BY HeaderAssumption DEF Init
<1>2. FrameBody(header, data) \in Seq(Byte)
  BY <1>1, BodyType
<1>3. RegisterOfBody
  BY <1>1 DEF Init, RegisterOfBody
<1>4. fcs \in FcsValue
  BY <1>2, <1>3, FcsRange DEF RegisterOfBody
<1> QED
  BY <1>1, <1>3, <1>4 DEF IInv

LEMMA AddByteIInv ==
  ASSUME IInv, NEW b \in Byte, AddByte(b)
  PROVE  IInv'
<1> DEFINE head == <<HDLC_ALL_STATION_ADDR, hdlc_frame_control_type(header)>>
<1>1. /\ header \in Control /\ data \in Seq(Byte) /\ fcs \in FcsValue
      /\ header.frame = I_FRAME /\ header' = header
      /\ data' = Append(data, b) /\ fcs' = calc_fcs(fcs, b)
  BY DEF IInv, AddByte
<1>2. FrameBody(header, data) = head \o data /\ FrameBody(header', data') = head \o Append(data, b)
  BY <1>1 DEF FrameBody
<1>3. head \in Seq(Byte)
  <2>1. HDLC_ALL_STATION_ADDR \in Byte
    BY DEF HDLC_ALL_STATION_ADDR, Byte
  <2> QED
    BY <1>1, <2>1, ControlByte
<1> HIDE DEF head
<1>4. head \o Append(data, b) = Append(head \o data, b) /\ head \o data \in Seq(Byte)
  BY <1>1, <1>3
<1>5. FoldLeft(calc_fcs, FCS_INIT_VALUE, Append(head \o data, b))
        = calc_fcs(FoldLeft(calc_fcs, FCS_INIT_VALUE, head \o data), b)
  <2> DEFINE body == head \o data
  <2>1. body \in Seq(Byte)
    BY <1>4
  <2> HIDE DEF body
  <2>2. FoldLeft(calc_fcs, FCS_INIT_VALUE, Append(body, b))
          = calc_fcs(FoldLeft(calc_fcs, FCS_INIT_VALUE, body), b)
    BY <2>1, FcsOfAppend
  <2> QED
    BY <2>2 DEF body
<1>6. RegisterOfBody'
  BY <1>1, <1>2, <1>4, <1>5 DEF IInv, RegisterOfBody
<1>7. fcs' \in FcsValue /\ data' \in Seq(Byte)
  BY <1>1, FcsType
<1> QED
  BY <1>1, <1>6, <1>7 DEF IInv

LEMMA NextIInv == IInv /\ [Next]_vars => IInv'
<1> SUFFICES ASSUME IInv, [Next]_vars PROVE IInv'
  OBVIOUS
<1>1. CASE UNCHANGED vars
  BY <1>1 DEF vars, IInv, RegisterOfBody
<1>2. CASE Next
  <2>1. PICK b \in DataByte[Len(data) + 1] : AddByte(b) /\ Len(data) < Len(DataByte)
    BY <1>2 DEF Next
  <2>2. b \in Byte
    <3>1. Len(data) + 1 \in 1 .. Len(DataByte)
      <4>1. Len(data) \in Nat /\ Len(DataByte) \in Nat
        BY DataByteAssumption DEF IInv
      <4> QED
        BY <2>1, <4>1
    <3>2. DataByte[Len(data) + 1] \in SUBSET Byte
      BY <3>1, DataByteAssumption, ElementOfSeq
    <3> QED
      BY <3>2
  <2> QED
    BY <2>1, <2>2, AddByteIInv
<1> QED
  BY <1>1, <1>2

THEOREM Invariance == Spec => []IInv
  BY InitIInv, NextIInv, PTL DEF Spec

----------------------------------------------------------------------------
(* The control byte is read back as the field it was made from.            *)
THEOREM ControlRoundTrip == Spec => []ControlSurvives
<1>1. IInv => ControlSurvives
  BY ControlReadBack DEF IInv, ControlSurvives
<1> QED
  BY <1>1, Invariance, PTL

----------------------------------------------------------------------------
(* Whatever the frame, its own trailer drives the register to the value    *)
(* the decoder compares with: a frame that arrives undamaged is accepted.  *)
THEOREM TrailerAccepted == Spec => []TrailerLeavesResidue
<1>1. IInv => TrailerLeavesResidue
  BY Residue DEF IInv, TrailerLeavesResidue
<1> QED
  BY <1>1, Invariance, PTL

----------------------------------------------------------------------------
(* The table-driven register is the remainder of the division, for every   *)
(* control field and payload: no entry of fcstab is wrong.                 *)
THEOREM RegisterIsRemainder == Spec => []FcsIsRemainder
<1>1. ASSUME IInv PROVE FcsIsRemainder
  <2> DEFINE body == FrameBody(header, data)
  <2>1. body \in Seq(Byte) /\ fcs = FoldLeft(calc_fcs, FCS_INIT_VALUE, body)
    BY <1>1, BodyType DEF IInv, RegisterOfBody
  <2> HIDE DEF body
  <2>2. Bits(fcs) = Crc(body)
    BY <2>1, FcsDivides
  <2> QED
    BY <2>2 DEF FcsIsRemainder, body
<1> QED
  BY <1>1, Invariance, PTL

(* Damage to two neighbouring bytes of a frame, its fcs included, is never *)
(* accepted: the decoder's comparison with FCS_GOOD_VALUE (hdlc.c:195)     *)
(* fails whatever the frame, the place and the two values put there.       *)
THEOREM DamageRejected ==
  \A field \in Control, payload \in Seq(Byte), before \in Seq(Byte), after \in Seq(Byte),
     a \in Byte, b \in Byte, c \in Byte, d \in Byte :
    (/\ Sent(field, payload) = (before \o <<a, b>>) \o after
     /\ <<a, b>> # <<c, d>>)
    => RegisterAfter((before \o <<c, d>>) \o after) # FCS_GOOD_VALUE
<1> TAKE field \in Control, payload \in Seq(Byte), before \in Seq(Byte), after \in Seq(Byte),
         a \in Byte, b \in Byte, c \in Byte, d \in Byte
<1> HAVE /\ Sent(field, payload) = (before \o <<a, b>>) \o after
         /\ <<a, b>> # <<c, d>>
<1>1. RegisterAfter(Sent(field, payload)) = FCS_GOOD_VALUE
  BY SentShape
<1> QED
  BY <1>1, PairRejected

----------------------------------------------------------------------------
(* Removing the stuffing, as Transparent states it.                        *)
EscapesOf(inner) == {k \in DOMAIN inner : inner[k] = HDLC_CONTROL_ESCAPE}

PlainOf(inner) ==
  [k \in DOMAIN inner |->
     IF k \in EscapesOf(inner) THEN <<>>
     ELSE IF k - 1 \in EscapesOf(inner) THEN <<Flip20(inner[k])>>
     ELSE <<inner[k]>>]

Restores(inner, bytes) ==
  /\ inner \in Seq(Byte)
  /\ \A k \in DOMAIN inner : inner[k] # HDLC_FLAG_SEQUENCE
  /\ \A k \in EscapesOf(inner) :
       /\ k < Len(inner)
       /\ Flip20(inner[k + 1]) \in {HDLC_FLAG_SEQUENCE, HDLC_CONTROL_ESCAPE}
  /\ FlattenSeq(PlainOf(inner)) = bytes

LEMMA PlainType ==
  ASSUME NEW inner \in Seq(Byte)
  PROVE  PlainOf(inner) \in Seq(Seq(Byte)) /\ Len(PlainOf(inner)) = Len(inner)
<1>1. \A k \in 1 .. Len(inner) : inner[k] \in Byte /\ Flip20(inner[k]) \in Byte
  BY ElementOfSeq, Flip20Type
<1>2. \A k \in 1 .. Len(inner) :
        /\ <<>> \in Seq(Byte) /\ <<Flip20(inner[k])>> \in Seq(Byte)
        /\ <<inner[k]>> \in Seq(Byte)
  BY <1>1
<1> DEFINE piece(k) == IF k \in EscapesOf(inner) THEN <<>>
                       ELSE IF k - 1 \in EscapesOf(inner) THEN <<Flip20(inner[k])>>
                       ELSE <<inner[k]>>
<1>3. \A k \in 1 .. Len(inner) : piece(k) \in Seq(Byte)
  BY <1>2
<1>4. PlainOf(inner) = [k \in 1 .. Len(inner) |-> piece(k)]
  BY DEF PlainOf
<1> HIDE DEF piece
<1> QED
  BY <1>3, <1>4

(* One byte more is one piece more; it depends on the byte before it.      *)
PieceOf(inner, b) ==
  IF b = HDLC_CONTROL_ESCAPE THEN <<>>
  ELSE IF Len(inner) \in EscapesOf(inner) THEN <<Flip20(b)>>
  ELSE <<b>>

LEMMA PlainAppend ==
  ASSUME NEW inner \in Seq(Byte), NEW b \in Byte
  PROVE  /\ EscapesOf(Append(inner, b))
              = EscapesOf(inner) \cup
                (IF b = HDLC_CONTROL_ESCAPE THEN {Len(inner) + 1} ELSE {})
         /\ PieceOf(inner, b) \in Seq(Byte)
         /\ PlainOf(Append(inner, b)) = Append(PlainOf(inner), PieceOf(inner, b))
<1> DEFINE n == Len(inner)
           more == Append(inner, b)
           piece == PieceOf(inner, b)
           plain == PlainOf(inner)
           longer == PlainOf(more)
<1>1. /\ n \in Nat /\ DOMAIN inner = 1 .. n /\ DOMAIN more = 1 .. n + 1
      /\ more \in Seq(Byte) /\ Len(more) = n + 1 /\ more[n + 1] = b
      /\ \A k \in 1 .. n : more[k] = inner[k]
  OBVIOUS
<1> HIDE DEF n, more
<1>2. EscapesOf(more)
        = EscapesOf(inner) \cup (IF b = HDLC_CONTROL_ESCAPE THEN {n + 1} ELSE {})
  BY <1>1 DEF EscapesOf
<1>3. EscapesOf(inner) \subseteq 1 .. n
  BY <1>1 DEF EscapesOf
<1>4. piece \in Seq(Byte)
  BY Flip20Type DEF PieceOf
<1>5. /\ plain \in Seq(Seq(Byte)) /\ Len(plain) = n
      /\ longer \in Seq(Seq(Byte)) /\ Len(longer) = n + 1
  BY <1>1, PlainType DEF n
<1>6. \A k \in 1 .. n : longer[k] = plain[k]
  <2> TAKE k \in 1 .. n
  <2>1. k \in 1 .. n + 1 /\ k # n + 1 /\ k - 1 # n + 1
    BY <1>1
  <2>2. /\ k \in EscapesOf(more) <=> k \in EscapesOf(inner)
        /\ k - 1 \in EscapesOf(more) <=> k - 1 \in EscapesOf(inner)
    BY <1>2, <2>1
  <2>3. more[k] = inner[k]
    BY <1>1
  <2> QED
    BY <1>1, <2>1, <2>2, <2>3 DEF PlainOf
<1>7. longer[n + 1] = piece
  <2>1. n + 1 \in 1 .. n + 1 /\ (n + 1) - 1 = n /\ n # n + 1 /\ n + 1 \notin EscapesOf(inner)
    BY <1>1, <1>3
  <2>2. n + 1 \in EscapesOf(more) <=> b = HDLC_CONTROL_ESCAPE
    BY <1>2, <2>1
  <2>3. n \in EscapesOf(more) <=> n \in EscapesOf(inner)
    BY <1>2, <2>1
  <2>4. longer[n + 1] = IF n + 1 \in EscapesOf(more) THEN <<>>
                        ELSE IF n \in EscapesOf(more) THEN <<Flip20(b)>> ELSE <<b>>
    BY <1>1, <2>1 DEF PlainOf
  <2>5. piece = IF b = HDLC_CONTROL_ESCAPE THEN <<>>
                ELSE IF n \in EscapesOf(inner) THEN <<Flip20(b)>> ELSE <<b>>
    BY DEF PieceOf, n
  <2> QED
    BY <2>2, <2>3, <2>4, <2>5
<1> HIDE DEF piece, plain, longer
<1>8. longer = Append(plain, piece)
  <2>1. /\ Append(plain, piece) \in Seq(Seq(Byte)) /\ Len(Append(plain, piece)) = n + 1
        /\ Append(plain, piece)[n + 1] = piece
        /\ \A k \in 1 .. n : Append(plain, piece)[k] = plain[k]
    BY <1>4, <1>5, AppendProperties
  <2>2. \A k \in 1 .. n + 1 : longer[k] = Append(plain, piece)[k]
    BY <1>1, <1>6, <1>7, <2>1
  <2> QED
    BY <1>5, <2>1, <2>2, SeqEqual
<1> QED
  BY <1>2, <1>4, <1>8 DEF n, more, piece, plain, longer

(* A byte that needs no stuffing, after no escape byte.                    *)
LEMMA RestoresPlain ==
  ASSUME NEW inner, NEW bytes \in Seq(Byte), Restores(inner, bytes), NEW v \in Byte,
         v # HDLC_FLAG_SEQUENCE, v # HDLC_CONTROL_ESCAPE
  PROVE  Restores(Append(inner, v), Append(bytes, v))
<1> DEFINE n == Len(inner)
           more == Append(inner, v)
<1>1. /\ inner \in Seq(Byte) /\ n \in Nat /\ more \in Seq(Byte) /\ Len(more) = n + 1
      /\ DOMAIN more = 1 .. n + 1 /\ DOMAIN inner = 1 .. n
      /\ more[n + 1] = v /\ \A k \in 1 .. n : more[k] = inner[k]
  BY DEF Restores
<1>2. /\ EscapesOf(more) = EscapesOf(inner)
      /\ PlainOf(more) = Append(PlainOf(inner), PieceOf(inner, v))
      /\ PieceOf(inner, v) \in Seq(Byte)
  BY <1>1, PlainAppend
<1> HIDE DEF n, more
<1>3. \A k \in DOMAIN more : more[k] # HDLC_FLAG_SEQUENCE
  BY <1>1 DEF Restores
<1>4. \A k \in EscapesOf(more) :
        /\ k < Len(more)
        /\ Flip20(more[k + 1]) \in {HDLC_FLAG_SEQUENCE, HDLC_CONTROL_ESCAPE}
  <2> TAKE k \in EscapesOf(more)
  <2>1. /\ k \in 1 .. n /\ k < n
        /\ Flip20(inner[k + 1]) \in {HDLC_FLAG_SEQUENCE, HDLC_CONTROL_ESCAPE}
    BY <1>1, <1>2 DEF Restores, EscapesOf, n
  <2>2. k + 1 \in 1 .. n /\ k < n + 1
    BY <1>1, <2>1
  <2> QED
    BY <1>1, <2>1, <2>2
<1>5. PieceOf(inner, v) = <<v>>
  <2>1. Len(inner) \notin EscapesOf(inner)
    BY <1>1 DEF Restores, n
  <2> QED
    BY <2>1 DEF PieceOf
<1>6. FlattenSeq(PlainOf(more)) = FlattenSeq(PlainOf(inner)) \o <<v>>
  BY <1>1, <1>2, <1>5, PlainType, FlattenAppend
<1>7. FlattenSeq(PlainOf(more)) = Append(bytes, v)
  BY <1>6, AppendIsConcat DEF Restores
<1> QED
  BY <1>1, <1>3, <1>4, <1>7 DEF Restores, more

(* A byte that needs it.                                                   *)
LEMMA RestoresStuffed ==
  ASSUME NEW inner, NEW bytes \in Seq(Byte), Restores(inner, bytes), NEW v \in Byte,
         v \in {HDLC_FLAG_SEQUENCE, HDLC_CONTROL_ESCAPE}
  PROVE  Restores(Append(Append(inner, HDLC_CONTROL_ESCAPE), Flip20(v)), Append(bytes, v))
<1> DEFINE n == Len(inner)
           e == HDLC_CONTROL_ESCAPE
           f == Flip20(v)
           escaped == Append(inner, e)
           more == Append(escaped, f)
<1>1. /\ e \in Byte /\ f \in Byte /\ e # HDLC_FLAG_SEQUENCE
      /\ f # HDLC_CONTROL_ESCAPE /\ f # HDLC_FLAG_SEQUENCE /\ Flip20(f) = v
  <2>1. f \in Byte
    BY Flip20Type
  <2>2. v = 126 \/ v = 125
    BY DEF HDLC_FLAG_SEQUENCE, HDLC_CONTROL_ESCAPE
  <2>3. f \in {93, 94, 95} /\ Flip20(f) = v
    BY <2>2 DEF Flip20
  <2> HIDE DEF f
  <2> QED
    BY <2>1, <2>3 DEF Byte, HDLC_FLAG_SEQUENCE, HDLC_CONTROL_ESCAPE
<1> HIDE DEF e, f
<1>2. /\ inner \in Seq(Byte) /\ n \in Nat
      /\ escaped \in Seq(Byte) /\ Len(escaped) = n + 1
      /\ more \in Seq(Byte) /\ Len(more) = n + 2
      /\ DOMAIN more = 1 .. n + 2 /\ DOMAIN inner = 1 .. n
      /\ more[n + 1] = e /\ more[n + 2] = f /\ \A k \in 1 .. n : more[k] = inner[k]
  BY <1>1 DEF Restores
<1>3. /\ EscapesOf(escaped) = EscapesOf(inner) \cup {n + 1}
      /\ PlainOf(escaped) = Append(PlainOf(inner), PieceOf(inner, e))
      /\ PieceOf(inner, e) = <<>>
  BY <1>1, <1>2, PlainAppend DEF e, PieceOf
<1> HIDE DEF escaped
<1>4. /\ EscapesOf(more) = EscapesOf(escaped)
      /\ PlainOf(more) = Append(PlainOf(escaped), PieceOf(escaped, f))
      /\ PieceOf(escaped, f) \in Seq(Byte)
  <2>1. /\ EscapesOf(Append(escaped, f))
             = EscapesOf(escaped) \cup
               (IF f = HDLC_CONTROL_ESCAPE THEN {Len(escaped) + 1} ELSE {})
        /\ PlainOf(Append(escaped, f)) = Append(PlainOf(escaped), PieceOf(escaped, f))
        /\ PieceOf(escaped, f) \in Seq(Byte)
    BY <1>1, <1>2, PlainAppend
  <2>2. (IF f = HDLC_CONTROL_ESCAPE THEN {Len(escaped) + 1} ELSE {}) = {}
    BY <1>1
  <2> QED
    BY <2>1, <2>2
<1> HIDE DEF n, more
<1>5. \A k \in DOMAIN more : more[k] # HDLC_FLAG_SEQUENCE
  <2> TAKE k \in DOMAIN more
  <2>1. k \in 1 .. n \/ k = n + 1 \/ k = n + 2
    BY <1>2
  <2> QED
    BY <1>1, <1>2, <2>1 DEF Restores
<1>6. \A k \in EscapesOf(more) :
        /\ k < Len(more)
        /\ Flip20(more[k + 1]) \in {HDLC_FLAG_SEQUENCE, HDLC_CONTROL_ESCAPE}
  <2> TAKE k \in EscapesOf(more)
  <2>1. CASE k = n + 1
    <3>1. k < n + 2 /\ k + 1 = n + 2
      BY <1>2, <2>1
    <3> QED
      BY <1>1, <1>2, <3>1
  <2>2. CASE k \in EscapesOf(inner)
    <3>1. /\ k \in 1 .. n /\ k < n
          /\ Flip20(inner[k + 1]) \in {HDLC_FLAG_SEQUENCE, HDLC_CONTROL_ESCAPE}
      BY <1>2, <2>2 DEF Restores, EscapesOf, n
    <3>2. k + 1 \in 1 .. n /\ k < n + 2
      BY <1>2, <3>1
    <3> QED
      BY <1>2, <3>1, <3>2
  <2> QED
    BY <1>3, <1>4, <2>1, <2>2
<1>7. PieceOf(escaped, f) = <<v>>
  <2>1. Len(escaped) \in EscapesOf(escaped)
    BY <1>2, <1>3
  <2> QED
    BY <1>1, <2>1 DEF PieceOf
<1>8. FlattenSeq(PlainOf(escaped)) = bytes
  <2>1. /\ <<>> \in Seq(Byte) /\ PlainOf(inner) \in Seq(Seq(Byte))
        /\ FlattenSeq(PlainOf(inner)) = bytes
    BY <1>2, PlainType DEF Restores
  <2>2. FlattenSeq(PlainOf(escaped)) = FlattenSeq(PlainOf(inner)) \o <<>>
    BY <1>3, <2>1, FlattenAppend
  <2> QED
    BY <2>1, <2>2, ConcatEmptySeq
<1>9. FlattenSeq(PlainOf(more)) = bytes \o <<v>>
  <2>1. PlainOf(escaped) \in Seq(Seq(Byte)) /\ <<v>> \in Seq(Byte)
    BY <1>2, PlainType
  <2> QED
    BY <1>4, <1>7, <1>8, <2>1, FlattenAppend
<1>10. FlattenSeq(PlainOf(more)) = Append(bytes, v)
  BY <1>9, AppendIsConcat
<1> QED
  BY <1>2, <1>5, <1>6, <1>10 DEF Restores, more, escaped, e, f

LEMMA StuffedRestores == \A bytes \in Seq(Byte) : Restores(Stuffed(bytes), bytes)
<1> DEFINE T == {bytes \in Seq(Byte) : Restores(Stuffed(bytes), bytes)}
<1>1. <<>> \in T
  <2>1. <<>> \in Seq(Byte) /\ EscapesOf(<<>>) = {} /\ PlainOf(<<>>) = <<>>
    BY DEF EscapesOf, PlainOf
  <2>2. Restores(<<>>, <<>>)
    BY <2>1, FlattenEmpty DEF Restores
  <2>3. Restores(Stuffed(<<>>), <<>>)
    BY <2>2, StuffedEmpty
  <2> QED
    BY <2>1, <2>3, Zenon
<1>2. \A bytes \in Seq(Byte), v \in Byte : bytes \in T => Append(bytes, v) \in T
  <2> SUFFICES ASSUME NEW bytes \in Seq(Byte), NEW v \in Byte, bytes \in T
               PROVE  Append(bytes, v) \in T
    OBVIOUS
  <2> DEFINE inner == Stuffed(bytes)
  <2>1. Stuffed(Append(bytes, v)) = inner \o hdlc_escape_value(v)
    BY StuffedAppend
  <2>2. inner \in Seq(Byte) /\ Restores(inner, bytes)
    BY StuffedType
  <2>3. Append(bytes, v) \in Seq(Byte)
    OBVIOUS
  <2> HIDE DEF inner
  <2>4. CASE v # HDLC_FLAG_SEQUENCE /\ v # HDLC_CONTROL_ESCAPE
    <3>1. hdlc_escape_value(v) = <<v>>
      BY <2>4 DEF hdlc_escape_value
    <3>2. inner \o <<v>> = Append(inner, v)
      BY <2>2, AppendIsConcat
    <3>3. Restores(Append(inner, v), Append(bytes, v))
      BY <2>2, <2>4, RestoresPlain
    <3> QED
      BY <2>1, <2>3, <3>1, <3>2, <3>3
  <2>5. CASE v \in {HDLC_FLAG_SEQUENCE, HDLC_CONTROL_ESCAPE}
    <3> DEFINE e == HDLC_CONTROL_ESCAPE
               f == Flip20(v)
    <3>1. hdlc_escape_value(v) = <<e, f>>
      BY <2>5 DEF hdlc_escape_value
    <3>2. Restores(Append(Append(inner, e), f), Append(bytes, v))
      BY <2>2, <2>5, RestoresStuffed
    <3>3. e \in Byte /\ f \in Byte
      <4>1. e \in Byte
        BY DEF Byte, HDLC_CONTROL_ESCAPE
      <4> QED
        BY <4>1, Flip20Type
    <3> HIDE DEF e, f
    <3>4. inner \o <<e, f>> = Append(Append(inner, e), f)
      <4>1. Append(<<e>>, f) = <<e, f>> /\ <<e>> \in Seq(Byte)
        BY <3>3, PairAppend
      <4>2. inner \o Append(<<e>>, f) = Append(inner \o <<e>>, f)
        BY <2>2, <3>3, <4>1
      <4>3. inner \o <<e>> = Append(inner, e)
        BY <2>2, <3>3, AppendIsConcat
      <4> QED
        BY <4>1, <4>2, <4>3
    <3> QED
      BY <2>1, <2>3, <3>1, <3>2, <3>4
  <2> QED
    BY <2>4, <2>5
<1> HIDE DEF T
<1>3. \A bytes \in Seq(Byte) : bytes \in T
  BY <1>1, <1>2, SeqSetInduction
<1> QED
  BY <1>3 DEF T

(* Byte stuffing is transparent, for every control field and payload: no   *)
(* flag inside a frame, and removing the stuffing gives the body and the   *)
(* fcs back.                                                               *)
THEOREM StuffingTransparent == Spec => []Transparent
<1>1. ASSUME IInv PROVE Transparent
  <2> DEFINE bytes == FrameBody(header, data) \o FcsTrailer(fcs)
             flag == <<HDLC_FLAG_SEQUENCE>>
             frame == hdlc_frame_data(header, data)
             inner == SubSeq(frame, 2, Len(frame) - 1)
             stuffed == Stuffed(bytes)
  <2>1. header \in Control /\ data \in Seq(Byte) /\ fcs \in FcsValue /\ RegisterOfBody
    BY <1>1 DEF IInv
  <2>2. bytes \in Seq(Byte)
    <3>1. FrameBody(header, data) \in Seq(Byte) /\ FcsTrailer(fcs) \in Seq(Byte)
      BY <2>1, BodyType, TrailerType
    <3> QED
      BY <3>1
  <2>3. frame = flag \o stuffed \o flag
    BY <2>1 DEF hdlc_frame_data, RegisterOfBody
  <2>4. stuffed \in Seq(Byte) /\ Restores(stuffed, bytes)
    BY <2>2, StuffedType, StuffedRestores
  <2>5. flag \in Seq(Byte) /\ Len(flag) = 1
    <3>1. HDLC_FLAG_SEQUENCE \in Byte
      BY DEF HDLC_FLAG_SEQUENCE, Byte
    <3> QED
      BY <3>1
  <2> HIDE DEF bytes, flag, frame, stuffed
  <2>6. inner = stuffed
    <3> DEFINE opened == flag \o stuffed
    <3>1. /\ opened \in Seq(Byte) /\ Len(opened) = Len(stuffed) + 1
          /\ \A k \in 1 .. Len(stuffed) : opened[k + 1] = stuffed[k]
      <4>1. /\ opened \in Seq(Byte) /\ Len(opened) = Len(flag) + Len(stuffed)
            /\ \A k \in 1 .. Len(flag) + Len(stuffed) :
                 opened[k] = IF k <= Len(flag) THEN flag[k] ELSE stuffed[k - Len(flag)]
        BY <2>4, <2>5, ConcatProperties
      <4> HIDE DEF opened
      <4> QED
        BY <2>4, <2>5, <4>1
    <3>2. frame = opened \o flag
      BY <2>3
    <3> HIDE DEF opened
    <3>3. /\ frame \in Seq(Byte) /\ Len(frame) = Len(stuffed) + 2
          /\ \A k \in 1 .. Len(opened) : frame[k] = opened[k]
      <4>1. /\ frame \in Seq(Byte) /\ Len(frame) = Len(opened) + Len(flag)
            /\ \A k \in 1 .. Len(opened) + Len(flag) :
                 frame[k] = IF k <= Len(opened) THEN opened[k] ELSE flag[k - Len(opened)]
        BY <2>5, <3>1, <3>2, ConcatProperties
      <4> QED
        BY <2>4, <2>5, <3>1, <4>1
    <3>4. Len(stuffed) \in Nat /\ Len(frame) - 1 = Len(stuffed) + 1
      BY <2>4, <3>3
    <3>5. /\ inner \in Seq(Byte) /\ Len(inner) = Len(stuffed)
          /\ \A k \in 1 .. Len(stuffed) : inner[k] = frame[k + 1]
      BY <3>3, <3>4, SubSeqProperties
    <3> HIDE DEF inner
    <3>6. \A k \in 1 .. Len(stuffed) : inner[k] = stuffed[k]
      BY <3>1, <3>3, <3>4, <3>5
    <3> QED
      BY <2>4, <3>5, <3>6, SeqEqual
  <2>7. Restores(inner, bytes)
    BY <2>4, <2>6
  <2> QED
    BY <2>7 DEF Transparent, Restores, EscapesOf, PlainOf, bytes, frame
<1> QED
  BY <1>1, Invariance, PTL

=============================================================================
