----------------------------- MODULE HdlcLemmas -----------------------------
(***************************************************************************)
(* The functions of the HDLC layer keep their types, hdlc_frame_data makes *)
(* frames of a certain shape, and the steps of the decoder keep its        *)
(* invariant, whoever calls it.                                            *)
(***************************************************************************)
EXTENDS HdlcParser, Division, SequenceTheorems, WellFoundedInduction, TLAPS

----------------------------------------------------------------------------
(* Induction over numbers and over sequences, for what can be said with a  *)
(* set: the library states it for operators, which no prover instantiates. *)

LEMMA NatSetInduction ==
  ASSUME NEW T, 0 \in T, \A n \in Nat : n \in T => n + 1 \in T
  PROVE  \A n \in Nat : n \in T
<1> DEFINE bad == Nat \ T
           R == OpToRel(<, Nat)
<1>1. SUFFICES ASSUME bad # {} PROVE FALSE
  OBVIOUS
<1>2. IsWellFoundedOn(R, Nat)
  BY NatLessThanWellFounded
<1>3. bad \subseteq Nat
  OBVIOUS
<1> HIDE DEF R, bad
<1>4. PICK x \in bad : \A y \in bad : ~(<<y, x>> \in R)
  BY <1>1, <1>2, <1>3, WFMin, Zenon
<1>5. x \in Nat /\ x \notin T /\ x # 0
  BY DEF bad
<1>6. x - 1 \in Nat /\ x - 1 \notin T
  BY <1>5
<1>7. <<x - 1, x>> \in R
  BY <1>5, <1>6 DEF R, OpToRel
<1>8. x - 1 \in bad
  BY <1>6 DEF bad
<1> QED
  BY <1>4, <1>7, <1>8

(* What holds of the empty sequence, and of a longer one if of the         *)
(* shorter, holds of every sequence.                                       *)
LEMMA SeqSetInduction ==
  ASSUME NEW S, NEW T, <<>> \in T,
         \A s \in Seq(S), x \in S : s \in T => Append(s, x) \in T
  PROVE  \A s \in Seq(S) : s \in T
<1> DEFINE L == {n \in Nat : \A s \in Seq(S) : Len(s) = n => s \in T}
<1>1. 0 \in L
  <2>1. \A s \in Seq(S) : Len(s) = 0 => s = <<>>
    BY EmptySeq
  <2> QED
    BY <2>1
<1>2. \A n \in Nat : n \in L => n + 1 \in L
  <2> SUFFICES ASSUME NEW n \in Nat, n \in L, NEW s \in Seq(S), Len(s) = n + 1
               PROVE  s \in T
    OBVIOUS
  <2>1. PICK shorter \in Seq(S), x \in S : s = Append(shorter, x)
    <3>1. s # <<>>
      OBVIOUS
    <3> QED
      BY <3>1, SequenceEmptyOrAppend
  <2>2. Len(shorter) = n
    BY <2>1
  <2> QED
    BY <2>1, <2>2
<1> HIDE DEF L
<1>3. \A n \in Nat : n \in L
  BY <1>1, <1>2, NatSetInduction
<1> QED
  BY <1>3 DEF L

(* A tuple of two is what appending twice makes.                           *)
LEMMA PairAppend ==
  ASSUME NEW S, NEW a \in S, NEW c \in S
  PROVE  Append(<<>>, a) = <<a>> /\ Append(<<a>>, c) = <<a, c>>
<1> DEFINE one == <<a>>
           other == <<c>>
           pair == <<a, c>>
<1>1. /\ one \in Seq(S) /\ Len(one) = 1 /\ one[1] = a
      /\ other \in Seq(S) /\ Len(other) = 1 /\ other[1] = c
      /\ pair \in Seq(S) /\ Len(pair) = 2 /\ pair[1] = a /\ pair[2] = c
  OBVIOUS
<1>2. Append(<<>>, a) = one
  OBVIOUS
<1> HIDE DEF one, other, pair
<1>3. one \o other = pair
  <2>1. /\ one \o other \in Seq(S) /\ Len(one \o other) = 2
        /\ (one \o other)[1] = a /\ (one \o other)[2] = c
    BY <1>1, ConcatProperties
  <2> QED
    BY <1>1, <2>1, SeqEqual
<1>4. Append(one, c) = pair
  BY <1>1, <1>3, AppendIsConcat DEF other
<1> QED
  BY <1>2, <1>4 DEF one, pair

(* A set of indices that is not empty has a largest one.                   *)
LEMMA MaxOfIndices ==
  ASSUME NEW n \in Nat, NEW t \in SUBSET (1 .. n), t # {}
  PROVE  Max(t) \in t /\ \A k \in t : Max(t) >= k
<1> DEFINE T == {m \in Nat : \A u \in SUBSET (1 .. m) :
                   u # {} => \E x \in u : \A y \in u : x >= y}
<1>1. 0 \in T
  <2>1. 1 .. 0 = {}
    OBVIOUS
  <2>2. \A u \in SUBSET (1 .. 0) : u = {}
    BY <2>1, Zenon
  <2> QED
    BY <2>2
<1>2. \A m \in Nat : m \in T => m + 1 \in T
  <2> SUFFICES ASSUME NEW m \in Nat, m \in T, NEW u \in SUBSET (1 .. m + 1), u # {}
               PROVE  \E x \in u : \A y \in u : x >= y
    OBVIOUS
  <2>1. CASE m + 1 \in u
    BY <2>1
  <2>2. CASE m + 1 \notin u
    <3>1. u \in SUBSET (1 .. m)
      BY <2>2
    <3> QED
      BY <3>1
  <2> QED
    BY <2>1, <2>2
<1> HIDE DEF T
<1>3. n \in T
  BY <1>1, <1>2, NatSetInduction
<1>4. \E x \in t : \A y \in t : x >= y
  BY <1>3 DEF T
<1> QED
  BY <1>4, Zenon DEF Max

----------------------------------------------------------------------------
(* The arithmetic of fcs.c stays within bytes and 16-bit values.           *)

LEMMA XorNibbleType == \A a, b \in 0 .. 15 : XorNibble[a][b] \in 0 .. 15
<1> TAKE a, b \in 0 .. 15
<1> DEFINE Odd(w) == (a \div w + b \div w) % 2
<1>1. \A w \in {1, 2, 4, 8} : Odd(w) \in 0 .. 1
  OBVIOUS
<1>2. XorNibble[a][b] = 1 * Odd(1) + 2 * Odd(2) + 4 * Odd(4) + 8 * Odd(8)
  BY DEF XorNibble
<1> HIDE DEF Odd
<1> QED
  BY <1>1, <1>2

LEMMA XorByteType ==
  ASSUME NEW a \in Byte, NEW b \in Byte
  PROVE  XorByte(a, b) \in Byte
<1>1. /\ a \div 16 \in 0 .. 15 /\ a % 16 \in 0 .. 15
      /\ b \div 16 \in 0 .. 15 /\ b % 16 \in 0 .. 15
  BY DEF Byte
<1>2. /\ XorNibble[a \div 16][b \div 16] \in 0 .. 15
      /\ XorNibble[a % 16][b % 16] \in 0 .. 15
  BY <1>1, XorNibbleType
<1> QED
  BY <1>2 DEF XorByte, Byte

(* A 16-bit value by its bounds: the provers take the literal range apart. *)
LEMMA FcsBounds ==
  \A n : n \in FcsValue <=> n \in Int /\ 0 <= n /\ n <= FCS_INVERT_MASK
<1> DEFINE most == FCS_INVERT_MASK
<1>1. most \in Int
  BY DEF FCS_INVERT_MASK
<1>2. FcsValue = 0 .. most
  BY DEF FcsValue, FCS_INVERT_MASK
<1> HIDE DEF most
<1>3. \A n : n \in FcsValue <=> n \in Int /\ 0 <= n /\ n <= most
  BY <1>1, <1>2
<1> QED
  BY <1>3 DEF most

LEMMA SplitFcs ==
  ASSUME NEW n \in FcsValue
  PROVE  n % 256 \in Byte /\ n \div 256 \in Byte
<1>1. n \in Int /\ 0 <= n /\ n <= FCS_INVERT_MASK
  BY FcsBounds
<1>2. n % 256 \in 0 .. 255
  BY <1>1 DEF FCS_INVERT_MASK
<1>3. n \div 256 \in Int /\ n \div 256 >= 0 /\ n \div 256 <= 255
  BY <1>1 DEF FCS_INVERT_MASK
<1> QED
  BY <1>2, <1>3 DEF Byte

LEMMA JoinFcs ==
  ASSUME NEW h \in Byte, NEW l \in Byte
  PROVE  256 * h + l \in FcsValue
<1>1. h \in Int /\ 0 <= h /\ h <= 255 /\ l \in Int /\ 0 <= l /\ l <= 255
  BY DEF Byte
<1>2. 256 * h + l \in Int /\ 0 <= 256 * h + l /\ 256 * h + l <= FCS_INVERT_MASK
  BY <1>1 DEF FCS_INVERT_MASK
<1> QED
  BY <1>2, FcsBounds

LEMMA RowType ==
  \A r \in 1 .. 16 : FcsTable[r] \in Seq(FcsValue) /\ Len(FcsTable[r]) = 16
<1>1. FcsTable[1] \in Seq(FcsValue) /\ Len(FcsTable[1]) = 16
  BY FcsBounds DEF FcsTable, FCS_INVERT_MASK
<1>2. FcsTable[2] \in Seq(FcsValue) /\ Len(FcsTable[2]) = 16
  BY FcsBounds DEF FcsTable, FCS_INVERT_MASK
<1>3. FcsTable[3] \in Seq(FcsValue) /\ Len(FcsTable[3]) = 16
  BY FcsBounds DEF FcsTable, FCS_INVERT_MASK
<1>4. FcsTable[4] \in Seq(FcsValue) /\ Len(FcsTable[4]) = 16
  BY FcsBounds DEF FcsTable, FCS_INVERT_MASK
<1>5. FcsTable[5] \in Seq(FcsValue) /\ Len(FcsTable[5]) = 16
  BY FcsBounds DEF FcsTable, FCS_INVERT_MASK
<1>6. FcsTable[6] \in Seq(FcsValue) /\ Len(FcsTable[6]) = 16
  BY FcsBounds DEF FcsTable, FCS_INVERT_MASK
<1>7. FcsTable[7] \in Seq(FcsValue) /\ Len(FcsTable[7]) = 16
  BY FcsBounds DEF FcsTable, FCS_INVERT_MASK
<1>8. FcsTable[8] \in Seq(FcsValue) /\ Len(FcsTable[8]) = 16
  BY FcsBounds DEF FcsTable, FCS_INVERT_MASK
<1>9. FcsTable[9] \in Seq(FcsValue) /\ Len(FcsTable[9]) = 16
  BY FcsBounds DEF FcsTable, FCS_INVERT_MASK
<1>10. FcsTable[10] \in Seq(FcsValue) /\ Len(FcsTable[10]) = 16
  BY FcsBounds DEF FcsTable, FCS_INVERT_MASK
<1>11. FcsTable[11] \in Seq(FcsValue) /\ Len(FcsTable[11]) = 16
  BY FcsBounds DEF FcsTable, FCS_INVERT_MASK
<1>12. FcsTable[12] \in Seq(FcsValue) /\ Len(FcsTable[12]) = 16
  BY FcsBounds DEF FcsTable, FCS_INVERT_MASK
<1>13. FcsTable[13] \in Seq(FcsValue) /\ Len(FcsTable[13]) = 16
  BY FcsBounds DEF FcsTable, FCS_INVERT_MASK
<1>14. FcsTable[14] \in Seq(FcsValue) /\ Len(FcsTable[14]) = 16
  BY FcsBounds DEF FcsTable, FCS_INVERT_MASK
<1>15. FcsTable[15] \in Seq(FcsValue) /\ Len(FcsTable[15]) = 16
  BY FcsBounds DEF FcsTable, FCS_INVERT_MASK
<1>16. FcsTable[16] \in Seq(FcsValue) /\ Len(FcsTable[16]) = 16
  BY FcsBounds DEF FcsTable, FCS_INVERT_MASK
<1>17. \A r \in 1 .. 16 :
          r \in {1, 2, 3, 4, 5, 6, 7, 8} \cup {9, 10, 11, 12, 13, 14, 15, 16}
  OBVIOUS
<1> DEFINE Good(r) == FcsTable[r] \in Seq(FcsValue) /\ Len(FcsTable[r]) = 16
<1>18. /\ Good(1) /\ Good(2) /\ Good(3) /\ Good(4)
       /\ Good(5) /\ Good(6) /\ Good(7) /\ Good(8)
  BY <1>1, <1>2, <1>3, <1>4, <1>5, <1>6, <1>7, <1>8
<1>19. /\ Good(9) /\ Good(10) /\ Good(11) /\ Good(12)
       /\ Good(13) /\ Good(14) /\ Good(15) /\ Good(16)
  BY <1>9, <1>10, <1>11, <1>12, <1>13, <1>14, <1>15, <1>16
<1> HIDE DEF Good
<1>20. \A r \in 1 .. 16 : Good(r)
  BY <1>17, <1>18, <1>19
<1> QED
  BY <1>20 DEF Good

LEMMA TableType == fcstab \in [Byte -> FcsValue]
<1> SUFFICES ASSUME NEW n \in Byte
             PROVE  FcsTable[(n \div 16) + 1][(n % 16) + 1] \in FcsValue
  BY DEF fcstab
<1>1. (n \div 16) + 1 \in 1 .. 16 /\ (n % 16) + 1 \in 1 .. 16
  BY DEF Byte
<1> DEFINE row == FcsTable[(n \div 16) + 1]
           column == (n % 16) + 1
<1>2. row \in Seq(FcsValue) /\ Len(row) = 16 /\ column \in 1 .. 16
  BY <1>1, RowType
<1> HIDE DEF row, column
<1>3. row[column] \in FcsValue
  BY <1>2, ElementOfSeq
<1> QED
  BY <1>3 DEF row, column

LEMMA FcsType ==
  ASSUME NEW n \in FcsValue, NEW value \in Byte
  PROVE  calc_fcs(n, value) \in FcsValue
<1> DEFINE entry == fcstab[XorByte(n % 256, value)]
<1>1. entry \in FcsValue
  BY SplitFcs, XorByteType, TableType
<1>2. calc_fcs(n, value)
        = 256 * (entry \div 256) + XorByte(n \div 256, entry % 256)
  BY DEF calc_fcs
<1> DEFINE high == entry \div 256
           low == XorByte(n \div 256, entry % 256)
<1> HIDE DEF entry
<1>3. high \in Byte /\ low \in Byte
  BY <1>1, SplitFcs, XorByteType
<1> HIDE DEF high, low
<1>4. 256 * high + low \in FcsValue
  BY <1>3, JoinFcs
<1> QED
  BY <1>2, <1>4 DEF high, low

LEMMA Flip20Type ==
  ASSUME NEW value \in Byte
  PROVE  Flip20(value) \in Byte
  BY DEF Byte, Flip20

LEMMA ControlType ==
  ASSUME NEW value \in Byte
  PROVE  hdlc_get_control_type(value) \in Control
  BY DEF Byte, hdlc_get_control_type, Control

LEMMA WrapType ==
  ASSUME NEW n \in Int16
  PROVE  Wrap(n + 1) \in Int16
  BY IntMaxAssumption DEF Int16, Wrap

----------------------------------------------------------------------------
(* The register of the frame check sequence after a sequence of bytes.     *)

(* What FoldLeft defines by recursion over the sets of the first n indices *)
(* of a sequence.                                                          *)
FcsOver(bytes, start, n, iter) ==
  iter = [t \in SUBSET (1 .. n) |->
            IF t = {} THEN start ELSE calc_fcs(iter[t \ {Max(t)}], bytes[Max(t)])]

LEMMA FoldUnfolded ==
  ASSUME NEW bytes, NEW start, DOMAIN bytes = 1 .. Len(bytes)
  PROVE  FoldLeft(calc_fcs, start, bytes)
           = (CHOOSE iter : FcsOver(bytes, start, Len(bytes), iter))[1 .. Len(bytes)]
BY DEF FoldLeft, MapThenFoldSet, FcsOver

LEMMA FcsOverExists ==
  ASSUME NEW bytes, NEW start, NEW n \in Nat
  PROVE  \E iter : FcsOver(bytes, start, n, iter)
<1> DEFINE T == {m \in Nat : \E iter : FcsOver(bytes, start, m, iter)}
<1>1. 0 \in T
  <2> DEFINE iter == [t \in SUBSET (1 .. 0) |-> start]
  <2>1. 1 .. 0 = {}
    OBVIOUS
  <2>2. \A t \in SUBSET (1 .. 0) : t = {}
    BY <2>1, Zenon
  <2>3. FcsOver(bytes, start, 0, iter)
    BY <2>2 DEF FcsOver
  <2> QED
    BY <2>3
<1>2. \A m \in Nat : m \in T => m + 1 \in T
  <2> SUFFICES ASSUME NEW m \in Nat, m \in T PROVE m + 1 \in T
    OBVIOUS
  <2>1. PICK iter : FcsOver(bytes, start, m, iter)
    OBVIOUS
  <2> DEFINE longer == [t \in SUBSET (1 .. m + 1) |->
                          IF m + 1 \in t THEN calc_fcs(iter[t \ {m + 1}], bytes[m + 1])
                                         ELSE iter[t]]
             Step(f, t) == IF t = {} THEN start
                           ELSE calc_fcs(f[t \ {Max(t)}], bytes[Max(t)])
  <2>2. ASSUME NEW t \in SUBSET (1 .. m + 1) PROVE longer[t] = Step(longer, t)
    <3>1. CASE m + 1 \in t
      <4>1. Max(t) = m + 1
        <5>1. Max(t) \in t /\ \A k \in t : Max(t) >= k
          BY <3>1, MaxOfIndices
        <5>2. Max(t) \in 1 .. m + 1 /\ Max(t) >= m + 1
          BY <3>1, <5>1
        <5> QED
          BY <5>2
      <4>2. t \ {m + 1} \in SUBSET (1 .. m + 1) /\ m + 1 \notin t \ {m + 1}
        OBVIOUS
      <4>3. longer[t] = calc_fcs(iter[t \ {m + 1}], bytes[m + 1])
        BY <3>1
      <4>4. longer[t \ {m + 1}] = iter[t \ {m + 1}]
        BY <4>2
      <4>5. Step(longer, t) = calc_fcs(longer[t \ {m + 1}], bytes[m + 1])
        BY <3>1, <4>1
      <4> QED
        BY <4>3, <4>4, <4>5
    <3>2. CASE m + 1 \notin t
      <4>1. t \in SUBSET (1 .. m)
        BY <3>2
      <4>2. longer[t] = iter[t]
        BY <3>2
      <4>3. iter[t] = Step(iter, t)
        BY <2>1, <4>1 DEF FcsOver
      <4>4. CASE t = {}
        BY <4>2, <4>3, <4>4
      <4>5. CASE t # {}
        <5>1. t \ {Max(t)} \in SUBSET (1 .. m + 1) /\ m + 1 \notin t \ {Max(t)}
          BY <3>2
        <5>2. longer[t \ {Max(t)}] = iter[t \ {Max(t)}]
          BY <5>1
        <5> QED
          BY <4>2, <4>3, <4>5, <5>2
      <4> QED
        BY <4>4, <4>5
    <3> QED
      BY <3>1, <3>2
  <2>3. longer = [t \in SUBSET (1 .. m + 1) |-> longer[t]]
    OBVIOUS
  <2> HIDE DEF longer
  <2>4. longer = [t \in SUBSET (1 .. m + 1) |-> Step(longer, t)]
    BY <2>2, <2>3, Zenon
  <2>5. FcsOver(bytes, start, m + 1, longer)
    BY <2>4 DEF FcsOver
  <2> QED
    BY <2>5
<1> HIDE DEF T
<1>3. n \in T
  BY <1>1, <1>2, NatSetInduction
<1> QED
  BY <1>3 DEF T

(* Over the same bytes they agree, although one goes on for a byte more.   *)
LEMMA FcsOverAgree ==
  ASSUME NEW bytes, NEW more, NEW start, NEW n \in Nat,
         \A k \in 1 .. n : bytes[k] = more[k],
         NEW iter, FcsOver(bytes, start, n, iter),
         NEW longer, FcsOver(more, start, n + 1, longer)
  PROVE  iter[1 .. n] = longer[1 .. n]
<1> DEFINE T == {k \in Nat : k <= n => iter[1 .. k] = longer[1 .. k]}
<1>1. 0 \in T
  <2>1. 1 .. 0 = {} /\ {} \in SUBSET (1 .. n) /\ {} \in SUBSET (1 .. n + 1)
    OBVIOUS
  <2>2. iter[{}] = start /\ longer[{}] = start
    BY <2>1, Zenon DEF FcsOver
  <2> QED
    BY <2>1, <2>2
<1>2. \A k \in Nat : k \in T => k + 1 \in T
  <2> SUFFICES ASSUME NEW k \in Nat, k \in T, k + 1 <= n
               PROVE  iter[1 .. k + 1] = longer[1 .. k + 1]
    OBVIOUS
  <2> DEFINE t == 1 .. k + 1
  <2>1. t \in SUBSET (1 .. n) /\ t \in SUBSET (1 .. n + 1) /\ t # {} /\ k + 1 \in 1 .. n
    <3>1. k + 1 \in t /\ k + 1 \in 1 .. n
      OBVIOUS
    <3>2. t \in SUBSET (1 .. n) /\ t \in SUBSET (1 .. n + 1)
      OBVIOUS
    <3> QED
      BY <3>1, <3>2
  <2>2. Max(t) = k + 1
    <3>1. Max(t) \in t /\ \A j \in t : Max(t) >= j
      BY <2>1, MaxOfIndices, Zenon
    <3>2. k + 1 \in t
      OBVIOUS
    <3> QED
      BY <3>1, <3>2
  <2>3. t \ {k + 1} = 1 .. k
    OBVIOUS
  <2>4. iter[1 .. k] = longer[1 .. k]
    OBVIOUS
  <2> HIDE DEF t
  <2>5. iter[t] = calc_fcs(iter[t \ {Max(t)}], bytes[Max(t)])
    BY <2>1, Zenon DEF FcsOver
  <2>6. longer[t] = calc_fcs(longer[t \ {Max(t)}], more[Max(t)])
    BY <2>1, Zenon DEF FcsOver
  <2>7. bytes[k + 1] = more[k + 1]
    BY <2>1
  <2>8. iter[t] = longer[t]
    BY <2>2, <2>3, <2>4, <2>5, <2>6, <2>7
  <2> QED
    BY <2>8 DEF t
<1> HIDE DEF T
<1>3. \A k \in Nat : k \in T
  BY <1>1, <1>2, NatSetInduction
<1> QED
  BY <1>3 DEF T

(* The register after no byte, and after one byte more.                    *)
LEMMA FcsOfEmpty == ASSUME NEW start PROVE FoldLeft(calc_fcs, start, <<>>) = start
<1> DEFINE iter == CHOOSE f : FcsOver(<<>>, start, Len(<<>>), f)
<1>1. Len(<<>>) = 0 /\ DOMAIN <<>> = 1 .. 0 /\ 1 .. 0 = {}
  OBVIOUS
<1>2. FcsOver(<<>>, start, Len(<<>>), iter)
  BY <1>1, FcsOverExists, Zenon
<1> HIDE DEF iter
<1>3. iter[{}] = start
  BY <1>1, <1>2 DEF FcsOver
<1>4. FoldLeft(calc_fcs, start, <<>>) = iter[1 .. Len(<<>>)]
  BY <1>1, FoldUnfolded DEF iter
<1> QED
  BY <1>1, <1>3, <1>4

LEMMA FcsOfAppend ==
  ASSUME NEW start, NEW S, NEW bytes \in Seq(S), NEW value \in S
  PROVE  FoldLeft(calc_fcs, start, Append(bytes, value))
           = calc_fcs(FoldLeft(calc_fcs, start, bytes), value)
<1> DEFINE n == Len(bytes)
           more == Append(bytes, value)
           iter == CHOOSE f : FcsOver(bytes, start, Len(bytes), f)
           longer == CHOOSE f : FcsOver(more, start, Len(more), f)
           t == 1 .. n + 1
<1>1. /\ n \in Nat /\ DOMAIN bytes = 1 .. n
      /\ Len(more) = n + 1 /\ DOMAIN more = 1 .. n + 1
      /\ more[n + 1] = value
      /\ \A k \in 1 .. n : bytes[k] = more[k]
  OBVIOUS
<1>2. FcsOver(bytes, start, n, iter) /\ FcsOver(more, start, n + 1, longer)
  <2>1. \E f : FcsOver(bytes, start, n, f)
    BY <1>1, FcsOverExists
  <2>2. \E f : FcsOver(more, start, n + 1, f)
    BY <1>1, FcsOverExists
  <2>3. FcsOver(bytes, start, n, iter)
    BY <2>1
  <2>4. FcsOver(more, start, Len(more), longer)
    BY <2>2, <1>1
  <2> QED
    BY <1>1, <2>3, <2>4
<1>3. /\ FoldLeft(calc_fcs, start, bytes) = iter[1 .. n]
      /\ FoldLeft(calc_fcs, start, more) = longer[1 .. n + 1]
  BY <1>1, FoldUnfolded, Zenon
<1> HIDE DEF iter, longer, n, more
<1>4. iter[1 .. n] = longer[1 .. n]
  <2>1. n \in Nat /\ \A k \in 1 .. n : bytes[k] = more[k]
    BY <1>1
  <2> QED
    BY <1>2, <2>1, FcsOverAgree
<1>5. t \in SUBSET (1 .. n + 1) /\ t # {} /\ t \ {n + 1} = 1 .. n /\ n + 1 \in t
  <2>1. n \in Nat
    BY <1>1
  <2>2. n + 1 \in t
    BY <2>1
  <2>3. t \ {n + 1} = 1 .. n
    BY <2>1
  <2> QED
    BY <2>2, <2>3
<1>6. Max(t) = n + 1
  <2>1. Max(t) \in t /\ \A j \in t : Max(t) >= j
    <3>1. n + 1 \in Nat
      BY <1>1
    <3> QED
      BY <3>1, <1>5, MaxOfIndices, Zenon
  <2> QED
    BY <1>1, <1>5, <2>1
<1> HIDE DEF t
<1>7. longer[t] = calc_fcs(longer[t \ {Max(t)}], more[Max(t)])
  BY <1>2, <1>5, Zenon DEF FcsOver
<1>8. FoldLeft(calc_fcs, start, more) = calc_fcs(FoldLeft(calc_fcs, start, bytes), value)
  BY <1>1, <1>3, <1>4, <1>5, <1>6, <1>7 DEF t
<1> QED
  BY <1>8 DEF more

(* The register goes on from where it is.                                  *)
LEMMA FcsOfConcat ==
  ASSUME NEW start, NEW p \in Seq(Byte)
  PROVE  \A s \in Seq(Byte) : FoldLeft(calc_fcs, start, p \o s)
                                = FoldLeft(calc_fcs, FoldLeft(calc_fcs, start, p), s)
<1> DEFINE middle == FoldLeft(calc_fcs, start, p)
           Whole(s) == FoldLeft(calc_fcs, start, s)
<1>1. middle = Whole(p)
  OBVIOUS
<1> HIDE DEF middle
<1> DEFINE Rest(s) == FoldLeft(calc_fcs, middle, s)
           T == {s \in Seq(Byte) : Whole(p \o s) = Rest(s)}
<1>2. Rest(<<>>) = middle
  BY FcsOfEmpty
<1>3. \A s \in Seq(Byte), v \in Byte :
        /\ Whole(Append(s, v)) = calc_fcs(Whole(s), v)
        /\ Rest(Append(s, v)) = calc_fcs(Rest(s), v)
  BY FcsOfAppend
<1> HIDE DEF Whole, Rest
<1>4. <<>> \in T
  <2>1. p \o <<>> = p /\ <<>> \in Seq(Byte)
    BY ConcatEmptySeq
  <2> QED
    BY <1>1, <1>2, <2>1
<1>5. \A s \in Seq(Byte), v \in Byte : s \in T => Append(s, v) \in T
  <2> SUFFICES ASSUME NEW s \in Seq(Byte), NEW v \in Byte, s \in T
               PROVE  Append(s, v) \in T
    OBVIOUS
  <2> DEFINE ps == p \o s
  <2>1. /\ ps \in Seq(Byte) /\ Append(s, v) \in Seq(Byte)
        /\ p \o Append(s, v) = Append(ps, v)
    OBVIOUS
  <2>2. Whole(ps) = Rest(s)
    OBVIOUS
  <2> HIDE DEF ps
  <2> QED
    BY <1>3, <2>1, <2>2
<1> HIDE DEF T
<1>6. \A s \in Seq(Byte) : s \in T
  BY <1>4, <1>5, SeqSetInduction
<1> QED
  BY <1>6 DEF T, Whole, Rest, middle

(* The register after any bytes is a 16-bit value.                         *)
LEMMA FcsRange ==
  \A bytes \in Seq(Byte) : FoldLeft(calc_fcs, FCS_INIT_VALUE, bytes) \in FcsValue
<1> DEFINE Fcs(bytes) == FoldLeft(calc_fcs, FCS_INIT_VALUE, bytes)
           T == {bytes \in Seq(Byte) : Fcs(bytes) \in FcsValue}
<1>1. <<>> \in T
  <2>1. <<>> \in Seq(Byte)
    OBVIOUS
  <2>2. FCS_INIT_VALUE \in FcsValue
    BY FcsBounds DEF FCS_INIT_VALUE, FCS_INVERT_MASK
  <2>3. Fcs(<<>>) \in FcsValue
    BY <2>2, FcsOfEmpty, Zenon
  <2> QED
    BY <2>1, <2>3, Zenon
<1>2. \A bytes \in Seq(Byte), value \in Byte : bytes \in T => Append(bytes, value) \in T
  <2> SUFFICES ASSUME NEW bytes \in Seq(Byte), NEW value \in Byte, bytes \in T
               PROVE  Append(bytes, value) \in T
    OBVIOUS
  <2>1. Fcs(Append(bytes, value)) = calc_fcs(Fcs(bytes), value)
    BY FcsOfAppend
  <2>2. Fcs(bytes) \in FcsValue
    OBVIOUS
  <2>3. Append(bytes, value) \in Seq(Byte)
    OBVIOUS
  <2> HIDE DEF Fcs
  <2>4. calc_fcs(Fcs(bytes), value) \in FcsValue
    BY <2>2, FcsType
  <2> QED
    BY <2>1, <2>3, <2>4
<1> HIDE DEF T
<1>3. \A bytes \in Seq(Byte) : bytes \in T
  BY <1>1, <1>2, SeqSetInduction
<1> QED
  BY <1>3 DEF T

----------------------------------------------------------------------------
(* The register is the remainder of the division of Division.  Both are    *)
(* taken as the sets of their bits; the exclusive or is then the symmetric *)
(* difference, and a shift of the register is linear.                      *)
Registers == SUBSET (0 .. 15)

LEMMA PlusType ==
  ASSUME NEW s \in Registers, NEW t \in Registers
  PROVE  /\ Plus(s, t) \in Registers
         /\ \A k \in 0 .. 15 : k \in Plus(s, t) <=> (k \in s <=> k \notin t)
  BY DEF Plus, Registers

LEMMA RegisterEqual ==
  ASSUME NEW s \in Registers, NEW t \in Registers,
         \A k \in 0 .. 15 : k \in s <=> k \in t
  PROVE  s = t
  BY DEF Registers

LEMMA PlusShuffle ==
  ASSUME NEW s \in Registers, NEW t \in Registers, NEW u \in Registers, NEW v \in Registers
  PROVE  /\ Plus(s, t) = Plus(t, s)
         /\ Plus(Plus(s, t), u) = Plus(Plus(s, u), t)
         /\ Plus(Plus(s, t), Plus(u, v)) = Plus(Plus(s, u), Plus(t, v))
         /\ Plus(s, Plus(t, u)) = Plus(Plus(s, t), u)
<1>1. Plus(s, t) = Plus(t, s)
  BY DEF Plus
<1>2. Plus(Plus(s, t), u) = Plus(Plus(s, u), t)
  BY DEF Plus
<1>3. Plus(Plus(s, t), Plus(u, v)) = Plus(Plus(s, u), Plus(t, v))
  BY DEF Plus
<1>4. Plus(s, Plus(t, u)) = Plus(Plus(s, t), u)
  BY DEF Plus
<1> QED
  BY <1>1, <1>2, <1>3, <1>4

LEMMA PlusCancels ==
  ASSUME NEW s \in Registers, NEW t \in Registers, NEW u \in Registers,
         Plus(s, u) = Plus(t, u)
  PROVE  s = t
<1>1. \A k \in 0 .. 15 : k \in s <=> k \in t
  BY PlusType
<1> QED
  BY <1>1, RegisterEqual

(* One bit: which bits of the shifted register are 1.                      *)
LEMMA ShiftBitType ==
  ASSUME NEW s \in Registers
  PROVE  /\ ShiftBit(s) \in Registers
         /\ \A k \in 0 .. 15 : k \in ShiftBit(s)
              <=> (k + 1 \in s <=> ~(0 \in s /\ k \in Polynomial))
<1> DEFINE shifted == {k - 1 : k \in s \ {0}}
<1>1. \A k \in s : k \in 0 .. 15
  BY DEF Registers
<1>2. \A k \in 0 .. 15 : k \in shifted <=> k + 1 \in s
  <2> TAKE k \in 0 .. 15
  <2>1. ASSUME k + 1 \in s PROVE k \in shifted
    <3>1. k + 1 \in s \ {0} /\ (k + 1) - 1 = k
      BY <2>1
    <3> QED
      BY <3>1
  <2>2. ASSUME k \in shifted PROVE k + 1 \in s
    <3>1. PICK j \in s \ {0} : k = j - 1
      BY <2>2
    <3>2. j = k + 1
      BY <1>1, <3>1
    <3> QED
      BY <3>1, <3>2
  <2> QED
    BY <2>1, <2>2
<1>3. shifted \in Registers
  <2>1. \A k \in s \ {0} : k - 1 \in 0 .. 15
    BY <1>1
  <2> QED
    BY <2>1 DEF Registers
<1>4. Polynomial \in Registers
  BY DEF Polynomial, Registers
<1> HIDE DEF shifted
<1>5. ShiftBit(s) = IF 0 \in s THEN Plus(shifted, Polynomial) ELSE shifted
  BY DEF ShiftBit, shifted
<1> QED
  BY <1>2, <1>3, <1>4, <1>5, PlusType

LEMMA ShiftBitLinear ==
  ASSUME NEW s \in Registers, NEW t \in Registers
  PROVE  ShiftBit(Plus(s, t)) = Plus(ShiftBit(s), ShiftBit(t))
<1>1. Plus(s, t) \in Registers /\ ShiftBit(s) \in Registers /\ ShiftBit(t) \in Registers
  BY PlusType, ShiftBitType
<1>2. ShiftBit(Plus(s, t)) \in Registers /\ Plus(ShiftBit(s), ShiftBit(t)) \in Registers
  BY <1>1, PlusType, ShiftBitType
<1>3. ASSUME NEW k \in 0 .. 15
      PROVE  k \in ShiftBit(Plus(s, t)) <=> k \in Plus(ShiftBit(s), ShiftBit(t))
  <2>1. 0 \in Plus(s, t) <=> (0 \in s <=> 0 \notin t)
    <3>1. 0 \in 0 .. 15
      OBVIOUS
    <3> QED
      BY <3>1, PlusType
  <2>2. k + 1 \in Plus(s, t) <=> (k + 1 \in s <=> k + 1 \notin t)
    <3>1. k + 1 \in 0 .. 15 \/ k = 15
      OBVIOUS
    <3>2. 16 \notin s /\ 16 \notin t /\ 16 \notin Plus(s, t)
      BY <1>1 DEF Registers
    <3> QED
      BY <3>1, <3>2, PlusType
  <2>3. k \in ShiftBit(Plus(s, t))
          <=> (k + 1 \in Plus(s, t) <=> ~(0 \in Plus(s, t) /\ k \in Polynomial))
    BY <1>1, ShiftBitType
  <2>4. /\ k \in ShiftBit(s) <=> (k + 1 \in s <=> ~(0 \in s /\ k \in Polynomial))
        /\ k \in ShiftBit(t) <=> (k + 1 \in t <=> ~(0 \in t /\ k \in Polynomial))
    BY ShiftBitType
  <2>5. k \in Plus(ShiftBit(s), ShiftBit(t)) <=> (k \in ShiftBit(s) <=> k \notin ShiftBit(t))
    BY <1>1, PlusType
  <2> QED
    BY <2>1, <2>2, <2>3, <2>4, <2>5
<1> QED
  BY <1>2, <1>3, RegisterEqual

(* The bit that leaves can be told from bit 15 of the result, which only   *)
(* the polynomial sets: no two registers are shifted to the same one.      *)
LEMMA ShiftBitInjective ==
  ASSUME NEW s \in Registers, NEW t \in Registers, ShiftBit(s) = ShiftBit(t)
  PROVE  s = t
<1>1. 16 \notin s /\ 16 \notin t
  BY DEF Registers
<1>2. 0 \in s <=> 0 \in t
  <2>1. 15 \in 0 .. 15 /\ 15 + 1 = 16 /\ 15 \in Polynomial
    BY DEF Polynomial
  <2>2. 15 \in ShiftBit(s) <=> (16 \in s <=> ~(0 \in s))
    BY <2>1, ShiftBitType
  <2>3. 15 \in ShiftBit(t) <=> (16 \in t <=> ~(0 \in t))
    BY <2>1, ShiftBitType
  <2> QED
    BY <1>1, <2>2, <2>3
<1>3. ASSUME NEW k \in 0 .. 15 PROVE k \in s <=> k \in t
  <2>1. CASE k = 0
    BY <1>2, <2>1
  <2>2. CASE k # 0
    <3>1. PICK j \in 0 .. 15 : k = j + 1
      <4>1. k - 1 \in 0 .. 15 /\ k = (k - 1) + 1
        BY <2>2
      <4> QED
        BY <4>1
    <3>2. /\ j \in ShiftBit(s) <=> (j + 1 \in s <=> ~(0 \in s /\ j \in Polynomial))
          /\ j \in ShiftBit(t) <=> (j + 1 \in t <=> ~(0 \in t /\ j \in Polynomial))
      BY ShiftBitType
    <3> QED
      BY <1>2, <3>1, <3>2
  <2> QED
    BY <2>1, <2>2
<1> QED
  BY <1>3, RegisterEqual

Eight(register) == ShiftNibble(ShiftNibble(register))

LEMMA ShiftNibbleLinear ==
  ASSUME NEW s \in Registers, NEW t \in Registers
  PROVE  /\ ShiftNibble(s) \in Registers
         /\ ShiftNibble(Plus(s, t)) = Plus(ShiftNibble(s), ShiftNibble(t))
         /\ ShiftNibble(s) = ShiftNibble(t) => s = t
<1> DEFINE s1 == ShiftBit(s)
           s2 == ShiftBit(s1)
           s3 == ShiftBit(s2)
           t1 == ShiftBit(t)
           t2 == ShiftBit(t1)
           t3 == ShiftBit(t2)
<1>1. ShiftNibble(s) = ShiftBit(s3) /\ ShiftNibble(t) = ShiftBit(t3)
  BY DEF ShiftNibble
<1>2. s1 \in Registers /\ t1 \in Registers /\ ShiftBit(Plus(s, t)) = Plus(s1, t1)
  BY ShiftBitType, ShiftBitLinear
<1>3. s1 = t1 => s = t
  BY ShiftBitInjective
<1> HIDE DEF s1, t1
<1>4. s2 \in Registers /\ t2 \in Registers /\ ShiftBit(Plus(s1, t1)) = Plus(s2, t2)
  BY <1>2, ShiftBitType, ShiftBitLinear
<1>5. s2 = t2 => s1 = t1
  BY <1>2, ShiftBitInjective
<1> HIDE DEF s2, t2
<1>6. s3 \in Registers /\ t3 \in Registers /\ ShiftBit(Plus(s2, t2)) = Plus(s3, t3)
  BY <1>4, ShiftBitType, ShiftBitLinear
<1>7. s3 = t3 => s2 = t2
  BY <1>4, ShiftBitInjective
<1> HIDE DEF s3, t3
<1>8. /\ ShiftBit(s3) \in Registers
      /\ ShiftBit(Plus(s3, t3)) = Plus(ShiftBit(s3), ShiftBit(t3))
  BY <1>6, ShiftBitType, ShiftBitLinear
<1>9. ShiftBit(s3) = ShiftBit(t3) => s3 = t3
  BY <1>6, ShiftBitInjective
<1>10. ShiftNibble(Plus(s, t)) = ShiftBit(Plus(s3, t3))
  BY <1>2, <1>4, <1>6 DEF ShiftNibble
<1> QED
  BY <1>1, <1>3, <1>5, <1>7, <1>8, <1>9, <1>10

LEMMA EightLinear ==
  ASSUME NEW s \in Registers, NEW t \in Registers
  PROVE  /\ Eight(s) \in Registers
         /\ Eight(Plus(s, t)) = Plus(Eight(s), Eight(t))
         /\ Eight(s) = Eight(t) => s = t
<1> DEFINE s1 == ShiftNibble(s)
           t1 == ShiftNibble(t)
<1>1. /\ s1 \in Registers /\ t1 \in Registers /\ ShiftNibble(Plus(s, t)) = Plus(s1, t1)
      /\ s1 = t1 => s = t
  BY ShiftNibbleLinear
<1> HIDE DEF s1, t1
<1>2. /\ ShiftNibble(s1) \in Registers
      /\ ShiftNibble(Plus(s1, t1)) = Plus(ShiftNibble(s1), ShiftNibble(t1))
      /\ ShiftNibble(s1) = ShiftNibble(t1) => s1 = t1
  BY <1>1, ShiftNibbleLinear
<1>3. /\ Eight(s) = ShiftNibble(s1) /\ Eight(t) = ShiftNibble(t1)
      /\ Eight(Plus(s, t)) = ShiftNibble(Plus(s1, t1))
  BY <1>1 DEF Eight, s1, t1
<1> QED
  BY <1>1, <1>2, <1>3

(* The upper byte of a register is only shifted down.                      *)
LEMMA ShiftHighBits ==
  ASSUME NEW r \in SUBSET (8 .. 15), NEW m \in 0 .. 7
  PROVE  /\ {k - m : k \in r} \in Registers
         /\ ShiftBit({k - m : k \in r}) = {k - (m + 1) : k \in r}
<1> DEFINE s == {k - m : k \in r}
           u == {k - (m + 1) : k \in r}
<1>1. \A k \in r : k \in 8 .. 15 /\ k - m \in 1 .. 15 /\ k - (m + 1) \in 0 .. 15
  OBVIOUS
<1>2. s \in Registers /\ u \in Registers /\ 0 \notin s
  BY <1>1 DEF Registers
<1>3. ASSUME NEW k \in 0 .. 15 PROVE k \in u <=> k + 1 \in s
  <2>1. ASSUME k \in u PROVE k + 1 \in s
    <3>1. PICK j \in r : k = j - (m + 1)
      BY <2>1
    <3>2. k + 1 = j - m
      BY <1>1, <3>1
    <3> QED
      BY <3>2
  <2>2. ASSUME k + 1 \in s PROVE k \in u
    <3>1. PICK j \in r : k + 1 = j - m
      BY <2>2
    <3>2. k = j - (m + 1)
      BY <1>1, <3>1
    <3> QED
      BY <3>2
  <2> QED
    BY <2>1, <2>2
<1> HIDE DEF s, u
<1>4. ShiftBit(s) \in Registers /\ \A k \in 0 .. 15 : k \in ShiftBit(s) <=> k + 1 \in s
  BY <1>2, ShiftBitType
<1>5. ShiftBit(s) = u
  BY <1>2, <1>3, <1>4, RegisterEqual
<1> QED
  BY <1>2, <1>5 DEF s, u

LEMMA EightHighBits ==
  ASSUME NEW r \in SUBSET (8 .. 15)
  PROVE  r \in Registers /\ Eight(r) = {k - 8 : k \in r}
<1> DEFINE down(m) == {k - m : k \in r}
<1>1. down(0) = r
  <2>1. \A k \in r : k - 0 = k
    OBVIOUS
  <2> QED
    BY <2>1
<1>2. down(0) \in Registers
  BY <1>1 DEF Registers
<1>3. /\ 0 + 1 = 1 /\ 1 + 1 = 2 /\ 2 + 1 = 3 /\ 3 + 1 = 4
      /\ 4 + 1 = 5 /\ 5 + 1 = 6 /\ 6 + 1 = 7 /\ 7 + 1 = 8
  OBVIOUS
<1>4. \A m \in 0 .. 7 : ShiftBit(down(m)) = down(m + 1)
  BY ShiftHighBits
<1> HIDE DEF down
<1>5. /\ ShiftBit(down(0)) = down(1) /\ ShiftBit(down(1)) = down(2)
      /\ ShiftBit(down(2)) = down(3) /\ ShiftBit(down(3)) = down(4)
      /\ ShiftBit(down(4)) = down(5) /\ ShiftBit(down(5)) = down(6)
      /\ ShiftBit(down(6)) = down(7) /\ ShiftBit(down(7)) = down(8)
  <2>1. /\ 0 \in 0 .. 7 /\ 1 \in 0 .. 7 /\ 2 \in 0 .. 7 /\ 3 \in 0 .. 7
        /\ 4 \in 0 .. 7 /\ 5 \in 0 .. 7 /\ 6 \in 0 .. 7 /\ 7 \in 0 .. 7
    OBVIOUS
  <2> QED
    BY <1>3, <1>4, <2>1
<1>6. ShiftNibble(down(0)) = down(4) /\ ShiftNibble(down(4)) = down(8)
  BY <1>5 DEF ShiftNibble
<1>7. Eight(r) = down(8)
  BY <1>1, <1>6 DEF Eight
<1> QED
  BY <1>1, <1>2, <1>7 DEF down

(* The bits of a number, by their weights.                                 *)
Weight ==
  {1, 2, 4, 8, 16, 32, 64, 128, 256, 512, 1024, 2048, 4096, 8192, 16384, 32768}

BitAt(n, w) == (n \div w) % 2

(* e is the exclusive or of a and b.                                       *)
Adds(e, a, b) == \A w \in Weight : BitAt(e, w) = (BitAt(a, w) + BitAt(b, w)) % 2

LEMMA PowersOfTwo ==
  /\ 2^0 = 1 /\ 2^1 = 2 /\ 2^2 = 4 /\ 2^3 = 8
  /\ 2^4 = 16 /\ 2^5 = 32 /\ 2^6 = 64 /\ 2^7 = 128
  /\ 2^8 = 256 /\ 2^9 = 512 /\ 2^10 = 1024 /\ 2^11 = 2048
  /\ 2^12 = 4096 /\ 2^13 = 8192 /\ 2^14 = 16384 /\ 2^15 = 32768
  OBVIOUS

LEMMA Indices ==
  \A k \in 0 .. 15 :
    k \in {0, 1, 2, 3, 4, 5, 6, 7} \cup {8, 9, 10, 11, 12, 13, 14, 15}
  OBVIOUS

LEMMA WeightOfIndex == \A k \in 0 .. 15 : 2^k \in Weight
<1> DEFINE Good(k) == 2^k \in Weight
<1>1. /\ Good(0) /\ Good(1) /\ Good(2) /\ Good(3)
      /\ Good(4) /\ Good(5) /\ Good(6) /\ Good(7)
  BY PowersOfTwo DEF Weight
<1>2. /\ Good(8) /\ Good(9) /\ Good(10) /\ Good(11)
      /\ Good(12) /\ Good(13) /\ Good(14) /\ Good(15)
  BY PowersOfTwo DEF Weight
<1> HIDE DEF Good
<1>3. \A k \in 0 .. 15 : Good(k)
  BY <1>1, <1>2, Indices
<1> QED
  BY <1>3 DEF Good

LEMMA BitsType ==
  ASSUME NEW n
  PROVE  /\ Bits(n) \in Registers
         /\ \A k \in 0 .. 15 : k \in Bits(n) <=> BitAt(n, 2^k) = 1
  BY DEF Bits, BitAt, Registers

LEMMA BitRange ==
  ASSUME NEW n \in Int, NEW w \in Weight
  PROVE  BitAt(n, w) \in {0, 1}
<1>1. w \in Int /\ w > 0
  BY DEF Weight
<1>2. n \div w \in Int
  BY <1>1
<1> QED
  BY <1>2 DEF BitAt

LEMMA BitsAdd ==
  ASSUME NEW e \in Int, NEW a \in Int, NEW b \in Int, Adds(e, a, b)
  PROVE  Bits(e) = Plus(Bits(a), Bits(b))
<1>1. ASSUME NEW k \in 0 .. 15
      PROVE  k \in Bits(e) <=> k \in Plus(Bits(a), Bits(b))
  <2> DEFINE w == 2^k
  <2>1. w \in Weight
    BY WeightOfIndex
  <2>2. /\ k \in Bits(e) <=> BitAt(e, w) = 1
        /\ k \in Bits(a) <=> BitAt(a, w) = 1
        /\ k \in Bits(b) <=> BitAt(b, w) = 1
    BY BitsType
  <2> HIDE DEF w
  <2>3. BitAt(e, w) = (BitAt(a, w) + BitAt(b, w)) % 2
    BY <2>1 DEF Adds
  <2>4. BitAt(a, w) \in {0, 1} /\ BitAt(b, w) \in {0, 1}
    BY <2>1, BitRange
  <2>5. BitAt(e, w) = 1 <=> (BitAt(a, w) = 1 <=> BitAt(b, w) # 1)
    BY <2>3, <2>4
  <2>6. k \in Plus(Bits(a), Bits(b)) <=> (k \in Bits(a) <=> k \notin Bits(b))
    BY BitsType, PlusType
  <2> QED
    BY <2>2, <2>5, <2>6
<1>2. Bits(e) \in Registers /\ Plus(Bits(a), Bits(b)) \in Registers
  BY BitsType, PlusType
<1> QED
  BY <1>1, <1>2, RegisterEqual

(* A number of sixteen bits is determined by them.                         *)
LEMMA BitsInjective ==
  ASSUME NEW m \in FcsValue, NEW n \in FcsValue, Bits(m) = Bits(n)
  PROVE  m = n
<1>1. /\ m \in Int /\ 0 <= m /\ m < 65536
      /\ n \in Int /\ 0 <= n /\ n < 65536
  BY FcsBounds DEF FCS_INVERT_MASK
<1>2. \A k \in 0 .. 15 : BitAt(m, 2^k) = BitAt(n, 2^k)
  <2> TAKE k \in 0 .. 15
  <2> DEFINE w == 2^k
  <2>1. w \in Weight /\ (BitAt(m, w) = 1 <=> BitAt(n, w) = 1)
    BY WeightOfIndex, BitsType
  <2> HIDE DEF w
  <2>2. BitAt(m, w) \in {0, 1} /\ BitAt(n, w) \in {0, 1}
    BY <1>1, <2>1, BitRange
  <2>3. BitAt(m, w) = BitAt(n, w)
    BY <2>1, <2>2
  <2> QED
    BY <2>3 DEF w
<1>3. m \div 32768 = n \div 32768
  <2>1. BitAt(m, 32768) = BitAt(n, 32768)
    BY <1>2, PowersOfTwo
  <2> QED
    BY <1>1, <2>1 DEF BitAt
<1>4. m \div 16384 = n \div 16384
  <2>1. BitAt(m, 16384) = BitAt(n, 16384)
    BY <1>2, PowersOfTwo
  <2> QED
    BY <1>1, <1>3, <2>1 DEF BitAt
<1>5. m \div 8192 = n \div 8192
  <2>1. BitAt(m, 8192) = BitAt(n, 8192)
    BY <1>2, PowersOfTwo
  <2> QED
    BY <1>1, <1>4, <2>1 DEF BitAt
<1>6. m \div 4096 = n \div 4096
  <2>1. BitAt(m, 4096) = BitAt(n, 4096)
    BY <1>2, PowersOfTwo
  <2> QED
    BY <1>1, <1>5, <2>1 DEF BitAt
<1>7. m \div 2048 = n \div 2048
  <2>1. BitAt(m, 2048) = BitAt(n, 2048)
    BY <1>2, PowersOfTwo
  <2> QED
    BY <1>1, <1>6, <2>1 DEF BitAt
<1>8. m \div 1024 = n \div 1024
  <2>1. BitAt(m, 1024) = BitAt(n, 1024)
    BY <1>2, PowersOfTwo
  <2> QED
    BY <1>1, <1>7, <2>1 DEF BitAt
<1>9. m \div 512 = n \div 512
  <2>1. BitAt(m, 512) = BitAt(n, 512)
    BY <1>2, PowersOfTwo
  <2> QED
    BY <1>1, <1>8, <2>1 DEF BitAt
<1>10. m \div 256 = n \div 256
  <2>1. BitAt(m, 256) = BitAt(n, 256)
    BY <1>2, PowersOfTwo
  <2> QED
    BY <1>1, <1>9, <2>1 DEF BitAt
<1>11. m \div 128 = n \div 128
  <2>1. BitAt(m, 128) = BitAt(n, 128)
    BY <1>2, PowersOfTwo
  <2> QED
    BY <1>1, <1>10, <2>1 DEF BitAt
<1>12. m \div 64 = n \div 64
  <2>1. BitAt(m, 64) = BitAt(n, 64)
    BY <1>2, PowersOfTwo
  <2> QED
    BY <1>1, <1>11, <2>1 DEF BitAt
<1>13. m \div 32 = n \div 32
  <2>1. BitAt(m, 32) = BitAt(n, 32)
    BY <1>2, PowersOfTwo
  <2> QED
    BY <1>1, <1>12, <2>1 DEF BitAt
<1>14. m \div 16 = n \div 16
  <2>1. BitAt(m, 16) = BitAt(n, 16)
    BY <1>2, PowersOfTwo
  <2> QED
    BY <1>1, <1>13, <2>1 DEF BitAt
<1>15. m \div 8 = n \div 8
  <2>1. BitAt(m, 8) = BitAt(n, 8)
    BY <1>2, PowersOfTwo
  <2> QED
    BY <1>1, <1>14, <2>1 DEF BitAt
<1>16. m \div 4 = n \div 4
  <2>1. BitAt(m, 4) = BitAt(n, 4)
    BY <1>2, PowersOfTwo
  <2> QED
    BY <1>1, <1>15, <2>1 DEF BitAt
<1>17. m \div 2 = n \div 2
  <2>1. BitAt(m, 2) = BitAt(n, 2)
    BY <1>2, PowersOfTwo
  <2> QED
    BY <1>1, <1>16, <2>1 DEF BitAt
<1>18. m = n
  <2>1. BitAt(m, 1) = BitAt(n, 1)
    BY <1>2, PowersOfTwo
  <2> QED
    BY <1>1, <1>17, <2>1 DEF BitAt
<1> QED
  BY <1>18

LEMMA BitsOfNibble ==
  ASSUME NEW a \in 0 .. 15, NEW b \in 0 .. 15
  PROVE  /\ XorNibble[a][b] \in 0 .. 15
         /\ \A w \in {1, 2, 4, 8} :
              BitAt(XorNibble[a][b], w) = (BitAt(a, w) + BitAt(b, w)) % 2
<1> DEFINE x1 == (a + b) % 2
           x2 == (a \div 2 + b \div 2) % 2
           x4 == (a \div 4 + b \div 4) % 2
           x8 == (a \div 8 + b \div 8) % 2
           e == x1 + 2 * x2 + 4 * x4 + 8 * x8
<1>1. XorNibble[a][b] = e
  BY DEF XorNibble
<1>2. x1 \in {0, 1} /\ x2 \in {0, 1} /\ x4 \in {0, 1} /\ x8 \in {0, 1}
  OBVIOUS
<1>3. /\ (BitAt(a, 1) + BitAt(b, 1)) % 2 = x1
      /\ (BitAt(a, 2) + BitAt(b, 2)) % 2 = x2
      /\ (BitAt(a, 4) + BitAt(b, 4)) % 2 = x4
      /\ (BitAt(a, 8) + BitAt(b, 8)) % 2 = x8
  BY DEF BitAt
<1> HIDE DEF x1, x2, x4, x8
<1>4. /\ BitAt(e, 1) = x1 /\ BitAt(e, 2) = x2 /\ BitAt(e, 4) = x4 /\ BitAt(e, 8) = x8
      /\ e \in 0 .. 15
  BY <1>2 DEF BitAt
<1> HIDE DEF e
<1> QED
  BY <1>1, <1>3, <1>4

LEMMA BitsOfNibbles ==
  ASSUME NEW h \in 0 .. 15, NEW l \in 0 .. 15
  PROVE  /\ BitAt(16 * h + l, 1) = BitAt(l, 1)
         /\ BitAt(16 * h + l, 2) = BitAt(l, 2)
         /\ BitAt(16 * h + l, 4) = BitAt(l, 4)
         /\ BitAt(16 * h + l, 8) = BitAt(l, 8)
         /\ BitAt(16 * h + l, 16) = BitAt(h, 1)
         /\ BitAt(16 * h + l, 32) = BitAt(h, 2)
         /\ BitAt(16 * h + l, 64) = BitAt(h, 4)
         /\ BitAt(16 * h + l, 128) = BitAt(h, 8)
<1>1. BitAt(16 * h + l, 1) = BitAt(l, 1)
  BY DEF BitAt
<1>2. BitAt(16 * h + l, 2) = BitAt(l, 2)
  BY DEF BitAt
<1>3. BitAt(16 * h + l, 4) = BitAt(l, 4)
  BY DEF BitAt
<1>4. BitAt(16 * h + l, 8) = BitAt(l, 8)
  BY DEF BitAt
<1>5. BitAt(16 * h + l, 16) = BitAt(h, 1)
  BY DEF BitAt
<1>6. BitAt(16 * h + l, 32) = BitAt(h, 2)
  BY DEF BitAt
<1>7. BitAt(16 * h + l, 64) = BitAt(h, 4)
  BY DEF BitAt
<1>8. BitAt(16 * h + l, 128) = BitAt(h, 8)
  BY DEF BitAt
<1> QED
  BY <1>1, <1>2, <1>3, <1>4, <1>5, <1>6, <1>7, <1>8

LEMMA HighWeights ==
  ASSUME NEW a \in Byte
  PROVE  \A w \in {256, 512, 1024, 2048, 4096, 8192, 16384, 32768} : BitAt(a, w) = 0
<1>1. a \in Int /\ 0 <= a /\ a <= 255
  BY DEF Byte
<1>2. \A w \in {256, 512, 1024, 2048, 4096, 8192, 16384, 32768} : a \div w = 0
  BY <1>1
<1> QED
  BY <1>2 DEF BitAt

LEMMA BitsOfXorByte ==
  ASSUME NEW a \in Byte, NEW b \in Byte
  PROVE  XorByte(a, b) \in Byte /\ Bits(XorByte(a, b)) = Plus(Bits(a), Bits(b))
<1> DEFINE ah == a \div 16
           al == a % 16
           bh == b \div 16
           bl == b % 16
           eh == XorNibble[ah][bh]
           el == XorNibble[al][bl]
           e == XorByte(a, b)
<1>1. ah \in 0 .. 15 /\ al \in 0 .. 15 /\ bh \in 0 .. 15 /\ bl \in 0 .. 15
  BY DEF Byte
<1>2. a = 16 * ah + al /\ b = 16 * bh + bl
  BY DEF Byte
<1>3. e = 16 * eh + el
  BY DEF XorByte
<1>4. e \in Byte /\ a \in Int /\ b \in Int /\ e \in Int
  <2>1. e \in Byte
    BY XorByteType
  <2> HIDE DEF e
  <2> QED
    BY <2>1 DEF Byte
<1> HIDE DEF ah, al, bh, bl, e
<1>5. /\ eh \in 0 .. 15 /\ el \in 0 .. 15
      /\ \A w \in {1, 2, 4, 8} :
           /\ BitAt(eh, w) = (BitAt(ah, w) + BitAt(bh, w)) % 2
           /\ BitAt(el, w) = (BitAt(al, w) + BitAt(bl, w)) % 2
  BY ZenonT(20), <1>1, BitsOfNibble
<1> HIDE DEF eh, el
<1> DEFINE Good(w) == BitAt(e, w) = (BitAt(a, w) + BitAt(b, w)) % 2
<1>6. Good(1) /\ Good(2) /\ Good(4) /\ Good(8)
  BY <1>1, <1>2, <1>3, <1>5, BitsOfNibbles
<1>7. Good(16) /\ Good(32) /\ Good(64) /\ Good(128)
  BY <1>1, <1>2, <1>3, <1>5, BitsOfNibbles
<1>8. \A w \in {256, 512, 1024, 2048, 4096, 8192, 16384, 32768} : Good(w)
  <2>1. \A w \in {256, 512, 1024, 2048, 4096, 8192, 16384, 32768} :
          BitAt(a, w) = 0 /\ BitAt(b, w) = 0 /\ BitAt(e, w) = 0
    BY <1>4, HighWeights
  <2> QED
    BY <2>1
<1> HIDE DEF Good
<1>9. \A w \in Weight : Good(w)
  BY <1>6, <1>7, <1>8 DEF Weight
<1>10. Adds(e, a, b)
  BY <1>9 DEF Adds, Good
<1>11. Bits(e) = Plus(Bits(a), Bits(b))
  BY <1>4, <1>10, BitsAdd
<1> QED
  BY <1>4, <1>11 DEF e

(* The two bytes of a register.                                            *)
LEMMA WeightsOfWord ==
  ASSUME NEW h \in Byte, NEW l \in Byte
  PROVE  /\ BitAt(256 * h + l, 1) = BitAt(l, 1) /\ BitAt(256 * h, 1) = 0
         /\ BitAt(256 * h + l, 2) = BitAt(l, 2) /\ BitAt(256 * h, 2) = 0
         /\ BitAt(256 * h + l, 4) = BitAt(l, 4) /\ BitAt(256 * h, 4) = 0
         /\ BitAt(256 * h + l, 8) = BitAt(l, 8) /\ BitAt(256 * h, 8) = 0
         /\ BitAt(256 * h + l, 16) = BitAt(l, 16) /\ BitAt(256 * h, 16) = 0
         /\ BitAt(256 * h + l, 32) = BitAt(l, 32) /\ BitAt(256 * h, 32) = 0
         /\ BitAt(256 * h + l, 64) = BitAt(l, 64) /\ BitAt(256 * h, 64) = 0
         /\ BitAt(256 * h + l, 128) = BitAt(l, 128) /\ BitAt(256 * h, 128) = 0
         /\ BitAt(256 * h + l, 256) = BitAt(h, 1)
         /\ BitAt(256 * h + l, 512) = BitAt(h, 2)
         /\ BitAt(256 * h + l, 1024) = BitAt(h, 4)
         /\ BitAt(256 * h + l, 2048) = BitAt(h, 8)
         /\ BitAt(256 * h + l, 4096) = BitAt(h, 16)
         /\ BitAt(256 * h + l, 8192) = BitAt(h, 32)
         /\ BitAt(256 * h + l, 16384) = BitAt(h, 64)
         /\ BitAt(256 * h + l, 32768) = BitAt(h, 128)
<1>1. h \in Int /\ 0 <= h /\ h <= 255 /\ l \in Int /\ 0 <= l /\ l <= 255
  BY DEF Byte
<1>2. BitAt(256 * h + l, 1) = BitAt(l, 1) /\ BitAt(256 * h, 1) = 0
  BY <1>1 DEF BitAt
<1>3. BitAt(256 * h + l, 2) = BitAt(l, 2) /\ BitAt(256 * h, 2) = 0
  BY <1>1 DEF BitAt
<1>4. BitAt(256 * h + l, 4) = BitAt(l, 4) /\ BitAt(256 * h, 4) = 0
  BY <1>1 DEF BitAt
<1>5. BitAt(256 * h + l, 8) = BitAt(l, 8) /\ BitAt(256 * h, 8) = 0
  BY <1>1 DEF BitAt
<1>6. BitAt(256 * h + l, 16) = BitAt(l, 16) /\ BitAt(256 * h, 16) = 0
  BY <1>1 DEF BitAt
<1>7. BitAt(256 * h + l, 32) = BitAt(l, 32) /\ BitAt(256 * h, 32) = 0
  BY <1>1 DEF BitAt
<1>8. BitAt(256 * h + l, 64) = BitAt(l, 64) /\ BitAt(256 * h, 64) = 0
  BY <1>1 DEF BitAt
<1>9. BitAt(256 * h + l, 128) = BitAt(l, 128) /\ BitAt(256 * h, 128) = 0
  BY <1>1 DEF BitAt
<1>10. BitAt(256 * h + l, 256) = BitAt(h, 1)
  BY <1>1 DEF BitAt
<1>11. BitAt(256 * h + l, 512) = BitAt(h, 2)
  BY <1>1 DEF BitAt
<1>12. BitAt(256 * h + l, 1024) = BitAt(h, 4)
  BY <1>1 DEF BitAt
<1>13. BitAt(256 * h + l, 2048) = BitAt(h, 8)
  BY <1>1 DEF BitAt
<1>14. BitAt(256 * h + l, 4096) = BitAt(h, 16)
  BY <1>1 DEF BitAt
<1>15. BitAt(256 * h + l, 8192) = BitAt(h, 32)
  BY <1>1 DEF BitAt
<1>16. BitAt(256 * h + l, 16384) = BitAt(h, 64)
  BY <1>1 DEF BitAt
<1>17. BitAt(256 * h + l, 32768) = BitAt(h, 128)
  BY <1>1 DEF BitAt
<1> QED
  BY <1>2, <1>3, <1>4, <1>5, <1>6, <1>7, <1>8, <1>9,
     <1>10, <1>11, <1>12, <1>13, <1>14, <1>15, <1>16, <1>17

LEMMA BitsOfWord ==
  ASSUME NEW h \in Byte, NEW l \in Byte
  PROVE  /\ Bits(256 * h) \in SUBSET (8 .. 15)
         /\ {k - 8 : k \in Bits(256 * h)} = Bits(h)
         /\ Bits(256 * h + l) = Plus(Bits(256 * h), Bits(l))
<1> DEFINE n == 256 * h + l
           m == 256 * h
           u == Bits(m)
           Low == {1, 2, 4, 8, 16, 32, 64, 128}
           High == {256, 512, 1024, 2048, 4096, 8192, 16384, 32768}
<1>1. h \in Int /\ l \in Int /\ m \in Int /\ n \in Int /\ 0 \in Byte /\ m + 0 = m
  BY DEF Byte
<1>2. \A w \in Low : BitAt(n, w) = BitAt(l, w) /\ BitAt(m, w) = 0
  BY WeightsOfWord
<1>3. \A w \in High : BitAt(n, w) = BitAt(m, w)
  <2>1. /\ BitAt(n, 256) = BitAt(h, 1) /\ BitAt(m + 0, 256) = BitAt(h, 1)
        /\ BitAt(n, 512) = BitAt(h, 2) /\ BitAt(m + 0, 512) = BitAt(h, 2)
        /\ BitAt(n, 1024) = BitAt(h, 4) /\ BitAt(m + 0, 1024) = BitAt(h, 4)
        /\ BitAt(n, 2048) = BitAt(h, 8) /\ BitAt(m + 0, 2048) = BitAt(h, 8)
        /\ BitAt(n, 4096) = BitAt(h, 16) /\ BitAt(m + 0, 4096) = BitAt(h, 16)
        /\ BitAt(n, 8192) = BitAt(h, 32) /\ BitAt(m + 0, 8192) = BitAt(h, 32)
        /\ BitAt(n, 16384) = BitAt(h, 64) /\ BitAt(m + 0, 16384) = BitAt(h, 64)
        /\ BitAt(n, 32768) = BitAt(h, 128) /\ BitAt(m + 0, 32768) = BitAt(h, 128)
    BY <1>1, WeightsOfWord
  <2> HIDE DEF m, n
  <2> QED
    BY <1>1, <2>1
<1>4. /\ BitAt(m, 256) = BitAt(h, 1)
      /\ BitAt(m, 512) = BitAt(h, 2)
      /\ BitAt(m, 1024) = BitAt(h, 4)
      /\ BitAt(m, 2048) = BitAt(h, 8)
      /\ BitAt(m, 4096) = BitAt(h, 16)
      /\ BitAt(m, 8192) = BitAt(h, 32)
      /\ BitAt(m, 16384) = BitAt(h, 64)
      /\ BitAt(m, 32768) = BitAt(h, 128)
  <2>1. /\ BitAt(m + 0, 256) = BitAt(h, 1)
        /\ BitAt(m + 0, 512) = BitAt(h, 2)
        /\ BitAt(m + 0, 1024) = BitAt(h, 4)
        /\ BitAt(m + 0, 2048) = BitAt(h, 8)
        /\ BitAt(m + 0, 4096) = BitAt(h, 16)
        /\ BitAt(m + 0, 8192) = BitAt(h, 32)
        /\ BitAt(m + 0, 16384) = BitAt(h, 64)
        /\ BitAt(m + 0, 32768) = BitAt(h, 128)
    BY <1>1, WeightsOfWord
  <2> HIDE DEF m
  <2> QED
    BY <1>1, <2>1
<1>5. \A w \in High : BitAt(l, w) = 0 /\ BitAt(h, w) = 0
  BY HighWeights
<1> HIDE DEF m, n
<1>6. Adds(n, m, l)
  <2>1. ASSUME NEW w \in Weight PROVE BitAt(n, w) = (BitAt(m, w) + BitAt(l, w)) % 2
    <3>1. BitAt(l, w) \in {0, 1} /\ BitAt(m, w) \in {0, 1}
      BY <1>1, BitRange
    <3>2. CASE w \in Low
      BY <1>2, <3>1, <3>2
    <3>3. CASE w \in High
      BY <1>3, <1>5, <3>1, <3>3
    <3> QED
      BY <3>2, <3>3 DEF Weight
  <2> QED
    BY <2>1 DEF Adds
<1>7. Bits(n) = Plus(u, Bits(l))
  BY <1>1, <1>6, BitsAdd
<1> DEFINE Good(k) == /\ k \in u => k >= 8
                      /\ k >= 8 => (k \in u <=> k - 8 \in Bits(h))
                      /\ k \in Bits(h) => k < 8
<1>8. Good(0) /\ Good(1) /\ Good(2) /\ Good(3) /\ Good(4) /\ Good(5) /\ Good(6) /\ Good(7)
  <2>1. \A k \in 0 .. 7 : 2^k \in Low
    <3> DEFINE Fits(k) == 2^k \in Low
    <3>1. Fits(0) /\ Fits(1) /\ Fits(2) /\ Fits(3) /\ Fits(4) /\ Fits(5) /\ Fits(6) /\ Fits(7)
      BY PowersOfTwo
    <3> HIDE DEF Fits
    <3>2. \A k \in 0 .. 7 : Fits(k)
      BY <3>1
    <3> QED
      BY <3>2 DEF Fits
  <2>2. ASSUME NEW k \in 0 .. 7 PROVE Good(k)
    <3> DEFINE w == 2^k
    <3>0. k \in 0 .. 15
      OBVIOUS
    <3>1. w \in Low
      BY <2>1, Zenon
    <3>2. k \in u <=> BitAt(m, w) = 1
      BY <3>0, BitsType
    <3> HIDE DEF w, u
    <3>3. k \notin u
      BY <1>2, <3>1, <3>2
    <3> QED
      BY <3>3
  <2> HIDE DEF Good
  <2> QED
    BY <2>2
<1>9. ASSUME NEW k \in 8 .. 15 PROVE Good(k)
  <2> DEFINE w == 2^k
             v == 2^(k - 8)
  <2>1. w \in High /\ BitAt(m, w) = BitAt(h, v)
    <3> DEFINE Same(j) == 2^j \in High /\ BitAt(m, 2^j) = BitAt(h, 2^(j - 8))
    <3>1. /\ 8 - 8 = 0 /\ 9 - 8 = 1 /\ 10 - 8 = 2 /\ 11 - 8 = 3
          /\ 12 - 8 = 4 /\ 13 - 8 = 5 /\ 14 - 8 = 6 /\ 15 - 8 = 7
      OBVIOUS
    <3>2. /\ Same(8) /\ Same(9) /\ Same(10) /\ Same(11)
          /\ Same(12) /\ Same(13) /\ Same(14) /\ Same(15)
      BY <1>4, <3>1, PowersOfTwo
    <3> HIDE DEF Same
    <3>3. Same(k)
      BY <3>2
    <3> QED
      BY <3>3 DEF Same
  <2>2. k \in 0 .. 15 /\ k - 8 \in 0 .. 15 /\ k >= 8
    OBVIOUS
  <2>3. /\ k \in u <=> BitAt(m, w) = 1
        /\ k \in Bits(h) <=> BitAt(h, w) = 1
        /\ k - 8 \in Bits(h) <=> BitAt(h, v) = 1
    BY <2>2, BitsType
  <2> HIDE DEF w, v, u
  <2> QED
    BY <1>5, <2>1, <2>2, <2>3
<1>10. \A k \in 0 .. 15 : Good(k)
  <2> HIDE DEF Good
  <2>1. \A k \in 0 .. 15 : k \in {0, 1, 2, 3, 4, 5, 6, 7} \cup 8 .. 15
    OBVIOUS
  <2> QED
    BY <1>8, <1>9, <2>1
<1>11. u \in SUBSET (0 .. 15) /\ Bits(h) \in SUBSET (0 .. 15)
  BY BitsType DEF Registers
<1> HIDE DEF u
<1>12. u \in SUBSET (8 .. 15)
  BY <1>10, <1>11
<1>13. {k - 8 : k \in u} = Bits(h)
  <2>1. ASSUME NEW k \in u PROVE k - 8 \in Bits(h)
    BY <1>10, <1>11, <1>12
  <2>2. ASSUME NEW j \in Bits(h) PROVE \E k \in u : j = k - 8
    <3>1. j \in 0 .. 7 /\ j + 8 \in 0 .. 15 /\ (j + 8) - 8 = j
      BY <1>10, <1>11
    <3>2. j + 8 \in u
      BY <1>10, <3>1
    <3> QED
      BY <3>1, <3>2
  <2> QED
    BY <2>1, <2>2
<1> QED
  BY <1>7, <1>12, <1>13 DEF u, m, n

(* The registers on the way of a single bit through eight shifts.           *)
LEMMA SingleShifts ==
  /\ ShiftBit({7}) = {6}
  /\ ShiftBit({6}) = {5}
  /\ ShiftBit({5}) = {4}
  /\ ShiftBit({4}) = {3}
  /\ ShiftBit({3}) = {2}
  /\ ShiftBit({2}) = {1}
  /\ ShiftBit({1}) = {0}
  /\ ShiftBit({0}) = {15, 10, 3}
  /\ ShiftBit({15, 10, 3}) = {14, 9, 2}
  /\ ShiftBit({14, 9, 2}) = {13, 8, 1}
  /\ ShiftBit({13, 8, 1}) = {12, 7, 0}
  /\ ShiftBit({12, 7, 0}) = {15, 11, 10, 6, 3}
  /\ ShiftBit({15, 11, 10, 6, 3}) = {14, 10, 9, 5, 2}
  /\ ShiftBit({14, 10, 9, 5, 2}) = {13, 9, 8, 4, 1}
  /\ ShiftBit({13, 9, 8, 4, 1}) = {12, 8, 7, 3, 0}
<1>1. ShiftBit({7}) = {6}
  BY DEF ShiftBit, Plus, Polynomial
<1>2. ShiftBit({6}) = {5}
  BY DEF ShiftBit, Plus, Polynomial
<1>3. ShiftBit({5}) = {4}
  BY DEF ShiftBit, Plus, Polynomial
<1>4. ShiftBit({4}) = {3}
  BY DEF ShiftBit, Plus, Polynomial
<1>5. ShiftBit({3}) = {2}
  BY DEF ShiftBit, Plus, Polynomial
<1>6. ShiftBit({2}) = {1}
  BY DEF ShiftBit, Plus, Polynomial
<1>7. ShiftBit({1}) = {0}
  BY DEF ShiftBit, Plus, Polynomial
<1>8. ShiftBit({0}) = {15, 10, 3}
  BY DEF ShiftBit, Plus, Polynomial
<1>9. ShiftBit({15, 10, 3}) = {14, 9, 2}
  BY DEF ShiftBit, Plus, Polynomial
<1>10. ShiftBit({14, 9, 2}) = {13, 8, 1}
  BY DEF ShiftBit, Plus, Polynomial
<1>11. ShiftBit({13, 8, 1}) = {12, 7, 0}
  BY DEF ShiftBit, Plus, Polynomial
<1>12. ShiftBit({12, 7, 0}) = {15, 11, 10, 6, 3}
  BY DEF ShiftBit, Plus, Polynomial
<1>13. ShiftBit({15, 11, 10, 6, 3}) = {14, 10, 9, 5, 2}
  BY DEF ShiftBit, Plus, Polynomial
<1>14. ShiftBit({14, 10, 9, 5, 2}) = {13, 9, 8, 4, 1}
  BY DEF ShiftBit, Plus, Polynomial
<1>15. ShiftBit({13, 9, 8, 4, 1}) = {12, 8, 7, 3, 0}
  BY DEF ShiftBit, Plus, Polynomial
<1> QED
  BY <1>1, <1>2, <1>3, <1>4, <1>5, <1>6, <1>7, <1>8,
     <1>9, <1>10, <1>11, <1>12, <1>13, <1>14, <1>15

LEMMA BitsOfLiterals ==
  /\ Bits(1) = {0}
  /\ Bits(2) = {1}
  /\ Bits(4) = {2}
  /\ Bits(8) = {3}
  /\ Bits(16) = {4}
  /\ Bits(32) = {5}
  /\ Bits(64) = {6}
  /\ Bits(128) = {7}
  /\ Bits(33800) = {15, 10, 3}
  /\ Bits(16900) = {14, 9, 2}
  /\ Bits(8450) = {13, 8, 1}
  /\ Bits(4225) = {12, 7, 0}
  /\ Bits(35912) = {15, 11, 10, 6, 3}
  /\ Bits(17956) = {14, 10, 9, 5, 2}
  /\ Bits(8978) = {13, 9, 8, 4, 1}
  /\ Bits(4489) = {12, 8, 7, 3, 0}
<1> DEFINE Good(n, s, k) == BitAt(n, 2^k) = IF k \in s THEN 1 ELSE 0
<1>1. ASSUME NEW n, NEW s, \A k \in 0 .. 15 : Good(n, s, k), \A k \in s : k \in 0 .. 15
      PROVE  Bits(n) = s
  <2>1. s \in Registers
    BY <1>1 DEF Registers
  <2>2. \A k \in 0 .. 15 : k \in Bits(n) <=> k \in s
    BY <1>1, BitsType
  <2> QED
    BY <2>1, <2>2, BitsType, RegisterEqual
<1>2. Bits(1) = {0}
  <2> DEFINE s == {0}
  <2>1. /\ Good(1, s, 0) /\ Good(1, s, 1) /\ Good(1, s, 2) /\ Good(1, s, 3)
       /\ Good(1, s, 4) /\ Good(1, s, 5) /\ Good(1, s, 6) /\ Good(1, s, 7)
    BY PowersOfTwo DEF BitAt
  <2>2. /\ Good(1, s, 8) /\ Good(1, s, 9) /\ Good(1, s, 10) /\ Good(1, s, 11)
       /\ Good(1, s, 12) /\ Good(1, s, 13) /\ Good(1, s, 14) /\ Good(1, s, 15)
    BY PowersOfTwo DEF BitAt
  <2>3. \A k \in s : k \in 0 .. 15
    OBVIOUS
  <2> HIDE DEF Good, s
  <2>4. \A k \in 0 .. 15 : Good(1, s, k)
    BY <2>1, <2>2, Indices
  <2>5. Bits(1) = s
    BY <1>1, <2>3, <2>4
  <2> QED
    BY <2>5 DEF s
<1>3. Bits(2) = {1}
  <2> DEFINE s == {1}
  <2>1. /\ Good(2, s, 0) /\ Good(2, s, 1) /\ Good(2, s, 2) /\ Good(2, s, 3)
       /\ Good(2, s, 4) /\ Good(2, s, 5) /\ Good(2, s, 6) /\ Good(2, s, 7)
    BY PowersOfTwo DEF BitAt
  <2>2. /\ Good(2, s, 8) /\ Good(2, s, 9) /\ Good(2, s, 10) /\ Good(2, s, 11)
       /\ Good(2, s, 12) /\ Good(2, s, 13) /\ Good(2, s, 14) /\ Good(2, s, 15)
    BY PowersOfTwo DEF BitAt
  <2>3. \A k \in s : k \in 0 .. 15
    OBVIOUS
  <2> HIDE DEF Good, s
  <2>4. \A k \in 0 .. 15 : Good(2, s, k)
    BY <2>1, <2>2, Indices
  <2>5. Bits(2) = s
    BY <1>1, <2>3, <2>4
  <2> QED
    BY <2>5 DEF s
<1>4. Bits(4) = {2}
  <2> DEFINE s == {2}
  <2>1. /\ Good(4, s, 0) /\ Good(4, s, 1) /\ Good(4, s, 2) /\ Good(4, s, 3)
       /\ Good(4, s, 4) /\ Good(4, s, 5) /\ Good(4, s, 6) /\ Good(4, s, 7)
    BY PowersOfTwo DEF BitAt
  <2>2. /\ Good(4, s, 8) /\ Good(4, s, 9) /\ Good(4, s, 10) /\ Good(4, s, 11)
       /\ Good(4, s, 12) /\ Good(4, s, 13) /\ Good(4, s, 14) /\ Good(4, s, 15)
    BY PowersOfTwo DEF BitAt
  <2>3. \A k \in s : k \in 0 .. 15
    OBVIOUS
  <2> HIDE DEF Good, s
  <2>4. \A k \in 0 .. 15 : Good(4, s, k)
    BY <2>1, <2>2, Indices
  <2>5. Bits(4) = s
    BY <1>1, <2>3, <2>4
  <2> QED
    BY <2>5 DEF s
<1>5. Bits(8) = {3}
  <2> DEFINE s == {3}
  <2>1. /\ Good(8, s, 0) /\ Good(8, s, 1) /\ Good(8, s, 2) /\ Good(8, s, 3)
       /\ Good(8, s, 4) /\ Good(8, s, 5) /\ Good(8, s, 6) /\ Good(8, s, 7)
    BY PowersOfTwo DEF BitAt
  <2>2. /\ Good(8, s, 8) /\ Good(8, s, 9) /\ Good(8, s, 10) /\ Good(8, s, 11)
       /\ Good(8, s, 12) /\ Good(8, s, 13) /\ Good(8, s, 14) /\ Good(8, s, 15)
    BY PowersOfTwo DEF BitAt
  <2>3. \A k \in s : k \in 0 .. 15
    OBVIOUS
  <2> HIDE DEF Good, s
  <2>4. \A k \in 0 .. 15 : Good(8, s, k)
    BY <2>1, <2>2, Indices
  <2>5. Bits(8) = s
    BY <1>1, <2>3, <2>4
  <2> QED
    BY <2>5 DEF s
<1>6. Bits(16) = {4}
  <2> DEFINE s == {4}
  <2>1. /\ Good(16, s, 0) /\ Good(16, s, 1) /\ Good(16, s, 2) /\ Good(16, s, 3)
       /\ Good(16, s, 4) /\ Good(16, s, 5) /\ Good(16, s, 6) /\ Good(16, s, 7)
    BY PowersOfTwo DEF BitAt
  <2>2. /\ Good(16, s, 8) /\ Good(16, s, 9) /\ Good(16, s, 10) /\ Good(16, s, 11)
       /\ Good(16, s, 12) /\ Good(16, s, 13) /\ Good(16, s, 14) /\ Good(16, s, 15)
    BY PowersOfTwo DEF BitAt
  <2>3. \A k \in s : k \in 0 .. 15
    OBVIOUS
  <2> HIDE DEF Good, s
  <2>4. \A k \in 0 .. 15 : Good(16, s, k)
    BY <2>1, <2>2, Indices
  <2>5. Bits(16) = s
    BY <1>1, <2>3, <2>4
  <2> QED
    BY <2>5 DEF s
<1>7. Bits(32) = {5}
  <2> DEFINE s == {5}
  <2>1. /\ Good(32, s, 0) /\ Good(32, s, 1) /\ Good(32, s, 2) /\ Good(32, s, 3)
       /\ Good(32, s, 4) /\ Good(32, s, 5) /\ Good(32, s, 6) /\ Good(32, s, 7)
    BY PowersOfTwo DEF BitAt
  <2>2. /\ Good(32, s, 8) /\ Good(32, s, 9) /\ Good(32, s, 10) /\ Good(32, s, 11)
       /\ Good(32, s, 12) /\ Good(32, s, 13) /\ Good(32, s, 14) /\ Good(32, s, 15)
    BY PowersOfTwo DEF BitAt
  <2>3. \A k \in s : k \in 0 .. 15
    OBVIOUS
  <2> HIDE DEF Good, s
  <2>4. \A k \in 0 .. 15 : Good(32, s, k)
    BY <2>1, <2>2, Indices
  <2>5. Bits(32) = s
    BY <1>1, <2>3, <2>4
  <2> QED
    BY <2>5 DEF s
<1>8. Bits(64) = {6}
  <2> DEFINE s == {6}
  <2>1. /\ Good(64, s, 0) /\ Good(64, s, 1) /\ Good(64, s, 2) /\ Good(64, s, 3)
       /\ Good(64, s, 4) /\ Good(64, s, 5) /\ Good(64, s, 6) /\ Good(64, s, 7)
    BY PowersOfTwo DEF BitAt
  <2>2. /\ Good(64, s, 8) /\ Good(64, s, 9) /\ Good(64, s, 10) /\ Good(64, s, 11)
       /\ Good(64, s, 12) /\ Good(64, s, 13) /\ Good(64, s, 14) /\ Good(64, s, 15)
    BY PowersOfTwo DEF BitAt
  <2>3. \A k \in s : k \in 0 .. 15
    OBVIOUS
  <2> HIDE DEF Good, s
  <2>4. \A k \in 0 .. 15 : Good(64, s, k)
    BY <2>1, <2>2, Indices
  <2>5. Bits(64) = s
    BY <1>1, <2>3, <2>4
  <2> QED
    BY <2>5 DEF s
<1>9. Bits(128) = {7}
  <2> DEFINE s == {7}
  <2>1. /\ Good(128, s, 0) /\ Good(128, s, 1) /\ Good(128, s, 2) /\ Good(128, s, 3)
       /\ Good(128, s, 4) /\ Good(128, s, 5) /\ Good(128, s, 6) /\ Good(128, s, 7)
    BY PowersOfTwo DEF BitAt
  <2>2. /\ Good(128, s, 8) /\ Good(128, s, 9) /\ Good(128, s, 10) /\ Good(128, s, 11)
       /\ Good(128, s, 12) /\ Good(128, s, 13) /\ Good(128, s, 14) /\ Good(128, s, 15)
    BY PowersOfTwo DEF BitAt
  <2>3. \A k \in s : k \in 0 .. 15
    OBVIOUS
  <2> HIDE DEF Good, s
  <2>4. \A k \in 0 .. 15 : Good(128, s, k)
    BY <2>1, <2>2, Indices
  <2>5. Bits(128) = s
    BY <1>1, <2>3, <2>4
  <2> QED
    BY <2>5 DEF s
<1>10. Bits(33800) = {15, 10, 3}
  <2> DEFINE s == {15, 10, 3}
  <2>1. /\ Good(33800, s, 0) /\ Good(33800, s, 1) /\ Good(33800, s, 2) /\ Good(33800, s, 3)
       /\ Good(33800, s, 4) /\ Good(33800, s, 5) /\ Good(33800, s, 6) /\ Good(33800, s, 7)
    BY PowersOfTwo DEF BitAt
  <2>2. /\ Good(33800, s, 8) /\ Good(33800, s, 9) /\ Good(33800, s, 10) /\ Good(33800, s, 11)
       /\ Good(33800, s, 12) /\ Good(33800, s, 13) /\ Good(33800, s, 14) /\ Good(33800, s, 15)
    BY PowersOfTwo DEF BitAt
  <2>3. \A k \in s : k \in 0 .. 15
    OBVIOUS
  <2> HIDE DEF Good, s
  <2>4. \A k \in 0 .. 15 : Good(33800, s, k)
    BY <2>1, <2>2, Indices
  <2>5. Bits(33800) = s
    BY <1>1, <2>3, <2>4
  <2> QED
    BY <2>5 DEF s
<1>11. Bits(16900) = {14, 9, 2}
  <2> DEFINE s == {14, 9, 2}
  <2>1. /\ Good(16900, s, 0) /\ Good(16900, s, 1) /\ Good(16900, s, 2) /\ Good(16900, s, 3)
       /\ Good(16900, s, 4) /\ Good(16900, s, 5) /\ Good(16900, s, 6) /\ Good(16900, s, 7)
    BY PowersOfTwo DEF BitAt
  <2>2. /\ Good(16900, s, 8) /\ Good(16900, s, 9) /\ Good(16900, s, 10) /\ Good(16900, s, 11)
       /\ Good(16900, s, 12) /\ Good(16900, s, 13) /\ Good(16900, s, 14) /\ Good(16900, s, 15)
    BY PowersOfTwo DEF BitAt
  <2>3. \A k \in s : k \in 0 .. 15
    OBVIOUS
  <2> HIDE DEF Good, s
  <2>4. \A k \in 0 .. 15 : Good(16900, s, k)
    BY <2>1, <2>2, Indices
  <2>5. Bits(16900) = s
    BY <1>1, <2>3, <2>4
  <2> QED
    BY <2>5 DEF s
<1>12. Bits(8450) = {13, 8, 1}
  <2> DEFINE s == {13, 8, 1}
  <2>1. /\ Good(8450, s, 0) /\ Good(8450, s, 1) /\ Good(8450, s, 2) /\ Good(8450, s, 3)
       /\ Good(8450, s, 4) /\ Good(8450, s, 5) /\ Good(8450, s, 6) /\ Good(8450, s, 7)
    BY PowersOfTwo DEF BitAt
  <2>2. /\ Good(8450, s, 8) /\ Good(8450, s, 9) /\ Good(8450, s, 10) /\ Good(8450, s, 11)
       /\ Good(8450, s, 12) /\ Good(8450, s, 13) /\ Good(8450, s, 14) /\ Good(8450, s, 15)
    BY PowersOfTwo DEF BitAt
  <2>3. \A k \in s : k \in 0 .. 15
    OBVIOUS
  <2> HIDE DEF Good, s
  <2>4. \A k \in 0 .. 15 : Good(8450, s, k)
    BY <2>1, <2>2, Indices
  <2>5. Bits(8450) = s
    BY <1>1, <2>3, <2>4
  <2> QED
    BY <2>5 DEF s
<1>13. Bits(4225) = {12, 7, 0}
  <2> DEFINE s == {12, 7, 0}
  <2>1. /\ Good(4225, s, 0) /\ Good(4225, s, 1) /\ Good(4225, s, 2) /\ Good(4225, s, 3)
       /\ Good(4225, s, 4) /\ Good(4225, s, 5) /\ Good(4225, s, 6) /\ Good(4225, s, 7)
    BY PowersOfTwo DEF BitAt
  <2>2. /\ Good(4225, s, 8) /\ Good(4225, s, 9) /\ Good(4225, s, 10) /\ Good(4225, s, 11)
       /\ Good(4225, s, 12) /\ Good(4225, s, 13) /\ Good(4225, s, 14) /\ Good(4225, s, 15)
    BY PowersOfTwo DEF BitAt
  <2>3. \A k \in s : k \in 0 .. 15
    OBVIOUS
  <2> HIDE DEF Good, s
  <2>4. \A k \in 0 .. 15 : Good(4225, s, k)
    BY <2>1, <2>2, Indices
  <2>5. Bits(4225) = s
    BY <1>1, <2>3, <2>4
  <2> QED
    BY <2>5 DEF s
<1>14. Bits(35912) = {15, 11, 10, 6, 3}
  <2> DEFINE s == {15, 11, 10, 6, 3}
  <2>1. /\ Good(35912, s, 0) /\ Good(35912, s, 1) /\ Good(35912, s, 2) /\ Good(35912, s, 3)
       /\ Good(35912, s, 4) /\ Good(35912, s, 5) /\ Good(35912, s, 6) /\ Good(35912, s, 7)
    BY PowersOfTwo DEF BitAt
  <2>2. /\ Good(35912, s, 8) /\ Good(35912, s, 9) /\ Good(35912, s, 10) /\ Good(35912, s, 11)
       /\ Good(35912, s, 12) /\ Good(35912, s, 13) /\ Good(35912, s, 14) /\ Good(35912, s, 15)
    BY PowersOfTwo DEF BitAt
  <2>3. \A k \in s : k \in 0 .. 15
    OBVIOUS
  <2> HIDE DEF Good, s
  <2>4. \A k \in 0 .. 15 : Good(35912, s, k)
    BY <2>1, <2>2, Indices
  <2>5. Bits(35912) = s
    BY <1>1, <2>3, <2>4
  <2> QED
    BY <2>5 DEF s
<1>15. Bits(17956) = {14, 10, 9, 5, 2}
  <2> DEFINE s == {14, 10, 9, 5, 2}
  <2>1. /\ Good(17956, s, 0) /\ Good(17956, s, 1) /\ Good(17956, s, 2) /\ Good(17956, s, 3)
       /\ Good(17956, s, 4) /\ Good(17956, s, 5) /\ Good(17956, s, 6) /\ Good(17956, s, 7)
    BY PowersOfTwo DEF BitAt
  <2>2. /\ Good(17956, s, 8) /\ Good(17956, s, 9) /\ Good(17956, s, 10) /\ Good(17956, s, 11)
       /\ Good(17956, s, 12) /\ Good(17956, s, 13) /\ Good(17956, s, 14) /\ Good(17956, s, 15)
    BY PowersOfTwo DEF BitAt
  <2>3. \A k \in s : k \in 0 .. 15
    OBVIOUS
  <2> HIDE DEF Good, s
  <2>4. \A k \in 0 .. 15 : Good(17956, s, k)
    BY <2>1, <2>2, Indices
  <2>5. Bits(17956) = s
    BY <1>1, <2>3, <2>4
  <2> QED
    BY <2>5 DEF s
<1>16. Bits(8978) = {13, 9, 8, 4, 1}
  <2> DEFINE s == {13, 9, 8, 4, 1}
  <2>1. /\ Good(8978, s, 0) /\ Good(8978, s, 1) /\ Good(8978, s, 2) /\ Good(8978, s, 3)
       /\ Good(8978, s, 4) /\ Good(8978, s, 5) /\ Good(8978, s, 6) /\ Good(8978, s, 7)
    BY PowersOfTwo DEF BitAt
  <2>2. /\ Good(8978, s, 8) /\ Good(8978, s, 9) /\ Good(8978, s, 10) /\ Good(8978, s, 11)
       /\ Good(8978, s, 12) /\ Good(8978, s, 13) /\ Good(8978, s, 14) /\ Good(8978, s, 15)
    BY PowersOfTwo DEF BitAt
  <2>3. \A k \in s : k \in 0 .. 15
    OBVIOUS
  <2> HIDE DEF Good, s
  <2>4. \A k \in 0 .. 15 : Good(8978, s, k)
    BY <2>1, <2>2, Indices
  <2>5. Bits(8978) = s
    BY <1>1, <2>3, <2>4
  <2> QED
    BY <2>5 DEF s
<1>17. Bits(4489) = {12, 8, 7, 3, 0}
  <2> DEFINE s == {12, 8, 7, 3, 0}
  <2>1. /\ Good(4489, s, 0) /\ Good(4489, s, 1) /\ Good(4489, s, 2) /\ Good(4489, s, 3)
       /\ Good(4489, s, 4) /\ Good(4489, s, 5) /\ Good(4489, s, 6) /\ Good(4489, s, 7)
    BY PowersOfTwo DEF BitAt
  <2>2. /\ Good(4489, s, 8) /\ Good(4489, s, 9) /\ Good(4489, s, 10) /\ Good(4489, s, 11)
       /\ Good(4489, s, 12) /\ Good(4489, s, 13) /\ Good(4489, s, 14) /\ Good(4489, s, 15)
    BY PowersOfTwo DEF BitAt
  <2>3. \A k \in s : k \in 0 .. 15
    OBVIOUS
  <2> HIDE DEF Good, s
  <2>4. \A k \in 0 .. 15 : Good(4489, s, k)
    BY <2>1, <2>2, Indices
  <2>5. Bits(4489) = s
    BY <1>1, <2>3, <2>4
  <2> QED
    BY <2>5 DEF s
<1> QED
  BY <1>2, <1>3, <1>4, <1>5, <1>6, <1>7, <1>8, <1>9,
     <1>10, <1>11, <1>12, <1>13, <1>14, <1>15, <1>16, <1>17

(* Entry e is what eight shifts make of the byte x.                        *)
Divides(x, e) == Bits(e) = Eight(Bits(x))

LEMMA DividesSum ==
  ASSUME NEW x \in Int, NEW a \in Int, NEW b \in Int, Adds(x, a, b),
         NEW e \in Int, NEW c \in Int, NEW d \in Int, Adds(e, c, d),
         Divides(a, c), Divides(b, d)
  PROVE  Divides(x, e)
<1>1. Bits(x) = Plus(Bits(a), Bits(b)) /\ Bits(e) = Plus(Bits(c), Bits(d))
  BY BitsAdd
<1>2. Eight(Plus(Bits(a), Bits(b))) = Plus(Eight(Bits(a)), Eight(Bits(b)))
  BY BitsType, EightLinear
<1> QED
  BY <1>1, <1>2 DEF Divides

LEMMA SingleBits ==
  /\ Divides(1, 4489) /\ Divides(2, 8978) /\ Divides(4, 17956) /\ Divides(8, 35912)
  /\ Divides(16, 4225) /\ Divides(32, 8450) /\ Divides(64, 16900) /\ Divides(128, 33800)
<1> DEFINE r1 == {7}
           r2 == {6}
           r3 == {5}
           r4 == {4}
           r5 == {3}
           r6 == {2}
           r7 == {1}
           r8 == {0}
           r9 == {15, 10, 3}
           r10 == {14, 9, 2}
           r11 == {13, 8, 1}
           r12 == {12, 7, 0}
           r13 == {15, 11, 10, 6, 3}
           r14 == {14, 10, 9, 5, 2}
           r15 == {13, 9, 8, 4, 1}
           r16 == {12, 8, 7, 3, 0}
<1>1. /\ ShiftBit(r1) = r2 /\ ShiftBit(r2) = r3 /\ ShiftBit(r3) = r4
      /\ ShiftBit(r4) = r5 /\ ShiftBit(r5) = r6 /\ ShiftBit(r6) = r7
      /\ ShiftBit(r7) = r8 /\ ShiftBit(r8) = r9 /\ ShiftBit(r9) = r10
      /\ ShiftBit(r10) = r11 /\ ShiftBit(r11) = r12 /\ ShiftBit(r12) = r13
      /\ ShiftBit(r13) = r14 /\ ShiftBit(r14) = r15 /\ ShiftBit(r15) = r16
  BY SingleShifts, Zenon
<1>2. /\ Bits(1) = r8 /\ Bits(2) = r7 /\ Bits(4) = r6 /\ Bits(8) = r5
      /\ Bits(16) = r4 /\ Bits(32) = r3 /\ Bits(64) = r2 /\ Bits(128) = r1
      /\ Bits(33800) = r9 /\ Bits(16900) = r10 /\ Bits(8450) = r11 /\ Bits(4225) = r12
      /\ Bits(35912) = r13 /\ Bits(17956) = r14 /\ Bits(8978) = r15 /\ Bits(4489) = r16
  BY BitsOfLiterals
<1> HIDE DEF r1, r2, r3, r4, r5, r6, r7, r8, r9, r10, r11, r12, r13, r14, r15, r16
<1>3. /\ ShiftNibble(r1) = r5 /\ ShiftNibble(r2) = r6 /\ ShiftNibble(r3) = r7
      /\ ShiftNibble(r4) = r8 /\ ShiftNibble(r5) = r9 /\ ShiftNibble(r6) = r10
      /\ ShiftNibble(r7) = r11 /\ ShiftNibble(r8) = r12 /\ ShiftNibble(r9) = r13
      /\ ShiftNibble(r10) = r14 /\ ShiftNibble(r11) = r15 /\ ShiftNibble(r12) = r16
  BY <1>1 DEF ShiftNibble
<1>4. /\ Eight(r8) = r16
      /\ Eight(r7) = r15
      /\ Eight(r6) = r14
      /\ Eight(r5) = r13
      /\ Eight(r4) = r12
      /\ Eight(r3) = r11
      /\ Eight(r2) = r10
      /\ Eight(r1) = r9
  BY <1>3 DEF Eight
<1> QED
  BY <1>2, <1>4 DEF Divides

(* The first row and the first column of the table.                        *)
LEMMA FirstRow ==
  /\ Divides(0, 0) /\ Divides(1, 4489)
  /\ Divides(2, 8978) /\ Divides(3, 12955)
  /\ Divides(4, 17956) /\ Divides(5, 22445)
  /\ Divides(6, 25910) /\ Divides(7, 29887)
  /\ Divides(8, 35912) /\ Divides(9, 40385)
  /\ Divides(10, 44890) /\ Divides(11, 48851)
  /\ Divides(12, 51820) /\ Divides(13, 56293)
  /\ Divides(14, 59774) /\ Divides(15, 63735)
<1>1. Divides(0, 0)
  <2>1. Adds(0, 1, 1) /\ Adds(0, 4489, 4489)
    BY DEF Adds, BitAt, Weight
  <2> QED
    BY <2>1, SingleBits, DividesSum
<1>2. Divides(3, 12955)
  <2>1. Adds(3, 2, 1) /\ Adds(12955, 8978, 4489)
    BY DEF Adds, BitAt, Weight
  <2> QED
    BY <2>1, SingleBits, DividesSum
<1>3. Divides(5, 22445)
  <2>1. Adds(5, 4, 1) /\ Adds(22445, 17956, 4489)
    BY DEF Adds, BitAt, Weight
  <2> QED
    BY <2>1, SingleBits, DividesSum
<1>4. Divides(6, 25910)
  <2>1. Adds(6, 4, 2) /\ Adds(25910, 17956, 8978)
    BY DEF Adds, BitAt, Weight
  <2> QED
    BY <2>1, SingleBits, DividesSum
<1>5. Divides(7, 29887)
  <2>1. Adds(7, 4, 3) /\ Adds(29887, 17956, 12955)
    BY DEF Adds, BitAt, Weight
  <2> QED
    BY <1>2, <2>1, SingleBits, DividesSum
<1>6. Divides(9, 40385)
  <2>1. Adds(9, 8, 1) /\ Adds(40385, 35912, 4489)
    BY DEF Adds, BitAt, Weight
  <2> QED
    BY <2>1, SingleBits, DividesSum
<1>7. Divides(10, 44890)
  <2>1. Adds(10, 8, 2) /\ Adds(44890, 35912, 8978)
    BY DEF Adds, BitAt, Weight
  <2> QED
    BY <2>1, SingleBits, DividesSum
<1>8. Divides(11, 48851)
  <2>1. Adds(11, 8, 3) /\ Adds(48851, 35912, 12955)
    BY DEF Adds, BitAt, Weight
  <2> QED
    BY <1>2, <2>1, SingleBits, DividesSum
<1>9. Divides(12, 51820)
  <2>1. Adds(12, 8, 4) /\ Adds(51820, 35912, 17956)
    BY DEF Adds, BitAt, Weight
  <2> QED
    BY <2>1, SingleBits, DividesSum
<1>10. Divides(13, 56293)
  <2>1. Adds(13, 8, 5) /\ Adds(56293, 35912, 22445)
    BY DEF Adds, BitAt, Weight
  <2> QED
    BY <1>3, <2>1, SingleBits, DividesSum
<1>11. Divides(14, 59774)
  <2>1. Adds(14, 8, 6) /\ Adds(59774, 35912, 25910)
    BY DEF Adds, BitAt, Weight
  <2> QED
    BY <1>4, <2>1, SingleBits, DividesSum
<1>12. Divides(15, 63735)
  <2>1. Adds(15, 8, 7) /\ Adds(63735, 35912, 29887)
    BY DEF Adds, BitAt, Weight
  <2> QED
    BY <1>5, <2>1, SingleBits, DividesSum
<1> QED
  BY SingleBits, <1>1, <1>2, <1>3, <1>4, <1>5, <1>6,
     <1>7, <1>8, <1>9, <1>10, <1>11, <1>12

LEMMA FirstColumn ==
  /\ Divides(0, 0) /\ Divides(16, 4225)
  /\ Divides(32, 8450) /\ Divides(48, 12675)
  /\ Divides(64, 16900) /\ Divides(80, 21125)
  /\ Divides(96, 25350) /\ Divides(112, 29575)
  /\ Divides(128, 33800) /\ Divides(144, 38025)
  /\ Divides(160, 42250) /\ Divides(176, 46475)
  /\ Divides(192, 50700) /\ Divides(208, 54925)
  /\ Divides(224, 59150) /\ Divides(240, 63375)
<1>1. Divides(0, 0)
  <2>1. Adds(0, 16, 16) /\ Adds(0, 4225, 4225)
    BY DEF Adds, BitAt, Weight
  <2> QED
    BY <2>1, SingleBits, DividesSum
<1>2. Divides(48, 12675)
  <2>1. Adds(48, 32, 16) /\ Adds(12675, 8450, 4225)
    BY DEF Adds, BitAt, Weight
  <2> QED
    BY <2>1, SingleBits, DividesSum
<1>3. Divides(80, 21125)
  <2>1. Adds(80, 64, 16) /\ Adds(21125, 16900, 4225)
    BY DEF Adds, BitAt, Weight
  <2> QED
    BY <2>1, SingleBits, DividesSum
<1>4. Divides(96, 25350)
  <2>1. Adds(96, 64, 32) /\ Adds(25350, 16900, 8450)
    BY DEF Adds, BitAt, Weight
  <2> QED
    BY <2>1, SingleBits, DividesSum
<1>5. Divides(112, 29575)
  <2>1. Adds(112, 64, 48) /\ Adds(29575, 16900, 12675)
    BY DEF Adds, BitAt, Weight
  <2> QED
    BY <1>2, <2>1, SingleBits, DividesSum
<1>6. Divides(144, 38025)
  <2>1. Adds(144, 128, 16) /\ Adds(38025, 33800, 4225)
    BY DEF Adds, BitAt, Weight
  <2> QED
    BY <2>1, SingleBits, DividesSum
<1>7. Divides(160, 42250)
  <2>1. Adds(160, 128, 32) /\ Adds(42250, 33800, 8450)
    BY DEF Adds, BitAt, Weight
  <2> QED
    BY <2>1, SingleBits, DividesSum
<1>8. Divides(176, 46475)
  <2>1. Adds(176, 128, 48) /\ Adds(46475, 33800, 12675)
    BY DEF Adds, BitAt, Weight
  <2> QED
    BY <1>2, <2>1, SingleBits, DividesSum
<1>9. Divides(192, 50700)
  <2>1. Adds(192, 128, 64) /\ Adds(50700, 33800, 16900)
    BY DEF Adds, BitAt, Weight
  <2> QED
    BY <2>1, SingleBits, DividesSum
<1>10. Divides(208, 54925)
  <2>1. Adds(208, 128, 80) /\ Adds(54925, 33800, 21125)
    BY DEF Adds, BitAt, Weight
  <2> QED
    BY <1>3, <2>1, SingleBits, DividesSum
<1>11. Divides(224, 59150)
  <2>1. Adds(224, 128, 96) /\ Adds(59150, 33800, 25350)
    BY DEF Adds, BitAt, Weight
  <2> QED
    BY <1>4, <2>1, SingleBits, DividesSum
<1>12. Divides(240, 63375)
  <2>1. Adds(240, 128, 112) /\ Adds(63375, 33800, 29575)
    BY DEF Adds, BitAt, Weight
  <2> QED
    BY <1>5, <2>1, SingleBits, DividesSum
<1> QED
  BY SingleBits, <1>1, <1>2, <1>3, <1>4, <1>5, <1>6,
     <1>7, <1>8, <1>9, <1>10, <1>11, <1>12

(* Every entry is the sum of the first of its row and the first of its     *)
(* column.                                                                 *)
LeftAdds(row, first) ==
  /\ Adds(row[1], row[1], first[1])
  /\ Adds(row[2], row[1], first[2])
  /\ Adds(row[3], row[1], first[3])
  /\ Adds(row[4], row[1], first[4])
  /\ Adds(row[5], row[1], first[5])
  /\ Adds(row[6], row[1], first[6])
  /\ Adds(row[7], row[1], first[7])
  /\ Adds(row[8], row[1], first[8])

RightAdds(row, first) ==
  /\ Adds(row[9], row[1], first[9])
  /\ Adds(row[10], row[1], first[10])
  /\ Adds(row[11], row[1], first[11])
  /\ Adds(row[12], row[1], first[12])
  /\ Adds(row[13], row[1], first[13])
  /\ Adds(row[14], row[1], first[14])
  /\ Adds(row[15], row[1], first[15])
  /\ Adds(row[16], row[1], first[16])

RowAdds(row, first) == LeftAdds(row, first) /\ RightAdds(row, first)

LEMMA TableAdds == \A r \in 1 .. 16 : RowAdds(FcsTable[r], FcsTable[1])
<1> DEFINE Left(r) == LeftAdds(FcsTable[r], FcsTable[1])
           Right(r) == RightAdds(FcsTable[r], FcsTable[1])
<1>1. Left(1)
  BY DEF LeftAdds, FcsTable, Adds, BitAt, Weight
<1>2. Right(1)
  BY DEF RightAdds, FcsTable, Adds, BitAt, Weight
<1>3. Left(2)
  BY DEF LeftAdds, FcsTable, Adds, BitAt, Weight
<1>4. Right(2)
  BY DEF RightAdds, FcsTable, Adds, BitAt, Weight
<1>5. Left(3)
  BY DEF LeftAdds, FcsTable, Adds, BitAt, Weight
<1>6. Right(3)
  BY DEF RightAdds, FcsTable, Adds, BitAt, Weight
<1>7. Left(4)
  BY DEF LeftAdds, FcsTable, Adds, BitAt, Weight
<1>8. Right(4)
  BY DEF RightAdds, FcsTable, Adds, BitAt, Weight
<1>9. Left(5)
  BY DEF LeftAdds, FcsTable, Adds, BitAt, Weight
<1>10. Right(5)
  BY DEF RightAdds, FcsTable, Adds, BitAt, Weight
<1>11. Left(6)
  BY DEF LeftAdds, FcsTable, Adds, BitAt, Weight
<1>12. Right(6)
  BY DEF RightAdds, FcsTable, Adds, BitAt, Weight
<1>13. Left(7)
  BY DEF LeftAdds, FcsTable, Adds, BitAt, Weight
<1>14. Right(7)
  BY DEF RightAdds, FcsTable, Adds, BitAt, Weight
<1>15. Left(8)
  BY DEF LeftAdds, FcsTable, Adds, BitAt, Weight
<1>16. Right(8)
  BY DEF RightAdds, FcsTable, Adds, BitAt, Weight
<1>17. Left(9)
  BY DEF LeftAdds, FcsTable, Adds, BitAt, Weight
<1>18. Right(9)
  BY DEF RightAdds, FcsTable, Adds, BitAt, Weight
<1>19. Left(10)
  BY DEF LeftAdds, FcsTable, Adds, BitAt, Weight
<1>20. Right(10)
  BY DEF RightAdds, FcsTable, Adds, BitAt, Weight
<1>21. Left(11)
  BY DEF LeftAdds, FcsTable, Adds, BitAt, Weight
<1>22. Right(11)
  BY DEF RightAdds, FcsTable, Adds, BitAt, Weight
<1>23. Left(12)
  BY DEF LeftAdds, FcsTable, Adds, BitAt, Weight
<1>24. Right(12)
  BY DEF RightAdds, FcsTable, Adds, BitAt, Weight
<1>25. Left(13)
  BY DEF LeftAdds, FcsTable, Adds, BitAt, Weight
<1>26. Right(13)
  BY DEF RightAdds, FcsTable, Adds, BitAt, Weight
<1>27. Left(14)
  BY DEF LeftAdds, FcsTable, Adds, BitAt, Weight
<1>28. Right(14)
  BY DEF RightAdds, FcsTable, Adds, BitAt, Weight
<1>29. Left(15)
  BY DEF LeftAdds, FcsTable, Adds, BitAt, Weight
<1>30. Right(15)
  BY DEF RightAdds, FcsTable, Adds, BitAt, Weight
<1>31. Left(16)
  BY DEF LeftAdds, FcsTable, Adds, BitAt, Weight
<1>32. Right(16)
  BY DEF RightAdds, FcsTable, Adds, BitAt, Weight
<1> HIDE DEF Left, Right
<1>33. \A r \in 1 .. 16 :
          r \in {1, 2, 3, 4, 5, 6, 7, 8} \cup {9, 10, 11, 12, 13, 14, 15, 16}
  OBVIOUS
<1>34. \A r \in 1 .. 16 : Left(r)
  BY <1>1, <1>3, <1>5, <1>7, <1>9, <1>11, <1>13, <1>15, <1>17,
     <1>19, <1>21, <1>23, <1>25, <1>27, <1>29, <1>31, <1>33
<1>35. \A r \in 1 .. 16 : Right(r)
  BY <1>2, <1>4, <1>6, <1>8, <1>10, <1>12, <1>14, <1>16, <1>18,
     <1>20, <1>22, <1>24, <1>26, <1>28, <1>30, <1>32, <1>33
<1> QED
  BY <1>34, <1>35 DEF Left, Right, RowAdds

LEMMA NibblesAdd ==
  ASSUME NEW h \in 0 .. 15, NEW l \in 0 .. 15
  PROVE  Adds(16 * h + l, 16 * h, l)
<1> DEFINE n == 16 * h + l
           m == 16 * h
           Good(w) == BitAt(n, w) = (BitAt(m, w) + BitAt(l, w)) % 2
<1>1. n \in Byte /\ m \in Byte /\ l \in Byte /\ l \in Int /\ m + 0 = m /\ 0 \in 0 .. 15
  BY DEF Byte
<1>2. /\ BitAt(n, 1) = BitAt(l, 1) /\ BitAt(n, 2) = BitAt(l, 2)
      /\ BitAt(n, 4) = BitAt(l, 4) /\ BitAt(n, 8) = BitAt(l, 8)
      /\ BitAt(n, 16) = BitAt(h, 1) /\ BitAt(n, 32) = BitAt(h, 2)
      /\ BitAt(n, 64) = BitAt(h, 4) /\ BitAt(n, 128) = BitAt(h, 8)
  BY BitsOfNibbles
<1>3. /\ BitAt(m, 1) = 0 /\ BitAt(m, 2) = 0 /\ BitAt(m, 4) = 0 /\ BitAt(m, 8) = 0
      /\ BitAt(m, 16) = BitAt(h, 1) /\ BitAt(m, 32) = BitAt(h, 2)
      /\ BitAt(m, 64) = BitAt(h, 4) /\ BitAt(m, 128) = BitAt(h, 8)
  <2>1. /\ BitAt(m + 0, 1) = BitAt(0, 1) /\ BitAt(m + 0, 2) = BitAt(0, 2)
        /\ BitAt(m + 0, 4) = BitAt(0, 4) /\ BitAt(m + 0, 8) = BitAt(0, 8)
        /\ BitAt(m + 0, 16) = BitAt(h, 1) /\ BitAt(m + 0, 32) = BitAt(h, 2)
        /\ BitAt(m + 0, 64) = BitAt(h, 4) /\ BitAt(m + 0, 128) = BitAt(h, 8)
    BY <1>1, BitsOfNibbles
  <2>2. BitAt(0, 1) = 0 /\ BitAt(0, 2) = 0 /\ BitAt(0, 4) = 0 /\ BitAt(0, 8) = 0
    BY DEF BitAt
  <2> HIDE DEF m
  <2> QED
    BY <1>1, <2>1, <2>2
<1>4. BitAt(l, 16) = 0 /\ BitAt(l, 32) = 0 /\ BitAt(l, 64) = 0 /\ BitAt(l, 128) = 0
  BY DEF BitAt
<1>5. \A w \in {256, 512, 1024, 2048, 4096, 8192, 16384, 32768} :
        BitAt(n, w) = 0 /\ BitAt(m, w) = 0 /\ BitAt(l, w) = 0
  BY <1>1, HighWeights
<1>6. \A w \in {1, 2, 4, 8} : BitAt(l, w) \in {0, 1}
  BY <1>1, BitRange DEF Weight
<1>7. \A w \in {1, 2, 4, 8} : BitAt(h, w) \in {0, 1}
  BY BitRange DEF Weight
<1> HIDE DEF n, m
<1>8. Good(1) /\ Good(2) /\ Good(4) /\ Good(8)
  BY <1>2, <1>3, <1>6
<1>9. Good(16) /\ Good(32) /\ Good(64) /\ Good(128)
  BY <1>2, <1>3, <1>4, <1>7
<1>10. \A w \in {256, 512, 1024, 2048, 4096, 8192, 16384, 32768} : Good(w)
  BY <1>5
<1> HIDE DEF Good
<1>11. \A w \in Weight : Good(w)
  BY <1>8, <1>9, <1>10 DEF Weight
<1> QED
  BY <1>11 DEF Adds, Good, n, m

(* fcstab[x] is what eight shifts make of the byte x: the table of fcs.c   *)
(* has no wrong entry.                                                     *)
LEMMA TableDivides == \A x \in Byte : Divides(x, fcstab[x])
<1> SUFFICES ASSUME NEW x \in Byte PROVE Divides(x, fcstab[x])
  OBVIOUS
<1> DEFINE h == x \div 16
           l == x % 16
           e == FcsTable[h + 1][l + 1]
           row == FcsTable[h + 1][1]
           column == FcsTable[1][l + 1]
<1>1. h \in 0 .. 15 /\ l \in 0 .. 15 /\ x = 16 * h + l /\ x \in Int
  BY DEF Byte
<1>2. fcstab[x] = e
  BY DEF fcstab
<1> HIDE DEF h, l
<1>3. Adds(x, 16 * h, l) /\ 16 * h \in Int /\ l \in Int
  BY <1>1, NibblesAdd
<1>4. e \in Int /\ row \in Int /\ column \in Int
  <2>1. \A r \in 1 .. 16 : \A c \in 1 .. 16 : FcsTable[r][c] \in FcsValue
    BY RowType, ElementOfSeq
  <2>2. h + 1 \in 1 .. 16 /\ l + 1 \in 1 .. 16 /\ 1 \in 1 .. 16
    BY <1>1
  <2>3. e \in FcsValue /\ row \in FcsValue /\ column \in FcsValue
    BY <2>1, <2>2
  <2> QED
    BY <2>3, FcsBounds
<1>5. Adds(e, row, column)
  <2> DEFINE Good(c) == Adds(FcsTable[h + 1][c], row, FcsTable[1][c])
  <2>1. RowAdds(FcsTable[h + 1], FcsTable[1])
    BY <1>1, TableAdds
  <2>2. /\ Good(1) /\ Good(2) /\ Good(3) /\ Good(4) /\ Good(5) /\ Good(6) /\ Good(7) /\ Good(8)
        /\ Good(9) /\ Good(10) /\ Good(11) /\ Good(12) /\ Good(13) /\ Good(14) /\ Good(15)
        /\ Good(16)
    BY <2>1 DEF RowAdds, LeftAdds, RightAdds
  <2> HIDE DEF Good
  <2>3. \A c \in 0 .. 15 : Good(c + 1)
    BY <2>2, Indices
  <2>4. Good(l + 1)
    BY <1>1, <2>3
  <2> QED
    BY <2>4 DEF Good
<1>6. Divides(16 * h, row)
  <2> DEFINE Good(r) == Divides(16 * r, FcsTable[r + 1][1])
  <2>1. /\ Good(0) /\ Good(1) /\ Good(2) /\ Good(3) /\ Good(4) /\ Good(5) /\ Good(6) /\ Good(7)
    BY FirstColumn DEF FcsTable
  <2>2. /\ Good(8) /\ Good(9) /\ Good(10) /\ Good(11) /\ Good(12) /\ Good(13) /\ Good(14)
        /\ Good(15)
    BY FirstColumn DEF FcsTable
  <2> HIDE DEF Good
  <2>3. Good(h)
    BY <1>1, <2>1, <2>2, Indices
  <2> QED
    BY <2>3 DEF Good
<1>7. Divides(l, column)
  <2> DEFINE Good(c) == Divides(c, FcsTable[1][c + 1])
  <2>1. /\ Good(0) /\ Good(1) /\ Good(2) /\ Good(3) /\ Good(4) /\ Good(5) /\ Good(6) /\ Good(7)
    BY FirstRow DEF FcsTable
  <2>2. /\ Good(8) /\ Good(9) /\ Good(10) /\ Good(11) /\ Good(12) /\ Good(13) /\ Good(14)
        /\ Good(15)
    BY FirstRow DEF FcsTable
  <2> HIDE DEF Good
  <2>3. Good(l)
    BY <1>1, <2>1, <2>2, Indices
  <2> QED
    BY <2>3 DEF Good
<1> HIDE DEF e, row, column
<1>8. Divides(x, e)
  BY <1>1, <1>3, <1>4, <1>5, <1>6, <1>7, DividesSum
<1> QED
  BY <1>2, <1>8

(* One table lookup is one byte of the division.                           *)
LEMMA CalcDivides ==
  ASSUME NEW f \in FcsValue, NEW b \in Byte
  PROVE  Bits(calc_fcs(f, b)) = DivideByte(Bits(f), b)
<1> DEFINE h == f \div 256
           l == f % 256
           x == XorByte(l, b)
           entry == fcstab[x]
           eh == entry \div 256
           el == entry % 256
           y == XorByte(h, el)
<1>1. h \in Byte /\ l \in Byte /\ f = 256 * h + l
  <2>1. f = 256 * h + l
    BY FcsBounds
  <2> QED
    BY <2>1, SplitFcs
<1>2. calc_fcs(f, b) = 256 * eh + y
  BY DEF calc_fcs
<1> HIDE DEF h, l
<1>3. x \in Byte /\ Bits(x) = Plus(Bits(l), Bits(b))
  BY <1>1, BitsOfXorByte
<1> HIDE DEF x
<1>4. entry \in FcsValue /\ Bits(entry) = Eight(Bits(x))
  BY <1>3, TableType, TableDivides DEF Divides
<1> HIDE DEF entry
<1>5. eh \in Byte /\ el \in Byte /\ entry = 256 * eh + el
  <2>1. entry = 256 * eh + el
    BY <1>4, FcsBounds
  <2> QED
    BY <1>4, <2>1, SplitFcs
<1> HIDE DEF eh, el
<1>6. y \in Byte /\ Bits(y) = Plus(Bits(h), Bits(el))
  BY <1>1, <1>5, BitsOfXorByte
<1> HIDE DEF y
<1> DEFINE bf == Bits(f)
           bb == Bits(b)
           bl == Bits(l)
           bh == Bits(h)
           up == Bits(256 * h)
           be == Bits(entry)
           upe == Bits(256 * eh)
           bel == Bits(el)
<1>7. /\ bf \in Registers /\ bb \in Registers /\ bl \in Registers /\ bh \in Registers
      /\ up \in Registers /\ be \in Registers /\ upe \in Registers /\ bel \in Registers
  BY BitsType
<1>8. up \in SUBSET (8 .. 15) /\ {k - 8 : k \in up} = bh /\ bf = Plus(up, bl)
  BY <1>1, BitsOfWord
<1>9. be = Plus(upe, bel)
  BY <1>5, BitsOfWord
<1>10. Bits(256 * eh + y) = Plus(upe, Plus(bh, bel))
  BY <1>5, <1>6, BitsOfWord
<1>11. Bits(x) = Plus(bl, bb) /\ be = Eight(Plus(bl, bb))
  BY <1>3, <1>4
<1> HIDE DEF bf, bb, bl, bh, up, be, upe, bel
<1>12. Eight(up) = bh
  BY <1>8, EightHighBits
<1>13. Plus(bf, bb) = Plus(up, Plus(bl, bb)) /\ Plus(bl, bb) \in Registers
  BY <1>7, <1>8, PlusShuffle, PlusType
<1>14. Eight(Plus(bf, bb)) = Plus(bh, be)
  BY <1>7, <1>11, <1>12, <1>13, EightLinear
<1>15. Plus(upe, Plus(bh, bel)) = Plus(bh, be)
  <2>1. Plus(upe, Plus(bh, bel)) = Plus(Plus(upe, bh), bel)
    BY <1>7, PlusShuffle
  <2>2. Plus(Plus(upe, bh), bel) = Plus(Plus(upe, bel), bh)
    BY <1>7, PlusShuffle
  <2>3. Plus(be, bh) = Plus(bh, be)
    BY <1>7, PlusShuffle
  <2> QED
    BY <1>9, <2>1, <2>2, <2>3
<1>16. DivideByte(bf, b) = Eight(Plus(bf, bb))
  BY DEF DivideByte, Eight, bb
<1> QED
  BY <1>2, <1>10, <1>14, <1>15, <1>16 DEF bf

(* The register tells the two arguments apart, one at a time: a change of  *)
(* one is never made up for.                                               *)
LEMMA CalcInjective ==
  ASSUME NEW f \in FcsValue, NEW g \in FcsValue, NEW a \in Byte, NEW b \in Byte,
         calc_fcs(f, a) = calc_fcs(g, b), f = g \/ a = b
  PROVE  f = g /\ a = b
<1>1. DivideByte(Bits(f), a) = DivideByte(Bits(g), b)
  <2>1. Bits(calc_fcs(f, a)) = DivideByte(Bits(f), a)
    BY CalcDivides
  <2>2. Bits(calc_fcs(g, b)) = DivideByte(Bits(g), b)
    BY CalcDivides
  <2> QED
    BY <2>1, <2>2
<1> DEFINE bf == Bits(f)
           bg == Bits(g)
           ba == Bits(a)
           bb == Bits(b)
<1>2. bf \in Registers /\ bg \in Registers /\ ba \in Registers /\ bb \in Registers
  BY BitsType
<1>3. Eight(Plus(bf, ba)) = Eight(Plus(bg, bb))
  BY <1>1 DEF DivideByte, Eight
<1>4. a \in FcsValue /\ b \in FcsValue
  <2>1. \A n \in Byte : n \in Int /\ 0 <= n /\ n <= FCS_INVERT_MASK
    BY DEF Byte, FCS_INVERT_MASK
  <2> QED
    BY <2>1, FcsBounds
<1>5. (bf = bg => f = g) /\ (ba = bb => a = b)
  BY <1>4, BitsInjective
<1>6. (f = g => bf = bg) /\ (a = b => ba = bb)
  OBVIOUS
<1> HIDE DEF bf, bg, ba, bb
<1>7. Plus(bf, ba) = Plus(bg, bb)
  BY <1>2, <1>3, PlusType, EightLinear
<1>8. CASE f = g
  <2>1. Plus(ba, bf) = Plus(bb, bf)
    BY <1>2, <1>6, <1>7, <1>8, PlusShuffle
  <2> QED
    BY <1>2, <1>5, <1>8, <2>1, PlusCancels
<1>9. CASE a = b
  BY <1>2, <1>5, <1>6, <1>7, <1>9, PlusCancels
<1> QED
  BY <1>8, <1>9

(* The division of a sequence of bytes, one byte more at a time.           *)
CrcOver(bytes, m, f) ==
  f = [n \in 0 .. m |-> IF n = 0 THEN 0 .. 15 ELSE DivideByte(f[n - 1], bytes[n])]

LEMMA CrcUnfolded ==
  ASSUME NEW bytes
  PROVE  Crc(bytes) = (CHOOSE f : CrcOver(bytes, Len(bytes), f))[Len(bytes)]
  BY DEF Crc, CrcOver

LEMMA CrcOverExists ==
  ASSUME NEW bytes, NEW n \in Nat
  PROVE  \E f : CrcOver(bytes, n, f)
<1> DEFINE T == {m \in Nat : \E f : CrcOver(bytes, m, f)}
<1>1. 0 \in T
  <2> DEFINE f == [k \in 0 .. 0 |-> 0 .. 15]
  <2>1. \A k \in 0 .. 0 : k = 0
    OBVIOUS
  <2>2. f = [k \in 0 .. 0 |->
               IF k = 0 THEN 0 .. 15 ELSE DivideByte(f[k - 1], bytes[k])]
    BY <2>1
  <2>3. CrcOver(bytes, 0, f)
    BY <2>2 DEF CrcOver
  <2> QED
    BY <2>3
<1>2. \A m \in Nat : m \in T => m + 1 \in T
  <2> SUFFICES ASSUME NEW m \in Nat, m \in T PROVE m + 1 \in T
    OBVIOUS
  <2>1. PICK f : CrcOver(bytes, m, f)
    OBVIOUS
  <2> DEFINE longer == [k \in 0 .. m + 1 |->
                          IF k = m + 1 THEN DivideByte(f[m], bytes[m + 1]) ELSE f[k]]
             Step(g, k) == IF k = 0 THEN 0 .. 15 ELSE DivideByte(g[k - 1], bytes[k])
  <2>2. ASSUME NEW k \in 0 .. m + 1 PROVE longer[k] = Step(longer, k)
    <3>1. CASE k = m + 1
      <4>1. k # 0 /\ k - 1 = m /\ m \in 0 .. m + 1 /\ m # m + 1
        BY <3>1
      <4>2. longer[k] = DivideByte(f[m], bytes[m + 1]) /\ longer[m] = f[m]
        BY <3>1, <4>1
      <4> HIDE DEF longer
      <4> QED
        BY <3>1, <4>1, <4>2
    <3>2. CASE k # m + 1
      <4>1. k \in 0 .. m
        BY <3>2
      <4>2. longer[k] = f[k]
        BY <3>2
      <4>3. f[k] = Step(f, k)
        BY <2>1, <4>1 DEF CrcOver
      <4>4. CASE k = 0
        BY <4>2, <4>3, <4>4
      <4>5. CASE k # 0
        <5>1. k - 1 \in 0 .. m + 1 /\ k - 1 # m + 1
          BY <4>1, <4>5
        <5>2. longer[k - 1] = f[k - 1]
          BY <5>1
        <5> HIDE DEF longer
        <5> QED
          BY <4>2, <4>3, <4>5, <5>2
      <4> QED
        BY <4>4, <4>5
    <3> QED
      BY <3>1, <3>2
  <2>3. longer = [k \in 0 .. m + 1 |-> longer[k]]
    OBVIOUS
  <2> HIDE DEF longer
  <2>4. longer = [k \in 0 .. m + 1 |-> Step(longer, k)]
    BY <2>2, <2>3, Zenon
  <2>5. CrcOver(bytes, m + 1, longer)
    BY <2>4 DEF CrcOver
  <2> QED
    BY <2>5
<1> HIDE DEF T
<1>3. n \in T
  BY <1>1, <1>2, NatSetInduction
<1> QED
  BY <1>3 DEF T

LEMMA CrcOverAgree ==
  ASSUME NEW bytes, NEW more, NEW n \in Nat, \A k \in 1 .. n : bytes[k] = more[k],
         NEW f, CrcOver(bytes, n, f), NEW g, CrcOver(more, n + 1, g)
  PROVE  f[n] = g[n]
<1> DEFINE T == {k \in Nat : k <= n => f[k] = g[k]}
<1>1. 0 \in T
  <2>1. 0 \in 0 .. n /\ 0 \in 0 .. n + 1
    OBVIOUS
  <2>2. f[0] = 0 .. 15 /\ g[0] = 0 .. 15
    BY <2>1, Zenon DEF CrcOver
  <2> QED
    BY <2>2
<1>2. \A k \in Nat : k \in T => k + 1 \in T
  <2> SUFFICES ASSUME NEW k \in Nat, k \in T, k + 1 <= n PROVE f[k + 1] = g[k + 1]
    OBVIOUS
  <2> DEFINE j == k + 1
  <2>1. j \in 0 .. n /\ j \in 0 .. n + 1 /\ j # 0 /\ j - 1 = k /\ j \in 1 .. n /\ k <= n
    OBVIOUS
  <2> HIDE DEF j
  <2>2. f[j] = DivideByte(f[j - 1], bytes[j]) /\ g[j] = DivideByte(g[j - 1], more[j])
    BY <2>1, Zenon DEF CrcOver
  <2>3. f[k] = g[k] /\ bytes[j] = more[j]
    BY <2>1
  <2> QED
    BY <2>1, <2>2, <2>3 DEF j
<1> HIDE DEF T
<1>3. n \in T
  BY <1>1, <1>2, NatSetInduction
<1> QED
  BY <1>3 DEF T

LEMMA CrcOfEmpty == Crc(<<>>) = 0 .. 15
<1> DEFINE f == CHOOSE f : CrcOver(<<>>, 0, f)
<1>1. Len(<<>>) = 0 /\ 0 \in Nat /\ 0 \in 0 .. 0
  OBVIOUS
<1>2. CrcOver(<<>>, 0, f)
  BY <1>1, CrcOverExists
<1>3. Crc(<<>>) = f[0]
  BY <1>1, CrcUnfolded
<1> HIDE DEF f
<1>4. f[0] = 0 .. 15
  BY <1>1, <1>2, Zenon DEF CrcOver
<1> QED
  BY <1>3, <1>4

LEMMA CrcOfAppend ==
  ASSUME NEW bytes \in Seq(Byte), NEW b \in Byte
  PROVE  Crc(Append(bytes, b)) = DivideByte(Crc(bytes), b)
<1> DEFINE n == Len(bytes)
           more == Append(bytes, b)
           f == CHOOSE f : CrcOver(bytes, n, f)
           g == CHOOSE g : CrcOver(more, n + 1, g)
<1>1. /\ n \in Nat /\ n + 1 \in Nat /\ Len(more) = n + 1 /\ more[n + 1] = b
      /\ \A k \in 1 .. n : bytes[k] = more[k]
  OBVIOUS
<1>2. CrcOver(bytes, n, f) /\ Crc(bytes) = f[n]
  BY <1>1, CrcOverExists, CrcUnfolded
<1> HIDE DEF more
<1>3. CrcOver(more, n + 1, g) /\ Crc(more) = g[n + 1]
  BY <1>1, CrcOverExists, CrcUnfolded
<1> HIDE DEF f, g, n
<1>4. f[n] = g[n]
  BY <1>1, <1>2, <1>3, CrcOverAgree
<1>5. g[n + 1] = DivideByte(g[n], more[n + 1])
  <2> DEFINE j == n + 1
  <2>1. j \in 0 .. n + 1 /\ j # 0 /\ j - 1 = n
    BY <1>1
  <2> HIDE DEF j
  <2>2. g[j] = DivideByte(g[j - 1], more[j])
    BY <1>3, <2>1, Zenon DEF CrcOver
  <2> QED
    BY <2>1, <2>2 DEF j
<1> QED
  BY <1>1, <1>2, <1>3, <1>4, <1>5 DEF more

LEMMA BitsOfInit == Bits(FCS_INIT_VALUE) = 0 .. 15
<1> DEFINE Good(k) == BitAt(FCS_INIT_VALUE, 2^k) = 1
<1>1. /\ Good(0) /\ Good(1) /\ Good(2) /\ Good(3) /\ Good(4) /\ Good(5) /\ Good(6) /\ Good(7)
  BY PowersOfTwo DEF BitAt, FCS_INIT_VALUE
<1>2. /\ Good(8) /\ Good(9) /\ Good(10) /\ Good(11) /\ Good(12) /\ Good(13) /\ Good(14)
      /\ Good(15)
  BY PowersOfTwo DEF BitAt, FCS_INIT_VALUE
<1> HIDE DEF Good
<1>3. \A k \in 0 .. 15 : Good(k)
  BY <1>1, <1>2, Indices
<1>4. 0 .. 15 \in Registers
  BY DEF Registers
<1>5. \A k \in 0 .. 15 : k \in Bits(FCS_INIT_VALUE)
  BY <1>3, BitsType DEF Good
<1> QED
  BY <1>4, <1>5, BitsType, RegisterEqual

(* The table-driven register is the remainder of the division, whatever    *)
(* the bytes.                                                              *)
LEMMA FcsDivides ==
  \A bytes \in Seq(Byte) : Bits(FoldLeft(calc_fcs, FCS_INIT_VALUE, bytes)) = Crc(bytes)
<1> DEFINE register(bytes) == FoldLeft(calc_fcs, FCS_INIT_VALUE, bytes)
           T == {bytes \in Seq(Byte) : Bits(register(bytes)) = Crc(bytes)}
<1>1. <<>> \in T
  <2>1. register(<<>>) = FCS_INIT_VALUE
    BY FcsOfEmpty
  <2> HIDE DEF register
  <2>2. <<>> \in Seq(Byte)
    OBVIOUS
  <2> QED
    BY <2>1, <2>2, BitsOfInit, CrcOfEmpty
<1>2. \A bytes \in Seq(Byte), v \in Byte : bytes \in T => Append(bytes, v) \in T
  <2> SUFFICES ASSUME NEW bytes \in Seq(Byte), NEW v \in Byte, bytes \in T
               PROVE  Append(bytes, v) \in T
    OBVIOUS
  <2>1. register(Append(bytes, v)) = calc_fcs(register(bytes), v)
    BY FcsOfAppend
  <2>2. register(bytes) \in FcsValue
    BY FcsRange
  <2> HIDE DEF register
  <2>3. Bits(calc_fcs(register(bytes), v)) = DivideByte(Bits(register(bytes)), v)
    BY <2>2, CalcDivides
  <2>4. Append(bytes, v) \in Seq(Byte) /\ Bits(register(bytes)) = Crc(bytes)
    OBVIOUS
  <2> QED
    BY <2>1, <2>3, <2>4, CrcOfAppend
<1> HIDE DEF T
<1>3. \A bytes \in Seq(Byte) : bytes \in T
  BY <1>1, <1>2, SeqSetInduction
<1> QED
  BY <1>3 DEF T

(* Once two registers differ they differ after the same further bytes.     *)
LEMMA DifferenceStays ==
  ASSUME NEW p \in Seq(Byte), NEW q \in Seq(Byte),
         FoldLeft(calc_fcs, FCS_INIT_VALUE, p) # FoldLeft(calc_fcs, FCS_INIT_VALUE, q)
  PROVE  \A s \in Seq(Byte) :
           FoldLeft(calc_fcs, FCS_INIT_VALUE, p \o s)
             # FoldLeft(calc_fcs, FCS_INIT_VALUE, q \o s)
<1> DEFINE register(bytes) == FoldLeft(calc_fcs, FCS_INIT_VALUE, bytes)
           T == {s \in Seq(Byte) : register(p \o s) # register(q \o s)}
<1>1. \A bytes \in Seq(Byte) : register(bytes) \in FcsValue
  BY FcsRange
<1>2. \A bytes \in Seq(Byte), v \in Byte :
        register(Append(bytes, v)) = calc_fcs(register(bytes), v)
  BY FcsOfAppend
<1>3. register(p) # register(q)
  OBVIOUS
<1> HIDE DEF register
<1>4. <<>> \in T
  <2>1. p \o <<>> = p /\ q \o <<>> = q /\ <<>> \in Seq(Byte)
    BY ConcatEmptySeq
  <2> QED
    BY <1>3, <2>1
<1>5. \A s \in Seq(Byte), v \in Byte : s \in T => Append(s, v) \in T
  <2> SUFFICES ASSUME NEW s \in Seq(Byte), NEW v \in Byte, s \in T
               PROVE  Append(s, v) \in T
    OBVIOUS
  <2> DEFINE ps == p \o s
             qs == q \o s
  <2>1. /\ ps \in Seq(Byte) /\ qs \in Seq(Byte) /\ Append(s, v) \in Seq(Byte)
        /\ p \o Append(s, v) = Append(ps, v) /\ q \o Append(s, v) = Append(qs, v)
    OBVIOUS
  <2>2. register(ps) # register(qs)
    OBVIOUS
  <2> HIDE DEF ps, qs
  <2>3. calc_fcs(register(ps), v) # calc_fcs(register(qs), v)
    BY <1>1, <2>1, <2>2, CalcInjective
  <2> QED
    BY ZenonT(20), <1>2, <2>1, <2>3
<1> HIDE DEF T
<1>6. \A s \in Seq(Byte) : s \in T
  BY <1>4, <1>5, SeqSetInduction
<1> QED
  BY <1>6 DEF T, register

(* Two bytes enter the sixteen bits of the register side by side: no other *)
(* two leave the same.                                                     *)
LEMMA TwoBytesInjective ==
  ASSUME NEW f \in FcsValue, NEW a \in Byte, NEW b \in Byte, NEW c \in Byte, NEW d \in Byte,
         calc_fcs(calc_fcs(f, a), b) = calc_fcs(calc_fcs(f, c), d)
  PROVE  a = c /\ b = d
<1> DEFINE bf == Bits(f)
           ba == Bits(a)
           bb == Bits(b)
           bc == Bits(c)
           bd == Bits(d)
           ub == Bits(256 * b)
           ud == Bits(256 * d)
<1>1. /\ bf \in Registers /\ ba \in Registers /\ bb \in Registers /\ bc \in Registers
      /\ bd \in Registers /\ ub \in Registers /\ ud \in Registers
  BY BitsType
<1>2. /\ ub \in SUBSET (8 .. 15) /\ {k - 8 : k \in ub} = bb
      /\ ud \in SUBSET (8 .. 15) /\ {k - 8 : k \in ud} = bd
      /\ Bits(256 * b + a) = Plus(ub, ba) /\ Bits(256 * d + c) = Plus(ud, bc)
  BY BitsOfWord
<1>3. Eight(ub) = bb /\ Eight(ud) = bd
  BY ZenonT(20), <1>2, EightHighBits
<1>4. Bits(calc_fcs(calc_fcs(f, a), b)) = Eight(Plus(Eight(Plus(bf, ba)), bb))
  <2>1. /\ calc_fcs(f, a) \in FcsValue
        /\ Bits(calc_fcs(f, a)) = DivideByte(bf, a)
    BY FcsType, CalcDivides
  <2>2. Bits(calc_fcs(calc_fcs(f, a), b)) = DivideByte(Bits(calc_fcs(f, a)), b)
    BY <2>1, CalcDivides
  <2> QED
    BY <2>1, <2>2 DEF DivideByte, Eight
<1>5. Bits(calc_fcs(calc_fcs(f, c), d)) = Eight(Plus(Eight(Plus(bf, bc)), bd))
  <2>1. /\ calc_fcs(f, c) \in FcsValue
        /\ Bits(calc_fcs(f, c)) = DivideByte(bf, c)
    BY FcsType, CalcDivides
  <2>2. Bits(calc_fcs(calc_fcs(f, c), d)) = DivideByte(Bits(calc_fcs(f, c)), d)
    BY <2>1, CalcDivides
  <2> QED
    BY <2>1, <2>2 DEF DivideByte, Eight
<1> HIDE DEF bf, ba, bb, bc, bd, ub, ud
<1>6. /\ Plus(Eight(Plus(bf, ba)), bb) = Eight(Plus(Plus(bf, ba), ub))
      /\ Plus(Eight(Plus(bf, bc)), bd) = Eight(Plus(Plus(bf, bc), ud))
  <2>1. Plus(bf, ba) \in Registers /\ Plus(bf, bc) \in Registers
    BY <1>1, PlusType
  <2>2. Eight(Plus(Plus(bf, ba), ub)) = Plus(Eight(Plus(bf, ba)), Eight(ub))
    BY <1>1, <2>1, EightLinear
  <2>3. Eight(Plus(Plus(bf, bc), ud)) = Plus(Eight(Plus(bf, bc)), Eight(ud))
    BY <1>1, <2>1, EightLinear
  <2> QED
    BY <1>3, <2>2, <2>3
<1> DEFINE left == Plus(Plus(bf, ba), ub)
           right == Plus(Plus(bf, bc), ud)
<1>7. left \in Registers /\ right \in Registers
  BY <1>1, PlusType
<1>8. Eight(Eight(left)) = Eight(Eight(right))
  <2>1. Eight(Plus(Eight(Plus(bf, ba)), bb)) = Eight(Plus(Eight(Plus(bf, bc)), bd))
    BY <1>4, <1>5
  <2> QED
    BY <1>6, <2>1, Zenon
<1> HIDE DEF left, right
<1>9. left = right
  <2>1. Eight(left) \in Registers /\ Eight(right) \in Registers
    BY <1>7, EightLinear
  <2>2. Eight(left) = Eight(right)
    BY <1>8, <2>1, EightLinear
  <2> QED
    BY <1>7, <2>2, EightLinear
<1>10. Plus(ub, ba) = Plus(ud, bc)
  <2>1. left = Plus(Plus(ub, ba), bf) /\ right = Plus(Plus(ud, bc), bf)
    <3>1. \A r \in Registers, s \in Registers : Plus(Plus(bf, r), s) = Plus(Plus(s, r), bf)
      <4> TAKE r \in Registers, s \in Registers
      <4>1. Plus(Plus(bf, r), s) = Plus(Plus(bf, s), r)
        BY <1>1, PlusShuffle
      <4>2. Plus(bf, s) = Plus(s, bf)
        BY <1>1, PlusShuffle
      <4>3. Plus(Plus(s, bf), r) = Plus(Plus(s, r), bf)
        BY <1>1, PlusShuffle
      <4> QED
        BY <4>1, <4>2, <4>3
    <3> QED
      BY <1>1, <3>1 DEF left, right
  <2>2. Plus(ub, ba) \in Registers /\ Plus(ud, bc) \in Registers
    BY <1>1, PlusType
  <2> QED
    BY <1>1, <1>9, <2>1, <2>2, PlusCancels
<1>11. 256 * b + a = 256 * d + c
  <2>1. 256 * b + a \in FcsValue /\ 256 * d + c \in FcsValue
    BY JoinFcs
  <2>2. Bits(256 * b + a) = Bits(256 * d + c)
    BY <1>2, <1>10
  <2> QED
    BY <2>1, <2>2, BitsInjective
<1> QED
  BY <1>11 DEF Byte

----------------------------------------------------------------------------
(* Flattening and byte stuffing.                                           *)

(* What FlattenSeq defines by recursion over the indices of a sequence.    *)
FlatOver(pieces, n, flat) ==
  flat = [k \in 1 .. n |-> IF k = 1 THEN pieces[k] ELSE flat[k - 1] \o pieces[k]]

LEMMA FlatOverExists ==
  ASSUME NEW pieces, NEW n \in Nat
  PROVE  \E flat : FlatOver(pieces, n, flat)
<1> DEFINE T == {m \in Nat : \E flat : FlatOver(pieces, m, flat)}
<1>1. 0 \in T
  <2> DEFINE flat == [k \in 1 .. 0 |-> <<>>]
  <2>1. FlatOver(pieces, 0, flat)
    BY DEF FlatOver
  <2> QED
    BY <2>1
<1>2. \A m \in Nat : m \in T => m + 1 \in T
  <2> SUFFICES ASSUME NEW m \in Nat, m \in T PROVE m + 1 \in T
    OBVIOUS
  <2>1. PICK flat : FlatOver(pieces, m, flat)
    OBVIOUS
  <2> DEFINE Step(f, k) == IF k = 1 THEN pieces[k] ELSE f[k - 1] \o pieces[k]
             longer == [k \in 1 .. m + 1 |-> IF k = m + 1 THEN Step(flat, k) ELSE flat[k]]
  <2>2. ASSUME NEW k \in 1 .. m + 1 PROVE longer[k] = Step(longer, k)
    <3>1. k # 1 => k - 1 \in 1 .. m /\ longer[k - 1] = flat[k - 1]
      OBVIOUS
    <3>2. k # m + 1 => k \in 1 .. m /\ longer[k] = flat[k]
      OBVIOUS
    <3>3. k # m + 1 => flat[k] = Step(flat, k)
      BY <2>1, <3>2 DEF FlatOver
    <3>4. Step(longer, k) = Step(flat, k)
      BY <3>1
    <3>5. k = m + 1 => longer[k] = Step(flat, k)
      OBVIOUS
    <3> QED
      BY <3>2, <3>3, <3>4, <3>5
  <2>3. longer = [k \in 1 .. m + 1 |-> longer[k]]
    OBVIOUS
  <2> HIDE DEF longer
  <2>4. longer = [k \in 1 .. m + 1 |-> Step(longer, k)]
    BY <2>2, <2>3, Zenon
  <2>5. FlatOver(pieces, m + 1, longer)
    BY <2>4 DEF FlatOver
  <2> QED
    BY <2>5
<1> HIDE DEF T
<1>3. n \in T
  BY <1>1, <1>2, NatSetInduction
<1> QED
  BY <1>3 DEF T

LEMMA FlatOverAgree ==
  ASSUME NEW pieces, NEW more, NEW n \in Nat \ {0},
         \A k \in 1 .. n : pieces[k] = more[k],
         NEW flat, FlatOver(pieces, n, flat),
         NEW longer, FlatOver(more, n + 1, longer)
  PROVE  flat[n] = longer[n]
<1> DEFINE T == {k \in Nat : k + 1 <= n => flat[k + 1] = longer[k + 1]}
<1>1. 0 \in T
  <2>1. flat[1] = pieces[1] /\ longer[1] = more[1] /\ 1 \in 1 .. n
    BY DEF FlatOver
  <2> QED
    BY <2>1
<1>2. \A k \in Nat : k \in T => k + 1 \in T
  <2> SUFFICES ASSUME NEW k \in Nat, k \in T, (k + 1) + 1 <= n
               PROVE  flat[(k + 1) + 1] = longer[(k + 1) + 1]
    OBVIOUS
  <2> DEFINE j == (k + 1) + 1
  <2>1. j \in 1 .. n /\ j \in 1 .. n + 1 /\ j # 1 /\ j - 1 = k + 1
    OBVIOUS
  <2>2. flat[j - 1] = longer[j - 1]
    OBVIOUS
  <2>3. pieces[j] = more[j]
    BY <2>1
  <2> HIDE DEF j
  <2>4. flat[j] = flat[j - 1] \o pieces[j]
    BY <2>1, Zenon DEF FlatOver
  <2>5. longer[j] = longer[j - 1] \o more[j]
    BY <2>1, Zenon DEF FlatOver
  <2>6. flat[j] = longer[j]
    BY <2>2, <2>3, <2>4, <2>5
  <2> QED
    BY <2>6 DEF j
<1> HIDE DEF T
<1>3. n - 1 \in T
  <2>1. n - 1 \in Nat
    OBVIOUS
  <2> QED
    BY <1>1, <1>2, <2>1, NatSetInduction
<1> QED
  BY <1>3 DEF T

LEMMA FlatUnfolded ==
  ASSUME NEW pieces, NEW n \in Nat \ {0}, Len(pieces) = n
  PROVE  FlattenSeq(pieces) = (CHOOSE flat : FlatOver(pieces, n, flat))[n]
  BY DEF FlattenSeq, FlatOver

LEMMA FlattenEmpty == FlattenSeq(<<>>) = <<>>
  BY DEF FlattenSeq

LEMMA FlattenOneMore ==
  ASSUME NEW pieces, NEW more, NEW n \in Nat \ {0},
         Len(pieces) = n, Len(more) = n + 1,
         \A k \in 1 .. n : pieces[k] = more[k]
  PROVE  FlattenSeq(more) = FlattenSeq(pieces) \o more[n + 1]
<1>1. n + 1 \in 1 .. n + 1 /\ n + 1 # 1 /\ (n + 1) - 1 = n /\ n + 1 \in Nat /\ n \in Nat
  OBVIOUS
<1> DEFINE flat == CHOOSE f : FlatOver(pieces, n, f)
           longer == CHOOSE f : FlatOver(more, n + 1, f)
<1>2. FlatOver(pieces, n, flat) /\ FlattenSeq(pieces) = flat[n]
  <2>1. \E f : FlatOver(pieces, n, f)
    BY FlatOverExists
  <2> QED
    BY <2>1, FlatUnfolded
<1>3. FlatOver(more, n + 1, longer) /\ FlattenSeq(more) = longer[n + 1]
  <2>1. \E f : FlatOver(more, n + 1, f)
    BY <1>1, FlatOverExists, Zenon
  <2> QED
    BY <2>1, <1>1, FlatUnfolded
<1> HIDE DEF flat, longer
<1>4. flat[n] = longer[n]
  BY <1>2, <1>3, FlatOverAgree
<1>5. longer[n + 1] = longer[(n + 1) - 1] \o more[n + 1]
  BY <1>1, <1>3, Zenon DEF FlatOver
<1> QED
  BY <1>1, <1>2, <1>3, <1>4, <1>5

LEMMA FlattenOne ==
  ASSUME NEW pieces, Len(pieces) = 1
  PROVE  FlattenSeq(pieces) = pieces[1]
<1> DEFINE flat == CHOOSE f : FlatOver(pieces, 1, f)
<1>1. \E f : FlatOver(pieces, 1, f)
  BY FlatOverExists
<1>2. FlatOver(pieces, 1, flat)
  BY <1>1
<1>3. FlattenSeq(pieces) = flat[1]
  <2>1. 1 \in Nat \ {0}
    OBVIOUS
  <2> QED
    BY <2>1, FlatUnfolded, Zenon
<1> HIDE DEF flat
<1> QED
  BY <1>2, <1>3 DEF FlatOver

LEMMA FlattenAppend ==
  ASSUME NEW S, NEW pieces \in Seq(Seq(S)), NEW piece \in Seq(S)
  PROVE  FlattenSeq(Append(pieces, piece)) = FlattenSeq(pieces) \o piece
<1> DEFINE n == Len(pieces)
           more == Append(pieces, piece)
<1>1. /\ n \in Nat /\ Len(more) = n + 1 /\ more[n + 1] = piece
      /\ \A k \in 1 .. n : pieces[k] = more[k]
  OBVIOUS
<1>2. CASE pieces = <<>>
  <2>1. Len(more) = 1 /\ more[1] = piece
    BY <1>2
  <2>2. FlattenSeq(more) = piece
    BY <2>1, FlattenOne
  <2>3. FlattenSeq(pieces) \o piece = piece
    BY <1>2, FlattenEmpty, ConcatEmptySeq
  <2> QED
    BY <2>2, <2>3
<1>3. CASE pieces # <<>>
  <2>1. n \in Nat \ {0}
    BY <1>3, EmptySeq
  <2> HIDE DEF n, more
  <2>2. Len(pieces) = n
    BY DEF n
  <2>3. FlattenSeq(more) = FlattenSeq(pieces) \o more[n + 1]
    BY <1>1, <2>1, <2>2, FlattenOneMore
  <2> QED
    BY <1>1, <2>3 DEF more
<1> QED
  BY <1>2, <1>3

(* Flattening pieces of some type gives a sequence of it.                  *)
LEMMA FlattenType ==
  ASSUME NEW S, NEW pieces \in Seq(Seq(S))
  PROVE  FlattenSeq(pieces) \in Seq(S)
<1> DEFINE T == {p \in Seq(Seq(S)) : FlattenSeq(p) \in Seq(S)}
<1>1. <<>> \in T
  <2>1. <<>> \in Seq(Seq(S)) /\ <<>> \in Seq(S)
    OBVIOUS
  <2>2. FlattenSeq(<<>>) \in Seq(S)
    BY <2>1, FlattenEmpty, Zenon
  <2> QED
    BY <2>1, <2>2, Zenon
<1>2. \A p \in Seq(Seq(S)), x \in Seq(S) : p \in T => Append(p, x) \in T
  <2> SUFFICES ASSUME NEW p \in Seq(Seq(S)), NEW x \in Seq(S), p \in T
               PROVE  Append(p, x) \in T
    OBVIOUS
  <2>1. FlattenSeq(Append(p, x)) = FlattenSeq(p) \o x
    BY FlattenAppend
  <2>2. Append(p, x) \in Seq(Seq(S)) /\ FlattenSeq(p) \o x \in Seq(S)
    OBVIOUS
  <2> QED
    BY <2>1, <2>2
<1> HIDE DEF T
<1>3. pieces \in T
  BY <1>1, <1>2, SeqSetInduction
<1> QED
  BY <1>3 DEF T

LEMMA EscapeType ==
  ASSUME NEW value \in Byte
  PROVE  /\ hdlc_escape_value(value) \in Seq(Byte)
         /\ Len(hdlc_escape_value(value)) >= 1
<1>1. Flip20(value) \in Byte
  BY Flip20Type
<1>2. HDLC_CONTROL_ESCAPE \in Byte
  BY DEF Byte, HDLC_CONTROL_ESCAPE
<1> QED
  BY <1>1, <1>2 DEF hdlc_escape_value

(* Stuffing a sequence is stuffing its bytes one after another.            *)
LEMMA StuffedEmpty == Stuffed(<<>>) = <<>>
<1>1. [k \in DOMAIN <<>> |-> hdlc_escape_value(<<>>[k])] = <<>>
  OBVIOUS
<1> QED
  BY <1>1, FlattenEmpty DEF Stuffed

LEMMA StuffedAppend ==
  ASSUME NEW bytes \in Seq(Byte), NEW value \in Byte
  PROVE  Stuffed(Append(bytes, value)) = Stuffed(bytes) \o hdlc_escape_value(value)
<1> DEFINE pieces == [k \in DOMAIN bytes |-> hdlc_escape_value(bytes[k])]
           longer == Append(bytes, value)
           more == [k \in DOMAIN longer |-> hdlc_escape_value(longer[k])]
           piece == hdlc_escape_value(value)
<1>1. pieces \in Seq(Seq(Byte)) /\ Len(pieces) = Len(bytes)
  <2>1. \A k \in 1 .. Len(bytes) : hdlc_escape_value(bytes[k]) \in Seq(Byte)
    BY EscapeType, ElementOfSeq
  <2> QED
    BY <2>1
<1>2. piece \in Seq(Byte)
  BY EscapeType
<1>3. /\ longer \in Seq(Byte) /\ Len(longer) = Len(bytes) + 1
      /\ longer[Len(bytes) + 1] = value
      /\ \A k \in 1 .. Len(bytes) : longer[k] = bytes[k]
  OBVIOUS
<1>4. more = Append(pieces, piece)
  <2>1. /\ DOMAIN more = 1 .. Len(bytes) + 1
        /\ more[Len(bytes) + 1] = piece
        /\ \A k \in 1 .. Len(bytes) : more[k] = pieces[k]
    BY <1>3
  <2>2. more \in Seq(Seq(Byte)) /\ Len(more) = Len(bytes) + 1
    <3>1. \A k \in 1 .. Len(longer) : hdlc_escape_value(longer[k]) \in Seq(Byte)
      BY <1>3, EscapeType, ElementOfSeq
    <3> QED
      BY <1>3, <3>1
  <2> HIDE DEF more, pieces, piece, longer
  <2>3. \A k \in 1 .. Len(bytes) + 1 : more[k] = Append(pieces, piece)[k]
    BY <1>1, <1>2, <2>1
  <2>4. Append(pieces, piece) \in Seq(Seq(Byte)) /\ Len(Append(pieces, piece)) = Len(bytes) + 1
    BY <1>1, <1>2
  <2> QED
    BY <2>2, <2>3, <2>4, SeqEqual
<1>5. Stuffed(bytes) = FlattenSeq(pieces) /\ Stuffed(longer) = FlattenSeq(more)
  BY DEF Stuffed
<1> HIDE DEF pieces, piece, more
<1>6. FlattenSeq(more) = FlattenSeq(pieces) \o piece
  BY <1>1, <1>2, <1>4, FlattenAppend
<1> QED
  BY <1>5, <1>6 DEF piece

LEMMA StuffedType ==
  \A bytes \in Seq(Byte) :
    Stuffed(bytes) \in Seq(Byte) /\ Len(Stuffed(bytes)) >= Len(bytes)
<1> DEFINE T == {bytes \in Seq(Byte) :
                   Stuffed(bytes) \in Seq(Byte) /\ Len(Stuffed(bytes)) >= Len(bytes)}
<1>1. <<>> \in T
  <2>1. <<>> \in Seq(Byte) /\ Len(<<>>) >= Len(<<>>)
    OBVIOUS
  <2>2. Stuffed(<<>>) \in Seq(Byte) /\ Len(Stuffed(<<>>)) >= Len(<<>>)
    BY <2>1, StuffedEmpty, Zenon
  <2> QED
    BY <2>1, <2>2, Zenon
<1>2. \A bytes \in Seq(Byte), value \in Byte : bytes \in T => Append(bytes, value) \in T
  <2> SUFFICES ASSUME NEW bytes \in Seq(Byte), NEW value \in Byte, bytes \in T
               PROVE  Append(bytes, value) \in T
    OBVIOUS
  <2> DEFINE piece == hdlc_escape_value(value)
             old == Stuffed(bytes)
  <2>1. piece \in Seq(Byte) /\ Len(piece) >= 1
    BY EscapeType
  <2>2. Stuffed(Append(bytes, value)) = old \o piece
    BY StuffedAppend
  <2>3. Append(bytes, value) \in Seq(Byte) /\ Len(Append(bytes, value)) = Len(bytes) + 1
    OBVIOUS
  <2>4. old \in Seq(Byte) /\ Len(old) >= Len(bytes)
    OBVIOUS
  <2> HIDE DEF piece, old
  <2>5. old \o piece \in Seq(Byte) /\ Len(old \o piece) >= Len(bytes) + 1
    BY <2>1, <2>4
  <2> QED
    BY <2>2, <2>3, <2>5
<1> HIDE DEF T
<1>3. \A bytes \in Seq(Byte) : bytes \in T
  BY <1>1, <1>2, SeqSetInduction
<1> QED
  BY <1>3 DEF T

(* Stuffing the end of a sequence leaves its beginning alone.              *)
LEMMA StuffedConcat ==
  ASSUME NEW head \in Seq(Byte)
  PROVE  \A rest \in Seq(Byte) : Stuffed(head \o rest) = Stuffed(head) \o Stuffed(rest)
<1> DEFINE T == {rest \in Seq(Byte) : Stuffed(head \o rest) = Stuffed(head) \o Stuffed(rest)}
<1>h. Stuffed(head) \in Seq(Byte)
  BY StuffedType
<1>1. <<>> \in T
  <2>1. <<>> \in Seq(Byte)
    OBVIOUS
  <2>2. head \o <<>> = head /\ Stuffed(head) \o <<>> = Stuffed(head)
    BY <1>h, ConcatEmptySeq
  <2>3. Stuffed(head \o <<>>) = Stuffed(head) \o Stuffed(<<>>)
    BY <2>2, StuffedEmpty, Zenon
  <2> QED
    BY <2>1, <2>3, Zenon
<1>2. \A rest \in Seq(Byte), value \in Byte : rest \in T => Append(rest, value) \in T
  <2> SUFFICES ASSUME NEW rest \in Seq(Byte), NEW value \in Byte, rest \in T
               PROVE  Append(rest, value) \in T
    OBVIOUS
  <2> DEFINE piece == hdlc_escape_value(value)
  <2>1. head \o Append(rest, value) = Append(head \o rest, value)
    OBVIOUS
  <2>2. Stuffed(Append(head \o rest, value)) = Stuffed(head \o rest) \o piece
    <3>1. head \o rest \in Seq(Byte)
      OBVIOUS
    <3> QED
      BY <3>1, StuffedAppend
  <2>3. Stuffed(Append(rest, value)) = Stuffed(rest) \o piece
    BY StuffedAppend
  <2>4. Stuffed(rest) \in Seq(Byte) /\ piece \in Seq(Byte)
    BY StuffedType, EscapeType
  <2>5. (Stuffed(head) \o Stuffed(rest)) \o piece = Stuffed(head) \o (Stuffed(rest) \o piece)
    BY <1>h, <2>4, ConcatAssociative
  <2>6. Stuffed(head \o rest) = Stuffed(head) \o Stuffed(rest)
    OBVIOUS
  <2>7. Append(rest, value) \in Seq(Byte)
    OBVIOUS
  <2>8. Stuffed(head \o Append(rest, value)) = Stuffed(head) \o Stuffed(Append(rest, value))
    BY <2>1, <2>2, <2>3, <2>5, <2>6
  <2> QED
    BY <2>7, <2>8
<1> HIDE DEF T
<1>3. \A rest \in Seq(Byte) : rest \in T
  BY <1>1, <1>2, SeqSetInduction
<1> QED
  BY <1>3 DEF T

----------------------------------------------------------------------------
(* What hdlc_frame_data makes.                                             *)

LEMMA TrailerType ==
  ASSUME NEW fcs \in FcsValue
  PROVE  FcsTrailer(fcs) \in Seq(Byte) /\ Len(FcsTrailer(fcs)) = 2
<1> DEFINE inverted == FCS_INVERT_MASK - fcs
<1>1. inverted \in FcsValue
  <2>1. fcs \in Int /\ 0 <= fcs /\ fcs <= FCS_INVERT_MASK
    BY FcsBounds
  <2>2. inverted \in Int /\ 0 <= inverted /\ inverted <= FCS_INVERT_MASK
    BY <2>1 DEF FCS_INVERT_MASK
  <2> QED
    BY <2>2, FcsBounds
<1> HIDE DEF inverted
<1>2. inverted % 256 \in Byte /\ inverted \div 256 \in Byte
  BY <1>1, SplitFcs
<1> QED
  BY <1>2 DEF FcsTrailer, inverted

(* The control byte is neither a flag nor an escape: it is never stuffed.  *)
LEMMA ControlByte ==
  ASSUME NEW field \in Control
  PROVE  /\ hdlc_frame_control_type(field) \in Byte
         /\ hdlc_frame_control_type(field) # HDLC_FLAG_SEQUENCE
         /\ hdlc_frame_control_type(field) # HDLC_CONTROL_ESCAPE
  BY DEF Control, hdlc_frame_control_type, I_FRAME, S_FRAME, S_FRAME_NACK, Byte,
         HDLC_FLAG_SEQUENCE, HDLC_CONTROL_ESCAPE

LEMMA BodyType ==
  ASSUME NEW field \in Control, NEW data \in Seq(Byte)
  PROVE  /\ FrameBody(field, data) \in Seq(Byte)
         /\ \E rest \in Seq(Byte) :
              FrameBody(field, data)
                = <<HDLC_ALL_STATION_ADDR, hdlc_frame_control_type(field)>> \o rest
<1> DEFINE head == <<HDLC_ALL_STATION_ADDR, hdlc_frame_control_type(field)>>
<1>1. head \in Seq(Byte)
  <2>1. HDLC_ALL_STATION_ADDR \in Byte
    BY DEF HDLC_ALL_STATION_ADDR, Byte
  <2> QED
    BY <2>1, ControlByte
<1> HIDE DEF head
<1>2. FrameBody(field, data) = head \o data \/ FrameBody(field, data) = head \o <<>>
  BY <1>1, ConcatEmptySeq DEF FrameBody, head
<1>3. <<>> \in Seq(Byte) /\ head \o data \in Seq(Byte) /\ head \o <<>> \in Seq(Byte)
  BY <1>1
<1>4. FrameBody(field, data) \in Seq(Byte)
  BY <1>2, <1>3
<1>5. \E rest \in Seq(Byte) : FrameBody(field, data) = head \o rest
  BY <1>2, <1>3
<1> QED
  BY <1>4, <1>5 DEF head

(* Two bytes that need no stuffing.                                        *)
LEMMA PlainPair ==
  ASSUME NEW a \in Byte, NEW c \in Byte,
         hdlc_escape_value(a) = <<a>>, hdlc_escape_value(c) = <<c>>
  PROVE  Stuffed(<<a, c>>) = <<a, c>>
<1> DEFINE one == <<a>>
           other == <<c>>
<1>1. one \in Seq(Byte) /\ <<>> \in Seq(Byte) /\ other \in Seq(Byte)
  OBVIOUS
<1>2. Append(<<>>, a) = one /\ Append(one, c) = <<a, c>> /\ one \o other = Append(one, c)
  BY <1>1, PairAppend, AppendIsConcat
<1>3. Stuffed(one) = one
  BY <1>1, <1>2, StuffedAppend, StuffedEmpty, ConcatEmptySeq
<1> HIDE DEF one, other
<1>4. Stuffed(Append(one, c)) = Stuffed(one) \o other
  BY <1>1, StuffedAppend DEF other
<1> QED
  BY <1>2, <1>3, <1>4

(* The shape of every frame hdlc_frame_data makes: bytes between two       *)
(* flags, the address and the control field first and never stuffed.       *)
LEMMA FrameShape ==
  ASSUME NEW field \in Control, NEW data \in Seq(Byte)
  PROVE  LET frame == hdlc_frame_data(field, data)
         IN  /\ frame \in Seq(Byte) /\ Len(frame) >= 6
             /\ frame[1] = HDLC_FLAG_SEQUENCE
             /\ frame[2] = HDLC_ALL_STATION_ADDR
             /\ frame[3] = hdlc_frame_control_type(field)
             /\ frame[Len(frame)] = HDLC_FLAG_SEQUENCE
<1> DEFINE body == FrameBody(field, data)
           fcs == FoldLeft(calc_fcs, FCS_INIT_VALUE, body)
           flag == <<HDLC_FLAG_SEQUENCE>>
           head == <<HDLC_ALL_STATION_ADDR, hdlc_frame_control_type(field)>>
           trailer == FcsTrailer(fcs)
           frame == hdlc_frame_data(field, data)
<1>1. frame = flag \o Stuffed(body \o trailer) \o flag
  BY DEF hdlc_frame_data
<1>2. body \in Seq(Byte) /\ \E rest \in Seq(Byte) : body = head \o rest
  BY BodyType
<1>3. fcs \in FcsValue
  BY <1>2, FcsRange
<1>4. trailer \in Seq(Byte) /\ Len(trailer) = 2
  BY <1>3, TrailerType
<1>5. flag \in Seq(Byte) /\ Len(flag) = 1 /\ flag[1] = HDLC_FLAG_SEQUENCE
  <2>1. HDLC_FLAG_SEQUENCE \in Byte
    BY DEF HDLC_FLAG_SEQUENCE, Byte
  <2> QED
    BY <2>1
<1> DEFINE c == hdlc_frame_control_type(field)
<1>6. /\ head \in Seq(Byte) /\ Len(head) = 2
      /\ head[1] = HDLC_ALL_STATION_ADDR /\ head[2] = c
      /\ Stuffed(head) = head
  <2> DEFINE a == HDLC_ALL_STATION_ADDR
  <2>1. a \in Byte /\ hdlc_escape_value(a) = <<a>>
    BY DEF HDLC_ALL_STATION_ADDR, Byte, hdlc_escape_value, HDLC_FLAG_SEQUENCE,
           HDLC_CONTROL_ESCAPE
  <2>2. c \in Byte /\ hdlc_escape_value(c) = <<c>>
    BY ControlByte DEF hdlc_escape_value
  <2> HIDE DEF a, c
  <2>9. head = <<a, c>>
    BY DEF a, c
  <2>10. <<a, c>> \in Seq(Byte) /\ Len(<<a, c>>) = 2
    BY <2>1, <2>2
  <2>11. Stuffed(<<a, c>>) = <<a, c>>
    BY <2>1, <2>2, PlainPair
  <2> QED
    BY <2>9, <2>10, <2>11 DEF a, c
<1> HIDE DEF body, fcs, flag, head, trailer, frame, c
<1>7. PICK rest \in Seq(Byte) : body = head \o rest
  BY <1>2
<1> DEFINE tail == Stuffed(rest \o trailer)
           inner == head \o tail
<1>8. rest \o trailer \in Seq(Byte) /\ Len(rest \o trailer) >= 2
  <2>1. rest \in Seq(Byte) /\ trailer \in Seq(Byte) /\ Len(rest) \in Nat
    BY <1>4
  <2>2. Len(rest \o trailer) = Len(rest) + Len(trailer) /\ rest \o trailer \in Seq(Byte)
    BY <2>1, ConcatProperties
  <2> QED
    BY <1>4, <2>1, <2>2
<1>9. tail \in Seq(Byte) /\ Len(tail) >= 2
  <2>1. tail \in Seq(Byte) /\ Len(tail) >= Len(rest \o trailer)
    BY <1>8, StuffedType
  <2> QED
    BY <1>8, <2>1
<1>10. body \o trailer = head \o (rest \o trailer)
  BY <1>4, <1>6, <1>7, ConcatAssociative
<1>11. Stuffed(body \o trailer) = inner
  BY <1>6, <1>8, <1>10, StuffedConcat
<1> HIDE DEF tail
<1>12. /\ inner \in Seq(Byte) /\ Len(inner) >= 4
       /\ inner[1] = HDLC_ALL_STATION_ADDR /\ inner[2] = c
  <2>1. /\ inner \in Seq(Byte) /\ Len(inner) = Len(head) + Len(tail)
        /\ \A k \in 1 .. Len(head) + Len(tail) :
             inner[k] = IF k <= Len(head) THEN head[k] ELSE tail[k - Len(head)]
    BY <1>6, <1>9, ConcatProperties
  <2> HIDE DEF inner
  <2> QED
    BY <1>6, <1>9, <2>1
<1> HIDE DEF inner
<1>13. frame = flag \o inner \o flag
  BY <1>1, <1>11
<1>14. /\ frame \in Seq(Byte) /\ Len(frame) = Len(inner) + 2
       /\ frame[1] = flag[1] /\ frame[2] = inner[1] /\ frame[3] = inner[2]
       /\ frame[Len(inner) + 2] = flag[1]
  <2> DEFINE opened == flag \o inner
  <2>1. /\ opened \in Seq(Byte) /\ Len(opened) = Len(flag) + Len(inner)
        /\ \A k \in 1 .. Len(flag) + Len(inner) :
             opened[k] = IF k <= Len(flag) THEN flag[k] ELSE inner[k - Len(flag)]
    BY <1>5, <1>12, ConcatProperties
  <2> HIDE DEF opened
  <2>2. /\ frame \in Seq(Byte) /\ Len(frame) = Len(opened) + Len(flag)
        /\ \A k \in 1 .. Len(opened) + Len(flag) :
             frame[k] = IF k <= Len(opened) THEN opened[k] ELSE flag[k - Len(opened)]
    BY <1>5, <1>13, <2>1, ConcatProperties DEF opened
  <2> QED
    BY <1>5, <1>12, <2>1, <2>2
<1> QED
  BY <1>5, <1>12, <1>14 DEF frame, c

----------------------------------------------------------------------------
(* The control byte is read back as the field it was made from.            *)
LEMMA ControlReadBack ==
  ASSUME NEW h \in Control
  PROVE  hdlc_get_control_type(hdlc_frame_control_type(h)) = h
<1> DEFINE n == h.seq_no
           back == hdlc_get_control_type(hdlc_frame_control_type(h))
<1>1. /\ n \in 0 .. 7 /\ h = [frame |-> h.frame, seq_no |-> n]
      /\ h.frame \in {I_FRAME, S_FRAME, S_FRAME_NACK}
  BY DEF Control
<1>2. CASE h.frame = I_FRAME
  <2>1. hdlc_frame_control_type(h) = 2 * n + 16
    BY <1>2 DEF hdlc_frame_control_type, I_FRAME, S_FRAME, S_FRAME_NACK
  <2>2. (2 * n + 16) % 2 = 0 /\ ((2 * n + 16) \div 2) % 8 = n
    BY <1>1
  <2> QED
    BY <1>1, <1>2, <2>1, <2>2 DEF hdlc_get_control_type
<1>3. CASE h.frame = S_FRAME
  <2>1. hdlc_frame_control_type(h) = 32 * n + 1
    BY <1>3 DEF hdlc_frame_control_type, I_FRAME, S_FRAME, S_FRAME_NACK
  <2>2. /\ (32 * n + 1) % 2 = 1 /\ ((32 * n + 1) \div 4) % 4 = 0
        /\ (32 * n + 1) \div 32 = n
    BY <1>1
  <2> QED
    BY <1>1, <1>3, <2>1, <2>2 DEF hdlc_get_control_type
<1>4. CASE h.frame = S_FRAME_NACK
  <2>1. hdlc_frame_control_type(h) = 32 * n + 9
    BY <1>4 DEF hdlc_frame_control_type, I_FRAME, S_FRAME, S_FRAME_NACK
  <2>2. /\ (32 * n + 9) % 2 = 1 /\ ((32 * n + 9) \div 4) % 4 # 0
        /\ (32 * n + 9) \div 32 = n
    BY <1>1
  <2> QED
    BY <1>1, <1>4, <2>1, <2>2 DEF hdlc_get_control_type
<1> QED
  BY <1>1, <1>2, <1>3, <1>4
----------------------------------------------------------------------------
(* Two entries of the table decide what the trailer leaves: 255 for its    *)
(* first byte, 135 for its second, whatever the register was.              *)
LEMMA Entries == fcstab[255] = 3960 /\ fcstab[135] = 61623
<1>1. 255 \in Byte /\ 135 \in Byte
  BY DEF Byte
<1>2. 255 \div 16 = 15 /\ 255 % 16 = 15 /\ 135 \div 16 = 8 /\ 135 % 16 = 7
  OBVIOUS
<1>3. fcstab[255] = FcsTable[16][16] /\ fcstab[135] = FcsTable[9][8]
  BY <1>1, <1>2 DEF fcstab
<1> QED
  BY <1>3 DEF FcsTable

LEMMA NibbleComplement ==
  \A a \in 0 .. 15 :
     /\ XorNibble[a][15 - a] = 15
     /\ XorNibble[XorNibble[a][7]][15 - a] = 8
     /\ XorNibble[XorNibble[a][8]][15 - a] = 7
<1> TAKE a \in 0 .. 15
<1> DEFINE X(b, c) == 1 * ((b \div 1 + c \div 1) % 2) + 2 * ((b \div 2 + c \div 2) % 2)
                      + 4 * ((b \div 4 + c \div 4) % 2) + 8 * ((b \div 8 + c \div 8) % 2)
<1>1. \A b, c \in 0 .. 15 : XorNibble[b][c] = X(b, c)
  BY DEF XorNibble
<1>2. 15 - a \in 0 .. 15 /\ 7 \in 0 .. 15 /\ 8 \in 0 .. 15
  OBVIOUS
<1>3. X(a, 15 - a) = 15
  OBVIOUS
<1>4. XorNibble[a][7] = X(a, 7) /\ XorNibble[a][8] = X(a, 8)
  BY <1>1
<1>5. X(a, 7) \in 0 .. 15 /\ X(a, 8) \in 0 .. 15
  BY <1>2, <1>4, XorNibbleType
<1>6. X(X(a, 7), 15 - a) = 8
  OBVIOUS
<1>7. X(X(a, 8), 15 - a) = 7
  OBVIOUS
<1> HIDE DEF X
<1> QED
  BY <1>1, <1>2, <1>3, <1>4, <1>5, <1>6, <1>7

LEMMA ByteComplement ==
  ASSUME NEW b \in Byte
  PROVE  /\ XorByte(b, 255 - b) = 255
         /\ XorByte(XorByte(b, 120), 255 - b) = 135
<1> DEFINE high == b \div 16
           low == b % 16
           other == 255 - b
           flipped == XorByte(b, 120)
<1>1. /\ high \in 0 .. 15 /\ low \in 0 .. 15
      /\ other \div 16 = 15 - high /\ other % 16 = 15 - low
  BY DEF Byte
<1>2. 120 \div 16 = 7 /\ 120 % 16 = 8
  OBVIOUS
<1> DEFINE flippedHigh == XorNibble[high][7]
           flippedLow == XorNibble[low][8]
<1>3. flippedHigh \in 0 .. 15 /\ flippedLow \in 0 .. 15
  <2>1. 7 \in 0 .. 15 /\ 8 \in 0 .. 15
    OBVIOUS
  <2> QED
    BY <1>1, <2>1, XorNibbleType
<1>4. flipped = 16 * flippedHigh + flippedLow
  BY <1>2 DEF XorByte
<1>5. /\ XorNibble[high][15 - high] = 15 /\ XorNibble[low][15 - low] = 15
      /\ XorNibble[flippedHigh][15 - high] = 8
      /\ XorNibble[flippedLow][15 - low] = 7
  BY <1>1, NibbleComplement
<1>6. XorByte(b, other)
        = 16 * XorNibble[high][other \div 16] + XorNibble[low][other % 16]
  BY DEF XorByte
<1>7. XorByte(flipped, other)
        = 16 * XorNibble[flipped \div 16][other \div 16]
          + XorNibble[flipped % 16][other % 16]
  BY DEF XorByte
<1> HIDE DEF high, low, other, flipped, flippedHigh, flippedLow
<1>8. flipped \div 16 = flippedHigh /\ flipped % 16 = flippedLow
  BY <1>3, <1>4
<1>9. XorByte(b, other) = 255
  BY <1>1, <1>5, <1>6
<1>10. XorByte(flipped, other) = 135
  BY <1>1, <1>5, <1>7, <1>8
<1> QED
  BY <1>9, <1>10 DEF other, flipped

LEMMA TwoBytes ==
  ASSUME NEW start, NEW a \in Byte, NEW b \in Byte
  PROVE  FoldLeft(calc_fcs, start, <<a, b>>) = calc_fcs(calc_fcs(start, a), b)
<1> DEFINE one == <<a>>
<1>1. one \in Seq(Byte) /\ <<>> \in Seq(Byte)
  OBVIOUS
<1>2. one = Append(<<>>, a)
  OBVIOUS
<1>3. <<a, b>> = Append(one, b)
  BY PairAppend
<1> HIDE DEF one
<1>4. FoldLeft(calc_fcs, start, one) = calc_fcs(start, a)
  <2>1. FoldLeft(calc_fcs, start, Append(<<>>, a))
          = calc_fcs(FoldLeft(calc_fcs, start, <<>>), a)
    BY <1>1, FcsOfAppend
  <2> QED
    BY <1>2, <2>1, FcsOfEmpty
<1>5. FoldLeft(calc_fcs, start, Append(one, b)) = calc_fcs(FoldLeft(calc_fcs, start, one), b)
  BY <1>1, FcsOfAppend
<1> QED
  BY <1>3, <1>4, <1>5

LEMMA Residue ==
  ASSUME NEW n \in FcsValue
  PROVE  FoldLeft(calc_fcs, n, FcsTrailer(n)) = FCS_GOOD_VALUE
<1> DEFINE low == n % 256
           high == n \div 256
           first == calc_fcs(n, 255 - low)
<1>1. low \in Byte /\ high \in Byte
  BY SplitFcs
<1>2. FcsTrailer(n) = <<255 - low, 255 - high>>
  <2>1. n \in Int /\ 0 <= n /\ n <= FCS_INVERT_MASK
    BY FcsBounds
  <2>2. (FCS_INVERT_MASK - n) % 256 = 255 - low /\ (FCS_INVERT_MASK - n) \div 256 = 255 - high
    BY <2>1 DEF FCS_INVERT_MASK
  <2> QED
    BY <2>2 DEF FcsTrailer
<1>3. first = 256 * 15 + XorByte(high, 120)
  <2>1. calc_fcs(n, 255 - low)
          = 256 * (fcstab[XorByte(low, 255 - low)] \div 256)
            + XorByte(high, fcstab[XorByte(low, 255 - low)] % 256)
    BY DEF calc_fcs
  <2>2. XorByte(low, 255 - low) = 255
    BY <1>1, ByteComplement
  <2>3. 3960 \div 256 = 15 /\ 3960 % 256 = 120
    OBVIOUS
  <2> HIDE DEF low, high
  <2>4. calc_fcs(n, 255 - low) = 256 * 15 + XorByte(high, 120)
    BY <2>1, <2>2, <2>3, Entries
  <2> QED
    BY <2>4
<1> DEFINE flipped == XorByte(high, 120)
<1>4. flipped \in Byte
  <2>1. 120 \in Byte
    BY DEF Byte
  <2> QED
    BY <1>1, <2>1, XorByteType
<1>5. XorByte(flipped, 255 - high) = 135
  BY <1>1, ByteComplement
<1>6. 255 - low \in Byte /\ 255 - high \in Byte
  <2> HIDE DEF low, high
  <2> QED
    BY <1>1 DEF Byte
<1> HIDE DEF low, high, flipped, first
<1>7. first = 3840 + flipped
  BY <1>3, <1>4 DEF flipped
<1>8. first % 256 = flipped /\ first \div 256 = 15
  <2>1. flipped \in 0 .. 255
    BY <1>4 DEF Byte
  <2> QED
    BY <1>7, <2>1
<1>9. calc_fcs(first, 255 - high) = 61624
  <2>1. calc_fcs(first, 255 - high)
          = 256 * (fcstab[XorByte(flipped, 255 - high)] \div 256)
            + XorByte(15, fcstab[XorByte(flipped, 255 - high)] % 256)
    BY <1>8 DEF calc_fcs
  <2>2. 61623 \div 256 = 240 /\ 61623 % 256 = 183
    OBVIOUS
  <2>3. XorByte(15, 183) = 184
    <3>1. 15 \div 16 = 0 /\ 15 % 16 = 15 /\ 183 \div 16 = 11 /\ 183 % 16 = 7
      OBVIOUS
    <3>2. XorNibble[0][11] = 11 /\ XorNibble[15][7] = 8
      BY DEF XorNibble
    <3> QED
      BY <3>1, <3>2 DEF XorByte
  <2> QED
    BY <1>5, <2>1, <2>2, <2>3, Entries
<1>10. FoldLeft(calc_fcs, n, <<255 - low, 255 - high>>) = calc_fcs(first, 255 - high)
  <2> DEFINE a == 255 - low
             b == 255 - high
  <2>1. a \in Byte /\ b \in Byte
    BY <1>6
  <2>2. first = calc_fcs(n, a)
    BY DEF first
  <2> HIDE DEF a, b
  <2>3. FoldLeft(calc_fcs, n, <<a, b>>) = calc_fcs(calc_fcs(n, a), b)
    BY <2>1, TwoBytes
  <2>4. FoldLeft(calc_fcs, n, <<a, b>>) = calc_fcs(first, b)
    BY <2>2, <2>3
  <2> QED
    BY <2>4 DEF a, b
<1> QED
  BY <1>2, <1>9, <1>10 DEF FCS_GOOD_VALUE

----------------------------------------------------------------------------
(* The bytes of a frame between its flags, before stuffing, and the        *)
(* register of the decoder after those it has unescaped (hdlc.c:173).      *)
Sent(field, payload) ==
  FrameBody(field, payload)
    \o FcsTrailer(FoldLeft(calc_fcs, FCS_INIT_VALUE, FrameBody(field, payload)))

RegisterAfter(bytes) == FoldLeft(calc_fcs, FCS_INIT_VALUE, bytes)

LEMMA RegisterSteps ==
  /\ RegisterAfter(<<>>) = FCS_INIT_VALUE
  /\ \A s \in Seq(Byte) : RegisterAfter(s) \in FcsValue
  /\ \A s \in Seq(Byte), v \in Byte : RegisterAfter(Append(s, v)) = calc_fcs(RegisterAfter(s), v)
<1>1. RegisterAfter(<<>>) = FCS_INIT_VALUE
  BY FcsOfEmpty DEF RegisterAfter
<1>2. \A s \in Seq(Byte) : RegisterAfter(s) \in FcsValue
  BY FcsRange DEF RegisterAfter
<1>3. \A s \in Seq(Byte), v \in Byte : RegisterAfter(Append(s, v)) = calc_fcs(RegisterAfter(s), v)
  BY FcsOfAppend DEF RegisterAfter
<1> QED
  BY <1>1, <1>2, <1>3

LEMMA SentShape ==
  ASSUME NEW field \in Control, NEW payload \in Seq(Byte)
  PROVE  /\ Sent(field, payload) \in Seq(Byte)
         /\ RegisterAfter(Sent(field, payload)) = FCS_GOOD_VALUE
         /\ hdlc_frame_data(field, payload)
              = <<HDLC_FLAG_SEQUENCE>> \o Stuffed(Sent(field, payload)) \o <<HDLC_FLAG_SEQUENCE>>
         /\ \E rest \in Seq(Byte) :
              Sent(field, payload)
                = <<HDLC_ALL_STATION_ADDR, hdlc_frame_control_type(field)>> \o rest
<1> DEFINE body == FrameBody(field, payload)
           n == RegisterAfter(body)
           trailer == FcsTrailer(n)
           head == <<HDLC_ALL_STATION_ADDR, hdlc_frame_control_type(field)>>
           bytes == Sent(field, payload)
<1>1. hdlc_frame_data(field, payload)
        = <<HDLC_FLAG_SEQUENCE>> \o Stuffed(bytes) \o <<HDLC_FLAG_SEQUENCE>>
  BY DEF hdlc_frame_data, Sent
<1>2. bytes = body \o trailer
  BY DEF Sent, RegisterAfter
<1>3. body \in Seq(Byte) /\ \E rest \in Seq(Byte) : body = head \o rest
  BY BodyType
<1>4. head \in Seq(Byte)
  <2>1. HDLC_ALL_STATION_ADDR \in Byte
    BY DEF HDLC_ALL_STATION_ADDR, Byte
  <2> QED
    BY <2>1, ControlByte
<1> HIDE DEF body, head, bytes
<1>5. n \in FcsValue /\ \A s \in Seq(Byte) : RegisterAfter(body \o s) = FoldLeft(calc_fcs, n, s)
  BY <1>3, FcsRange, FcsOfConcat DEF RegisterAfter
<1>6. trailer \in Seq(Byte) /\ FoldLeft(calc_fcs, n, trailer) = FCS_GOOD_VALUE
  BY <1>5, TrailerType, Residue
<1> HIDE DEF n, trailer
<1>7. RegisterAfter(bytes) = FCS_GOOD_VALUE
  <2>1. RegisterAfter(body \o trailer) = FoldLeft(calc_fcs, n, trailer)
    BY <1>5, <1>6
  <2> QED
    BY <1>2, <1>6, <2>1
<1>8. PICK rest \in Seq(Byte) : body = head \o rest
  BY <1>3
<1>9. (head \o rest) \o trailer = head \o (rest \o trailer) /\ rest \o trailer \in Seq(Byte)
  BY <1>4, <1>6, <1>8, ConcatAssociative
<1>10. bytes \in Seq(Byte)
  BY <1>2, <1>3, <1>6
<1>11. \E more \in Seq(Byte) : bytes = head \o more
  BY <1>2, <1>8, <1>9
<1> QED
  BY <1>1, <1>7, <1>10, <1>11 DEF bytes, head

(* Of two sequences that differ in two neighbouring bytes only, the        *)
(* register accepts at most one.                                           *)
LEMMA PairRejected ==
  ASSUME NEW before \in Seq(Byte), NEW after \in Seq(Byte),
         NEW a \in Byte, NEW b \in Byte, NEW c \in Byte, NEW d \in Byte, <<a, b>> # <<c, d>>,
         RegisterAfter((before \o <<a, b>>) \o after) = FCS_GOOD_VALUE
  PROVE  RegisterAfter((before \o <<c, d>>) \o after) # FCS_GOOD_VALUE
<1> DEFINE good == before \o <<a, b>>
           bad == before \o <<c, d>>
           f == RegisterAfter(before)
<1>1. RegisterAfter(good \o after) = FCS_GOOD_VALUE
  OBVIOUS
<1>2. \A s \in Seq(Byte), v \in Byte : RegisterAfter(Append(s, v)) = calc_fcs(RegisterAfter(s), v)
  BY RegisterSteps
<1>3. \A s \in Seq(Byte) : RegisterAfter(s) \in FcsValue
  BY RegisterSteps
<1>4. \A x, y \in Byte : /\ before \o <<x, y>> \in Seq(Byte)
                         /\ RegisterAfter(before \o <<x, y>>) = calc_fcs(calc_fcs(f, x), y)
  <2> TAKE x \in Byte, y \in Byte
  <2> DEFINE longer == Append(before, x)
  <2>1. before \o <<x, y>> = Append(longer, y) /\ longer \in Seq(Byte)
    <3>1. Append(<<x>>, y) = <<x, y>> /\ <<x>> \in Seq(Byte)
      BY PairAppend
    <3>2. before \o Append(<<x>>, y) = Append(before \o <<x>>, y)
      BY <3>1
    <3>3. before \o <<x>> = Append(before, x)
      BY AppendIsConcat
    <3> QED
      BY <3>1, <3>2, <3>3
  <2>2. RegisterAfter(longer) = calc_fcs(f, x)
    BY <1>2
  <2> HIDE DEF longer, f
  <2>3. RegisterAfter(Append(longer, y)) = calc_fcs(RegisterAfter(longer), y)
    BY <1>2, <2>1
  <2>4. Append(longer, y) \in Seq(Byte)
    BY <2>1
  <2> QED
    BY <2>1, <2>2, <2>3, <2>4
<1>5. f \in FcsValue /\ good \in Seq(Byte) /\ bad \in Seq(Byte)
  BY <1>3, <1>4
<1>6. /\ RegisterAfter(good) = calc_fcs(calc_fcs(f, a), b)
      /\ RegisterAfter(bad) = calc_fcs(calc_fcs(f, c), d)
  BY <1>4
<1> HIDE DEF f, good, bad
<1>7. RegisterAfter(good) # RegisterAfter(bad)
  BY <1>5, <1>6, TwoBytesInjective
<1>8. RegisterAfter(good \o after) # RegisterAfter(bad \o after)
  BY <1>5, <1>7, DifferenceStays DEF RegisterAfter
<1> QED
  BY <1>1, <1>8 DEF bad

LEMMA ControlNotZero ==
  ASSUME NEW field \in Control
  PROVE  hdlc_frame_control_type(field) # 0
  BY DEF Control, hdlc_frame_control_type, I_FRAME, S_FRAME, S_FRAME_NACK

(* A frame of which the control field has become 0, or that has a 0 in     *)
(* front where its start flag was, is not accepted.                        *)
LEMMA ZeroControlRejected ==
  ASSUME NEW field \in Control, NEW payload \in Seq(Byte), NEW rest \in Seq(Byte),
         Sent(field, payload)
           = <<HDLC_ALL_STATION_ADDR, hdlc_frame_control_type(field)>> \o rest
  PROVE  RegisterAfter(<<HDLC_ALL_STATION_ADDR, 0>> \o rest) # FCS_GOOD_VALUE
<1> DEFINE a == HDLC_ALL_STATION_ADDR
           c == hdlc_frame_control_type(field)
<1>1. a \in Byte /\ 0 \in Byte
  BY DEF HDLC_ALL_STATION_ADDR, Byte
<1>2. c \in Byte /\ c # 0
  BY ControlByte, ControlNotZero
<1>3. RegisterAfter(<<a, c>> \o rest) = FCS_GOOD_VALUE
  BY SentShape
<1> HIDE DEF a, c
<1>4. <<a, c>> # <<a, 0>> /\ <<>> \in Seq(Byte)
  BY <1>2
<1>5. <<>> \o <<a, c>> = <<a, c>> /\ <<>> \o <<a, 0>> = <<a, 0>>
  <2>1. <<a, c>> \in Seq(Byte) /\ <<a, 0>> \in Seq(Byte)
    BY <1>1, <1>2
  <2> QED
    BY <2>1, ConcatEmptySeq
<1>6. RegisterAfter((<<>> \o <<a, c>>) \o rest) = FCS_GOOD_VALUE
  BY <1>3, <1>5
<1>7. RegisterAfter((<<>> \o <<a, 0>>) \o rest) # FCS_GOOD_VALUE
  BY <1>1, <1>2, <1>4, <1>6, PairRejected
<1> QED
  BY <1>5, <1>7 DEF a

LEMMA ZeroAheadRejected ==
  ASSUME NEW field \in Control, NEW payload \in Seq(Byte)
  PROVE  /\ <<0>> \o Sent(field, payload) \in Seq(Byte)
         /\ RegisterAfter(<<0>> \o Sent(field, payload)) # FCS_GOOD_VALUE
<1> DEFINE bytes == Sent(field, payload)
           zero == <<0>>
           none == <<>>
<1>1. bytes \in Seq(Byte) /\ RegisterAfter(bytes) = FCS_GOOD_VALUE
  BY SentShape
<1>2. 0 \in Byte
  BY DEF Byte
<1>3. zero \in Seq(Byte) /\ none \in Seq(Byte) /\ zero = Append(none, 0)
  BY <1>2
<1>4. RegisterAfter(none) = 65535
  BY RegisterSteps DEF FCS_INIT_VALUE, FCS_INVERT_MASK
<1>5. RegisterAfter(zero) = calc_fcs(65535, 0)
  <2> HIDE DEF zero, none
  <2>1. RegisterAfter(Append(none, 0)) = calc_fcs(RegisterAfter(none), 0)
    BY <1>2, <1>3, RegisterSteps
  <2> QED
    BY <1>3, <1>4, <2>1
<1>6. calc_fcs(65535, 0) # 65535
  <2>1. /\ 65535 % 256 = 255 /\ 65535 \div 256 = 255 /\ 255 \div 16 = 15 /\ 255 % 16 = 15
        /\ 0 \div 16 = 0 /\ 0 % 16 = 0 /\ 3960 \div 256 = 15 /\ 3960 % 256 = 120
        /\ 120 \div 16 = 7 /\ 120 % 16 = 8
    OBVIOUS
  <2>2. XorNibble[15][0] = 15 /\ XorNibble[15][7] = 8 /\ XorNibble[15][8] = 7
    BY DEF XorNibble
  <2>3. XorByte(255, 0) = 255 /\ XorByte(255, 120) = 135
    BY <2>1, <2>2 DEF XorByte
  <2>4. calc_fcs(65535, 0) = 256 * 15 + 135
    BY <2>1, <2>3, Entries DEF calc_fcs
  <2> QED
    BY <2>4
<1>7. none \o bytes = bytes
  BY <1>1, ConcatEmptySeq
<1> HIDE DEF zero, none, bytes
<1>8. RegisterAfter(zero) # RegisterAfter(none)
  BY <1>4, <1>5, <1>6
<1>9. RegisterAfter(zero \o bytes) # RegisterAfter(none \o bytes)
  BY <1>1, <1>3, <1>8, DifferenceStays DEF RegisterAfter
<1> QED
  BY <1>1, <1>3, <1>7, <1>9 DEF zero, bytes

----------------------------------------------------------------------------
(* How many bytes the first j take on the line, and what stands there for  *)
(* the next one: the byte itself, or an escape byte and the byte changed.  *)
Special == {HDLC_FLAG_SEQUENCE, HDLC_CONTROL_ESCAPE}
Upto(bytes, j) == Len(Stuffed(SubSeq(bytes, 1, j)))

LEMMA UptoEnds ==
  ASSUME NEW bytes \in Seq(Byte)
  PROVE  /\ Upto(bytes, 0) = 0
         /\ Upto(bytes, Len(bytes)) = Len(Stuffed(bytes))
         /\ \A j \in 0 .. Len(bytes) : Upto(bytes, j) \in Nat /\ Upto(bytes, j) >= j
<1>1. SubSeq(bytes, 1, 0) = <<>> /\ SubSeq(bytes, 1, Len(bytes)) = bytes
  OBVIOUS
<1>2. Len(Stuffed(<<>>)) = 0
  BY StuffedEmpty
<1>3. \A j \in 0 .. Len(bytes) : SubSeq(bytes, 1, j) \in Seq(Byte) /\ Len(SubSeq(bytes, 1, j)) = j
  OBVIOUS
<1>4. \A j \in 0 .. Len(bytes) : Upto(bytes, j) \in Nat /\ Upto(bytes, j) >= j
  <2> TAKE j \in 0 .. Len(bytes)
  <2> DEFINE s == SubSeq(bytes, 1, j)
  <2>1. s \in Seq(Byte) /\ Len(s) = j
    BY <1>3
  <2> HIDE DEF s
  <2>2. Stuffed(s) \in Seq(Byte) /\ Len(Stuffed(s)) >= Len(s)
    BY <2>1, StuffedType
  <2> QED
    BY <2>1, <2>2 DEF Upto, s
<1> QED
  BY <1>1, <1>2, <1>4 DEF Upto

LEMMA UptoNext ==
  ASSUME NEW bytes \in Seq(Byte), NEW j \in 0 .. Len(bytes) - 1
  PROVE  LET v == bytes[j + 1]
             n == Upto(bytes, j)
             line == Stuffed(bytes)
         IN  /\ v \in Byte /\ n \in Nat
             /\ v \notin Special => /\ line[n + 1] = v
                                    /\ Upto(bytes, j + 1) = n + 1
             /\ v \in Special => /\ line[n + 1] = HDLC_CONTROL_ESCAPE
                                 /\ line[n + 2] = Flip20(v)
                                 /\ Upto(bytes, j + 1) = n + 2
                                 /\ Flip20(v) \notin Special /\ Flip20(Flip20(v)) = v
             /\ Upto(bytes, j + 1) <= Len(line)
<1> DEFINE v == bytes[j + 1]
           start == SubSeq(bytes, 1, j)
           longer == SubSeq(bytes, 1, j + 1)
           after == SubSeq(bytes, j + 2, Len(bytes))
           piece == hdlc_escape_value(v)
           line == Stuffed(bytes)
           n == Upto(bytes, j)
<1>1. /\ v \in Byte /\ start \in Seq(Byte) /\ after \in Seq(Byte) /\ longer \in Seq(Byte)
      /\ longer = Append(start, v) /\ bytes = longer \o after
  <2>1. v \in Byte /\ start \in Seq(Byte) /\ after \in Seq(Byte) /\ longer \in Seq(Byte)
    OBVIOUS
  <2>2. longer = Append(start, v)
    OBVIOUS
  <2>3. bytes = longer \o after
    <3> DEFINE m == j + 1
    <3>1. m \in 0 .. Len(bytes) /\ j + 2 = m + 1
      OBVIOUS
    <3> HIDE DEF m
    <3>2. bytes = SubSeq(bytes, 1, m) \o SubSeq(bytes, m + 1, Len(bytes))
      <4> DEFINE s == SubSeq(bytes, 1, m)
                 t == SubSeq(bytes, m + 1, Len(bytes))
                 both == s \o t
      <4>1. /\ s \in Seq(Byte) /\ Len(s) = m /\ \A k \in 1 .. m : s[k] = bytes[k]
        BY <3>1
      <4>2. /\ t \in Seq(Byte) /\ Len(t) = Len(bytes) - m
            /\ \A k \in 1 .. Len(bytes) - m : t[k] = bytes[m + k]
        BY <3>1
      <4> HIDE DEF s, t
      <4>3. /\ both \in Seq(Byte) /\ Len(both) = Len(s) + Len(t)
            /\ \A k \in 1 .. Len(s) + Len(t) :
                 both[k] = IF k <= Len(s) THEN s[k] ELSE t[k - Len(s)]
        BY <4>1, <4>2, ConcatProperties
      <4> HIDE DEF both
      <4>4. \A k \in 1 .. Len(bytes) : bytes[k] = both[k]
        BY <3>1, <4>1, <4>2, <4>3
      <4>5. bytes = both
        BY <3>1, <4>1, <4>2, <4>3, <4>4, SeqEqual
      <4> QED
        BY <4>5 DEF both, s, t
    <3> QED
      BY <3>1, <3>2 DEF m
  <2> QED
    BY <2>1, <2>2, <2>3
<1>2. piece \in Seq(Byte) /\ Len(piece) >= 1
  BY <1>1, EscapeType
<1>3. n = Len(Stuffed(start)) /\ Upto(bytes, j + 1) = Len(Stuffed(longer))
  BY DEF Upto
<1> HIDE DEF v, start, longer, after, line, piece, n
<1>4. Stuffed(longer) = Stuffed(start) \o piece
  BY <1>1, StuffedAppend DEF piece
<1>5. line = Stuffed(longer) \o Stuffed(after)
  BY <1>1, StuffedConcat DEF line
<1>6. /\ Stuffed(start) \in Seq(Byte) /\ Stuffed(longer) \in Seq(Byte)
      /\ Stuffed(after) \in Seq(Byte)
  BY <1>1, StuffedType
<1>7. /\ n \in Nat /\ Upto(bytes, j + 1) = n + Len(piece)
      /\ Upto(bytes, j + 1) <= Len(line)
      /\ \A k \in 1 .. Len(piece) : line[n + k] = piece[k]
  <2> DEFINE s == Stuffed(start)
             t == Stuffed(after)
  <2>1. s \in Seq(Byte) /\ t \in Seq(Byte) /\ line = (s \o piece) \o t /\ n = Len(s)
    BY <1>3, <1>4, <1>5, <1>6
  <2>2. Upto(bytes, j + 1) = Len(s \o piece)
    BY <1>3, <1>4
  <2> DEFINE both == s \o piece
  <2> HIDE DEF s, t
  <2>3. /\ both \in Seq(Byte) /\ Len(both) = Len(s) + Len(piece)
        /\ \A k \in 1 .. Len(s) + Len(piece) :
             both[k] = IF k <= Len(s) THEN s[k] ELSE piece[k - Len(s)]
    BY <1>2, <2>1, ConcatProperties
  <2> HIDE DEF both
  <2>4. /\ Len(line) = Len(both) + Len(t)
        /\ \A k \in 1 .. Len(both) + Len(t) :
             line[k] = IF k <= Len(both) THEN both[k] ELSE t[k - Len(both)]
    BY <2>1, <2>3, ConcatProperties DEF both
  <2>5. Len(s) \in Nat /\ Len(t) \in Nat /\ Len(piece) \in Nat
    BY <1>2, <2>1
  <2>6. \A k \in 1 .. Len(piece) : line[n + k] = piece[k]
    <3> TAKE k \in 1 .. Len(piece)
    <3> DEFINE p == n + k
    <3>1. p \in 1 .. Len(both) /\ ~(p <= Len(s)) /\ p - Len(s) = k
      BY <2>1, <2>3, <2>5
    <3>2. p \in 1 .. Len(s) + Len(piece) /\ p \in 1 .. Len(both) + Len(t) /\ p <= Len(both)
      BY <2>3, <2>5, <3>1
    <3> HIDE DEF p
    <3>3. line[p] = both[p] /\ both[p] = piece[p - Len(s)]
      BY <2>3, <2>4, <3>1, <3>2
    <3>4. line[p] = piece[k]
      BY <3>1, <3>3
    <3> QED
      BY <3>4 DEF p
  <2>7. Upto(bytes, j + 1) = n + Len(piece)
    BY <2>1, <2>2, <2>3 DEF both
  <2> QED
    BY <2>1, <2>3, <2>4, <2>5, <2>6, <2>7
<1>8. CASE v \notin Special
  <2>1. piece = <<v>>
    BY <1>8 DEF piece, hdlc_escape_value, Special
  <2>2. Len(piece) = 1 /\ piece[1] = v
    BY <2>1
  <2> QED
    BY <1>1, <1>7, <1>8, <2>2 DEF v, n, line
<1>9. CASE v \in Special
  <2> DEFINE e == HDLC_CONTROL_ESCAPE
             f == Flip20(v)
  <2>1. f \notin Special /\ Flip20(f) = v
    BY <1>9 DEF Special, HDLC_FLAG_SEQUENCE, HDLC_CONTROL_ESCAPE, Flip20
  <2>2. piece = <<e, f>>
    BY <1>9 DEF piece, hdlc_escape_value, Special
  <2> HIDE DEF e, f
  <2>3. Len(piece) = 2 /\ piece[1] = e /\ piece[2] = f
    BY <2>2
  <2> QED
    BY <1>1, <1>7, <1>9, <2>1, <2>3 DEF v, n, line, e, f
<1> QED
  BY <1>8, <1>9

(* Stuffing leaves no flag.                                                *)
LEMMA NoFlagInside ==
  \A bytes \in Seq(Byte) :
    \A k \in 1 .. Len(Stuffed(bytes)) : Stuffed(bytes)[k] # HDLC_FLAG_SEQUENCE
<1> DEFINE T == {bytes \in Seq(Byte) :
                   \A k \in 1 .. Len(Stuffed(bytes)) : Stuffed(bytes)[k] # HDLC_FLAG_SEQUENCE}
<1>1. <<>> \in T
  <2>1. 1 .. Len(Stuffed(<<>>)) = {}
    BY StuffedEmpty
  <2> QED
    BY <2>1
<1>2. \A bytes \in Seq(Byte), v \in Byte : bytes \in T => Append(bytes, v) \in T
  <2> SUFFICES ASSUME NEW bytes \in Seq(Byte), NEW v \in Byte, bytes \in T
               PROVE  Append(bytes, v) \in T
    OBVIOUS
  <2> DEFINE s == Stuffed(bytes)
             piece == hdlc_escape_value(v)
             both == s \o piece
  <2>1. Stuffed(Append(bytes, v)) = both /\ Append(bytes, v) \in Seq(Byte)
    BY StuffedAppend
  <2>2. s \in Seq(Byte) /\ \A k \in 1 .. Len(s) : s[k] # HDLC_FLAG_SEQUENCE
    BY StuffedType
  <2>3. piece \in Seq(Byte) /\ \A k \in 1 .. Len(piece) : piece[k] # HDLC_FLAG_SEQUENCE
    <3>1. CASE v \in Special
      <4>1. piece = <<HDLC_CONTROL_ESCAPE, Flip20(v)>>
        BY <3>1 DEF hdlc_escape_value, Special
      <4>2. Flip20(v) # HDLC_FLAG_SEQUENCE /\ HDLC_CONTROL_ESCAPE # HDLC_FLAG_SEQUENCE
        BY <3>1 DEF Special, HDLC_FLAG_SEQUENCE, HDLC_CONTROL_ESCAPE, Flip20
      <4>3. piece \in Seq(Byte)
        BY EscapeType
      <4> HIDE DEF piece
      <4>4. Len(piece) = 2 /\ piece[1] = HDLC_CONTROL_ESCAPE /\ piece[2] = Flip20(v)
        BY <4>1
      <4> QED
        BY <4>2, <4>3, <4>4
    <3>2. CASE v \notin Special
      <4>1. piece = <<v>> /\ v # HDLC_FLAG_SEQUENCE
        BY <3>2 DEF hdlc_escape_value, Special
      <4> QED
        BY <4>1, EscapeType
    <3> QED
      BY <3>1, <3>2
  <2> HIDE DEF s, piece
  <2>4. /\ Len(both) = Len(s) + Len(piece)
        /\ \A k \in 1 .. Len(s) + Len(piece) :
             both[k] = IF k <= Len(s) THEN s[k] ELSE piece[k - Len(s)]
    BY <2>2, <2>3, ConcatProperties
  <2> HIDE DEF both
  <2>5. \A k \in 1 .. Len(both) : both[k] # HDLC_FLAG_SEQUENCE
    BY <2>2, <2>3, <2>4
  <2> QED
    BY <2>1, <2>5
<1> HIDE DEF T
<1>3. \A bytes \in Seq(Byte) : bytes \in T
  BY <1>1, <1>2, SeqSetInduction
<1> QED
  BY <1>3 DEF T

----------------------------------------------------------------------------
(* The invariant of the decoder.  The type invariant and                   *)
(* FreshBetweenFrames need to know that a byte in hand is a byte;          *)
(* KeptByteIsFlag needs to know that only a call that has met a closing    *)
(* flag, and has not returned, has an end index.                           *)
EndOnlyAtFlag ==
  /\ phase # "return" => hdlc_state.end_index < 0
  /\ phase = "return" => i < Len(src) /\ AtFlag /\ InFrame

ParserInv == ParserTypeOK /\ FreshBetweenFrames /\ EndOnlyAtFlag

(* The byte under the loop index is a byte of the chunk.                   *)
LEMMA HereType ==
  ASSUME ParserTypeOK, Scanning
  PROVE  Here \in Byte /\ i + 1 \in 0 .. Len(src) /\ i \in Nat
<1>1. src \in Seq(Byte) /\ i \in 0 .. Len(src) /\ i < Len(src)
  BY DEF ParserTypeOK, Scanning
<1>2. i + 1 \in 1 .. Len(src) /\ Len(src) \in Nat
  BY <1>1
<1>3. src[i + 1] \in Byte
  BY <1>1, <1>2, ElementOfSeq
<1> QED
  BY <1>1, <1>2, <1>3 DEF Here

(* Advancing over a byte keeps the types, whatever else of the state       *)
(* changes within its type.                                                *)
LEMMA AdvanceType ==
  ASSUME ParserTypeOK, Scanning, NEW state \in HdlcState, Advance(state)
  PROVE  /\ hdlc_state' \in HdlcState
         /\ i' \in 0 .. Len(src')
         /\ hdlc_state'.start_index = state.start_index
         /\ hdlc_state'.end_index = state.end_index
         /\ hdlc_state'.fcs = state.fcs
         /\ hdlc_state'.control_escape = state.control_escape
         /\ hdlc_state'.dest_index = state.dest_index
<1>1. Wrap(state.src_index + 1) \in Int16
  BY WrapType DEF HdlcState
<1> QED
  BY <1>1, HereType DEF Advance, HdlcState

(* A reset gives a fresh state, of the right types.                        *)
LEMMA ResetState ==
  ASSUME NEW state \in HdlcState
  PROVE  /\ hdlc_get_data_reset_with_state(state) \in HdlcState
         /\ Fresh(hdlc_get_data_reset_with_state(state))
         /\ hdlc_get_data_reset_with_state(state).end_index < 0
<1> DEFINE reset == hdlc_get_data_reset_with_state(state)
<1>1. -1 \in Int16 /\ 0 \in Int16 /\ FCS_INIT_VALUE \in FcsValue
  BY IntMaxAssumption, FcsBounds DEF Int16, FCS_INIT_VALUE, FCS_INVERT_MASK
<1>2. reset \in HdlcState
  BY <1>1 DEF hdlc_get_data_reset_with_state, HdlcState
<1>3. /\ reset.fcs = FCS_INIT_VALUE /\ reset.control_escape = FALSE
      /\ reset.dest_index = 0 /\ reset.end_index = -1
  BY DEF hdlc_get_data_reset_with_state, HdlcState
<1> HIDE DEF reset
<1>4. Fresh(reset) /\ reset.end_index < 0
  BY <1>3 DEF Fresh
<1> QED
  BY <1>2, <1>4 DEF reset

(* Initially the decoder is fresh, whatever noise has gone by.             *)
LEMMA InitParserInv == ParserInit => ParserInv
<1> SUFFICES ASSUME ParserInit PROVE ParserInv
  OBVIOUS
<1>1. hdlc_state \in HdlcState
  <2>1. PICK n \in Passed :
          hdlc_state = [control_escape |-> FALSE, fcs |-> FCS_INIT_VALUE,
                        start_index |-> -1, end_index |-> -1,
                        src_index |-> n, dest_index |-> 0]
    BY DEF ParserInit
  <2>2. n \in Int16 /\ -1 \in Int16 /\ 0 \in Int16
    BY PassedAssumption, IntMaxAssumption DEF Int16
  <2> QED
    BY <2>1, <2>2, FcsBounds DEF HdlcState, FCS_INIT_VALUE, FCS_INVERT_MASK
<1>2. ParserTypeOK
  BY <1>1, StaleControlAssumption DEF ParserInit, ParserTypeOK
<1>3. FreshBetweenFrames /\ EndOnlyAtFlag
  BY DEF ParserInit, FreshBetweenFrames, Fresh, EndOnlyAtFlag
<1> QED
  BY <1>2, <1>3 DEF ParserInv

(* A call starts: only the parameters change.                              *)
LEMMA GetDataInv ==
  ASSUME ParserInv,
         NEW chunk \in Seq(Byte), NEW callerControl \in Control, NEW callerDest,
         DOMAIN callerDest \subseteq Int16,
         \A k \in DOMAIN callerDest : callerDest[k] \in Byte,
         GetData(chunk, callerControl, callerDest)
  PROVE  ParserInv'
<1>1. ParserTypeOK'
  BY DEF ParserInv, ParserTypeOK, GetData
<1>2. (FreshBetweenFrames /\ EndOnlyAtFlag)'
  BY DEF ParserInv, FreshBetweenFrames, Fresh, EndOnlyAtFlag, GetData
<1> QED
  BY <1>1, <1>2 DEF ParserInv

(* Each turn of the loop.                                                  *)
LEMMA ScanInv ==
  ASSUME ParserInv, Scan
  PROVE  ParserInv'
<1> USE DEF ParserInv
<1>t. /\ hdlc_state \in HdlcState
      /\ phase # "return" => hdlc_state.end_index < 0
  BY DEF ParserTypeOK, EndOnlyAtFlag
<1>1. CASE SkipNoise
  <2>1. ParserTypeOK'
    BY <1>1, AdvanceType DEF SkipNoise, Advance, ParserTypeOK
  <2>2. FreshBetweenFrames' /\ EndOnlyAtFlag'
    BY <1>1, <1>t, AdvanceType
    DEF SkipNoise, Advance, Scanning, FreshBetweenFrames, Fresh, EndOnlyAtFlag
  <2> QED
    BY <2>1, <2>2
<1>2. CASE DiscardFlag
  <2>1. ParserTypeOK'
    BY <1>2, HereType DEF DiscardFlag, ParserTypeOK
  <2>2. FreshBetweenFrames' /\ EndOnlyAtFlag'
    BY <1>2 DEF DiscardFlag, Scanning, FreshBetweenFrames, Fresh, EndOnlyAtFlag
  <2> QED
    BY <2>1, <2>2
<1>3. CASE OpenFrame
  <2> DEFINE state == [hdlc_state EXCEPT !.start_index = hdlc_state.src_index]
  <2>1. state \in HdlcState
    BY <1>t DEF HdlcState
  <2>2. /\ state.fcs = hdlc_state.fcs
        /\ state.control_escape = hdlc_state.control_escape
        /\ state.dest_index = hdlc_state.dest_index
        /\ state.end_index = hdlc_state.end_index
    BY <1>t DEF HdlcState
  <2>3. Advance(state) /\ Scanning /\ ~InFrame /\ UNCHANGED <<control, dest>>
    BY <1>3 DEF OpenFrame
  <2> HIDE DEF state
  <2>4. ParserTypeOK'
    BY <2>1, <2>3, AdvanceType DEF Advance, ParserTypeOK
  <2>5. FreshBetweenFrames' /\ EndOnlyAtFlag'
    BY <2>1, <2>2, <2>3, <1>t, AdvanceType
    DEF Advance, Scanning, InFrame, FreshBetweenFrames, Fresh, EndOnlyAtFlag, HdlcState, Int16
  <2> QED
    BY <2>4, <2>5
<1>4. CASE CloseFrame
  <2>1. ParserTypeOK'
    BY <1>4, HereType DEF CloseFrame, ParserTypeOK, HdlcState
  <2>2. FreshBetweenFrames' /\ EndOnlyAtFlag'
    BY <1>4, <1>t
    DEF CloseFrame, Scanning, InFrame, AtFlag, Here, HdlcState, FreshBetweenFrames, Fresh,
        EndOnlyAtFlag
  <2> QED
    BY <2>1, <2>2
<1>5. CASE EscapeByte
  <2> DEFINE state == [hdlc_state EXCEPT !.control_escape = TRUE]
  <2>1. /\ state \in HdlcState
        /\ state.start_index = hdlc_state.start_index
        /\ state.end_index = hdlc_state.end_index
    BY <1>t DEF HdlcState
  <2>2. Advance(state) /\ Scanning /\ InFrame /\ UNCHANGED <<control, dest>>
    BY <1>5 DEF EscapeByte
  <2> HIDE DEF state
  <2>3. ParserTypeOK'
    BY <2>1, <2>2, AdvanceType DEF Advance, ParserTypeOK
  <2>4. FreshBetweenFrames' /\ EndOnlyAtFlag'
    BY <2>1, <2>2, <1>t, AdvanceType
    DEF Advance, Scanning, InFrame, FreshBetweenFrames, Fresh, EndOnlyAtFlag, HdlcState, Int16
  <2> QED
    BY <2>3, <2>4
<1>6. CASE TakeByte
  <2> DEFINE state == [hdlc_state EXCEPT
                         !.control_escape = FALSE,
                         !.fcs = calc_fcs(@, Value),
                         !.dest_index = IF IsData THEN Wrap(@ + 1) ELSE @]
  <2>1. Scanning /\ InFrame /\ Advance(state)
    BY <1>6 DEF TakeByte
  <2>2. Value \in Byte
    BY <2>1, HereType, Flip20Type DEF Value
  <2>3. /\ state \in HdlcState
        /\ state.start_index = hdlc_state.start_index
        /\ state.end_index = hdlc_state.end_index
    <3>1. calc_fcs(hdlc_state.fcs, Value) \in FcsValue
      BY <1>t, <2>2, FcsType DEF HdlcState
    <3>2. Wrap(hdlc_state.dest_index + 1) \in Int16
      BY <1>t, WrapType DEF HdlcState
    <3> QED
      BY <1>t, <3>1, <3>2 DEF HdlcState
  <2> HIDE DEF state
  <2>4. control' \in Control
    BY <1>6, <2>2, ControlType DEF TakeByte, ParserTypeOK
  <2>5. DOMAIN dest' \subseteq Int16 /\ \A k \in DOMAIN dest' : dest'[k] \in Byte
    <3>1. CASE IsData
      <4>1. dest' = [k \in DOMAIN dest \cup {hdlc_state.dest_index} |->
                       IF k = hdlc_state.dest_index THEN Value ELSE dest[k]]
        BY <1>6, <3>1 DEF TakeByte
      <4>2. hdlc_state.dest_index \in Int16
        BY <1>t DEF HdlcState
      <4> QED
        BY <2>2, <4>1, <4>2 DEF ParserTypeOK
    <3>2. CASE ~IsData
      BY <1>6, <3>2 DEF TakeByte, ParserTypeOK
    <3> QED
      BY <3>1, <3>2
  <2>6. ParserTypeOK'
    BY <2>1, <2>3, <2>4, <2>5, AdvanceType DEF Advance, ParserTypeOK
  <2>7. FreshBetweenFrames' /\ EndOnlyAtFlag'
    BY <2>1, <2>3, <1>t, AdvanceType
    DEF Advance, Scanning, InFrame, FreshBetweenFrames, Fresh, EndOnlyAtFlag, HdlcState, Int16
  <2> QED
    BY <2>6, <2>7
<1> QED
  BY <1>1, <1>2, <1>3, <1>4, <1>5, <1>6 DEF Scan

(* A call returns: the state is kept as it is or reset.                    *)
LEMMA ReturnInv ==
  ASSUME ParserInv, ReturnNoMessage \/ ReturnBadFrame \/ ReturnFrame
  PROVE  ParserInv'
<1> USE DEF ParserInv
<1>1. PICK state \in HdlcState :
        LeaveCall(state) /\ Fresh(state) /\ state.end_index < 0
  <2>1. CASE ReturnNoMessage
    <3>1. hdlc_state.end_index < 0
      BY <2>1 DEF ReturnNoMessage, FrameFound, EndOnlyAtFlag, InFrame, ParserTypeOK, HdlcState, Int16
    <3> QED
      BY <2>1, <3>1 DEF ReturnNoMessage, FreshBetweenFrames, ParserTypeOK
  <2>2. CASE ReturnBadFrame \/ ReturnFrame
    BY <2>2, ResetState DEF ReturnBadFrame, ReturnFrame, ParserTypeOK
  <2> QED
    BY <2>1, <2>2
<1>2. ParserTypeOK'
  BY <1>1 DEF LeaveCall, ParserTypeOK
<1>3. FreshBetweenFrames' /\ EndOnlyAtFlag'
  BY <1>1 DEF LeaveCall, FreshBetweenFrames, Fresh, EndOnlyAtFlag
<1> QED
  BY <1>2, <1>3

LEMMA ParserStutter ==
  ASSUME ParserInv, UNCHANGED parserVars
  PROVE  ParserInv'
  BY DEF parserVars, ParserInv, ParserTypeOK, FreshBetweenFrames, Fresh, EndOnlyAtFlag,
         InFrame, AtFlag, Here

LEMMA FlagKept == ParserInv => KeptByteIsFlag
  BY DEF ParserInv, KeptByteIsFlag, EndOnlyAtFlag, FrameFound, ParserTypeOK, HdlcState, Int16

----------------------------------------------------------------------------
(* No turn of the loop is near an overflow of the int index.  When it does *)
(* overflow in a frame, the closing flag gets a negative index and is not  *)
(* seen as one.                                                            *)
IndexInRange == hdlc_state.src_index \in 0 .. INT_MAX - 4

(* Where the decoder is in a frame: how many bytes it has counted since    *)
(* the start flag, that flag included.                                     *)
Distance == hdlc_state.src_index - hdlc_state.start_index

(* One turn of the loop, in the members of hdlc_state it reads and writes. *)
Kept == UNCHANGED <<hdlc_state.start_index, hdlc_state.end_index>>
Counted ==
  i' = i + 1 /\ phase' = phase /\ hdlc_state'.src_index = Wrap(hdlc_state.src_index + 1)
NothingStored == hdlc_state'.dest_index = hdlc_state.dest_index /\ dest' = dest
SameBytes == hdlc_state'.fcs = hdlc_state.fcs /\ control' = control

Skipped == ~InFrame /\ ~AtFlag /\ Counted /\ Kept /\ NothingStored
Discarded ==
  AtFlag /\ RedundantFlag /\ UNCHANGED <<hdlc_state, control, dest, phase>> /\ i' = i + 1
Opened ==
  /\ AtFlag /\ ~InFrame /\ ~RedundantFlag /\ Counted /\ NothingStored /\ SameBytes
  /\ hdlc_state'.start_index = hdlc_state.src_index
  /\ hdlc_state'.control_escape = hdlc_state.control_escape
Closed ==
  /\ AtFlag /\ InFrame /\ ~RedundantFlag /\ NothingStored /\ SameBytes
  /\ hdlc_state'.start_index = hdlc_state.start_index
  /\ hdlc_state'.src_index = hdlc_state.src_index
  /\ hdlc_state'.end_index = hdlc_state.src_index
  /\ hdlc_state'.control_escape = hdlc_state.control_escape
  /\ phase' = "return" /\ i' = i
Escaped ==
  /\ InFrame /\ Here = HDLC_CONTROL_ESCAPE /\ Counted /\ Kept /\ NothingStored /\ SameBytes
  /\ hdlc_state'.control_escape = TRUE
Taken ==
  /\ InFrame /\ ~AtFlag /\ Here # HDLC_CONTROL_ESCAPE /\ Counted /\ Kept
  /\ hdlc_state'.control_escape = FALSE
  /\ hdlc_state'.fcs = calc_fcs(hdlc_state.fcs, Value)
  /\ control' = IF IsControl THEN hdlc_get_control_type(Value) ELSE control
  /\ \/ ~IsData /\ NothingStored
     \/ /\ IsData
        /\ hdlc_state'.dest_index = Wrap(hdlc_state.dest_index + 1)
        /\ dest' = [k \in DOMAIN dest \cup {hdlc_state.dest_index} |->
                      IF k = hdlc_state.dest_index THEN Value ELSE dest[k]]

LEMMA AdvanceEffect ==
  ASSUME ParserTypeOK, Scanning, NEW state \in HdlcState, Advance(state)
  PROVE  /\ i' = i + 1 /\ phase' = phase
         /\ hdlc_state'.src_index = Wrap(state.src_index + 1)
         /\ hdlc_state'.start_index = state.start_index
         /\ hdlc_state'.end_index = state.end_index
         /\ hdlc_state'.control_escape = state.control_escape
         /\ hdlc_state'.dest_index = state.dest_index
         /\ hdlc_state'.fcs = state.fcs
BY DEF Advance, HdlcState

LEMMA ScanEffect ==
  ASSUME ParserTypeOK, Scan
  PROVE  /\ phase = "scan" /\ i \in Nat /\ i < Len(src) /\ src' = src
         /\ Here \in Byte
         /\ Skipped \/ Discarded \/ Opened \/ Closed \/ Escaped \/ Taken
<1>1. Scanning /\ src' = src /\ hdlc_state \in HdlcState
  BY DEF Scan, SkipNoise, DiscardFlag, OpenFrame, CloseFrame, EscapeByte, TakeByte, Advance,
         ParserTypeOK
<1>2. phase = "scan" /\ i \in Nat /\ i < Len(src) /\ Here \in Byte
  BY <1>1, HereType DEF Scanning
<1>3. CASE SkipNoise
  <2>1. Skipped
    BY <1>1, <1>3, AdvanceEffect DEF SkipNoise, Skipped, Counted, Kept, NothingStored
  <2> QED
    BY <1>1, <1>2, <2>1
<1>4. CASE DiscardFlag
  BY <1>1, <1>2, <1>4 DEF DiscardFlag, Discarded
<1>5. CASE OpenFrame
  <2> DEFINE state == [hdlc_state EXCEPT !.start_index = hdlc_state.src_index]
  <2>1. /\ state \in HdlcState /\ state.start_index = hdlc_state.src_index
        /\ state.src_index = hdlc_state.src_index /\ state.dest_index = hdlc_state.dest_index
        /\ state.fcs = hdlc_state.fcs /\ state.control_escape = hdlc_state.control_escape
    BY <1>1 DEF HdlcState
  <2>2. /\ Advance(state) /\ ~InFrame /\ AtFlag /\ ~RedundantFlag
        /\ dest' = dest /\ control' = control
    BY <1>5 DEF OpenFrame
  <2> HIDE DEF state
  <2>3. Opened
    BY <1>1, <2>1, <2>2, AdvanceEffect DEF Opened, Counted, NothingStored, SameBytes
  <2> QED
    BY <1>1, <1>2, <2>3
<1>6. CASE CloseFrame
  <2>1. Closed
    BY <1>1, <1>6 DEF CloseFrame, Closed, NothingStored, SameBytes, HdlcState
  <2> QED
    BY <1>1, <1>2, <2>1
<1>7. CASE EscapeByte
  <2> DEFINE state == [hdlc_state EXCEPT !.control_escape = TRUE]
  <2>1. /\ state \in HdlcState /\ state.start_index = hdlc_state.start_index
        /\ state.end_index = hdlc_state.end_index
        /\ state.src_index = hdlc_state.src_index /\ state.dest_index = hdlc_state.dest_index
        /\ state.fcs = hdlc_state.fcs /\ state.control_escape = TRUE
    BY <1>1 DEF HdlcState
  <2>2. /\ Advance(state) /\ InFrame /\ Here = HDLC_CONTROL_ESCAPE
        /\ dest' = dest /\ control' = control
    BY <1>7 DEF EscapeByte
  <2> HIDE DEF state
  <2>3. Escaped
    BY <1>1, <2>1, <2>2, AdvanceEffect DEF Escaped, Counted, Kept, NothingStored, SameBytes
  <2> QED
    BY <1>1, <1>2, <2>3
<1>8. CASE TakeByte
  <2> DEFINE state == [hdlc_state EXCEPT
                         !.control_escape = FALSE,
                         !.fcs = calc_fcs(@, Value),
                         !.dest_index = IF IsData THEN Wrap(@ + 1) ELSE @]
  <2>1. Value \in Byte
    BY <1>2, Flip20Type DEF Value
  <2>2. calc_fcs(hdlc_state.fcs, Value) \in FcsValue
    BY <1>1, <2>1, FcsType DEF HdlcState
  <2>3. Wrap(hdlc_state.dest_index + 1) \in Int16
    BY <1>1, WrapType DEF HdlcState
  <2>4. /\ state \in HdlcState /\ state.start_index = hdlc_state.start_index
        /\ state.end_index = hdlc_state.end_index /\ state.control_escape = FALSE
        /\ state.src_index = hdlc_state.src_index
        /\ state.fcs = calc_fcs(hdlc_state.fcs, Value)
        /\ state.dest_index = IF IsData THEN Wrap(hdlc_state.dest_index + 1)
                              ELSE hdlc_state.dest_index
    BY <1>1, <2>2, <2>3 DEF HdlcState
  <2>5. /\ Advance(state) /\ InFrame /\ ~AtFlag /\ Here # HDLC_CONTROL_ESCAPE
        /\ dest' = IF IsData
                   THEN [k \in DOMAIN dest \cup {hdlc_state.dest_index} |->
                           IF k = hdlc_state.dest_index THEN Value ELSE dest[k]]
                   ELSE dest
        /\ control' = IF IsControl THEN hdlc_get_control_type(Value) ELSE control
    BY <1>8 DEF TakeByte
  <2> HIDE DEF state
  <2>6. /\ Counted /\ Kept /\ hdlc_state'.control_escape = FALSE
        /\ hdlc_state'.dest_index = state.dest_index
        /\ hdlc_state'.fcs = state.fcs
    BY <1>1, <2>4, <2>5, AdvanceEffect DEF Counted, Kept
  <2>7. Taken
    BY <2>4, <2>5, <2>6 DEF Taken, NothingStored
  <2> QED
    BY <1>1, <1>2, <2>7
<1> QED
  BY <1>3, <1>4, <1>5, <1>6, <1>7, <1>8 DEF Scan

----------------------------------------------------------------------------
(* Out of reach of an overflow, nothing wraps.                             *)
LEMMA DistanceArithmetic ==
  ASSUME ParserTypeOK, IndexInRange, IndexInRange'
  PROVE  /\ Distance \in Int
         /\ InFrame => Distance <= INT_MAX - 4
         /\ InFrame /\ JustOpened => Distance = 1
         /\ InFrame /\ Distance = 1 => JustOpened
         /\ InFrame /\ Distance > 0 => (IsControl <=> Distance = 2)
         /\ InFrame /\ Distance > 0 => (IsData <=> Distance > 2)
         /\ hdlc_state'.start_index = hdlc_state.start_index
              /\ hdlc_state'.src_index = Wrap(hdlc_state.src_index + 1)
              => Distance' = Distance + 1
         /\ hdlc_state'.start_index = hdlc_state.src_index
              /\ hdlc_state'.src_index = Wrap(hdlc_state.src_index + 1)
              => Distance' = 1
<1> DEFINE start == hdlc_state.start_index
           here == hdlc_state.src_index
<1>1. /\ start \in Int /\ here \in Int /\ start >= -INT_MAX - 1 /\ 0 <= here
      /\ start <= INT_MAX /\ here <= INT_MAX - 4 /\ INT_MAX \in Int /\ INT_MAX >= 7
  BY IntMaxAssumption DEF ParserTypeOK, HdlcState, Int16, IndexInRange
<1>2. Wrap(here + 1) = here + 1
  BY <1>1 DEF Wrap
<1>3. Distance = here - start /\ (InFrame <=> start >= 0)
  BY DEF Distance, InFrame
<1>4. Distance' = hdlc_state'.src_index - hdlc_state'.start_index
  BY DEF Distance
<1>5. /\ JustOpened <=> Wrap(start + 1) = here
      /\ IsControl <=> here = Wrap(start + 2)
      /\ IsData <=> here > Wrap(start + 2)
  BY DEF JustOpened, IsControl, IsData, ControlIndex
<1>6. \A k \in {1, 2} : start < here => Wrap(start + k) = start + k
  BY <1>1 DEF Wrap
<1>7. start >= 0 /\ Wrap(start + 1) = here => here = start + 1
  <2> HIDE DEF start, here
  <2>1. CASE start + 1 <= INT_MAX
    BY <1>1, <2>1 DEF Wrap
  <2>2. CASE start = INT_MAX
    <3>1. INT_MAX + 1 > INT_MAX /\ (INT_MAX + 1) - 2 * (INT_MAX + 1) < 0
      BY <1>1
    <3>2. Wrap(start + 1) < 0
      BY <2>2, <3>1 DEF Wrap
    <3> QED
      BY <1>1, <3>2
  <2> QED
    BY <1>1, <2>1, <2>2
<1> HIDE DEF start, here
<1> QED
  BY <1>1, <1>2, <1>3, <1>4, <1>5, <1>6, <1>7 DEF start, here

=============================================================================
