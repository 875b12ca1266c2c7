--------------------------- MODULE LcdPrintProofs ---------------------------
(***************************************************************************)
(* Proofs about LcdPrint: the difference of two readings of a clock that   *)
(* wraps is the time between them, so the text moves when it should; and   *)
(* the requests of a job, in their order, leave the rows as documented.    *)
(***************************************************************************)
EXTENDS LcdPrint, SequenceTheorems, TLAPS

(* Numbers below R are their own remainders, whatever multiple is added.   *)
LEMMA RemainderOfSum ==
  ASSUME NEW R \in Nat \ {0}, NEW a \in 0 .. R - 1, NEW k \in Int
  PROVE  (a + k * R) % R = a
<1> DEFINE x == a + k * R
<1> DEFINE q == x \div R
<1> DEFINE r == x % R
<1>1. x \in Int /\ q \in Int
  OBVIOUS
<1>2. r \in 0 .. R - 1 /\ x = R * q + r
  BY <1>1
<1>3. a - r = R * (q - k)
  BY <1>1, <1>2
<1>4. CASE q - k >= 1
  <2>1. R * (q - k) >= R
    BY <1>1, <1>4
  <2> QED BY <2>1, <1>2, <1>3
<1>5. CASE q - k <= -1
  <2>1. R * (q - k) <= -R
    BY <1>1, <1>5
  <2> QED BY <2>1, <1>2, <1>3
<1>6. CASE q - k = 0
  BY <1>1, <1>2, <1>3, <1>6
<1> QED BY <1>1, <1>4, <1>5, <1>6

LEMMA SmallRemainder ==
  ASSUME NEW R \in Nat \ {0}, NEW a \in 0 .. R - 1
  PROVE  a % R = a
<1>1. (a + 0 * R) % R = a
  BY RemainderOfSum
<1>2. a + 0 * R = a
  OBVIOUS
<1> QED BY <1>1, <1>2

(* The clocks differ by the time that has passed, up to turns of the clock. *)
ClockInv ==
  /\ millis \in 0 .. ClockRange - 1 /\ startTime \in 0 .. ClockRange - 1
  /\ sinceStep \in Nat /\ incrementValue \in 0 .. IntRange - 1
  /\ \E turns \in Int : sinceStep = millis - startTime + turns * ClockRange

(* A clock read now is n later than before, up to turns.                   *)
LEMMA LaterTurns ==
  ASSUME NEW now \in Nat, NEW n \in Nat
  PROVE  /\ Later(now, n) \in 0 .. ClockRange - 1
         /\ \E turns \in Int : now + n = Later(now, n) + turns * ClockRange
<1>1. ClockRange \in Nat \ {0}
  BY ClockAssumption
<1> DEFINE q == (now + n) \div ClockRange
<1>2. q \in Int /\ Later(now, n) \in 0 .. ClockRange - 1
  BY <1>1 DEF Later
<1>3. now + n = Later(now, n) + q * ClockRange
  BY <1>1 DEF Later
<1> QED BY <1>2, <1>3

(* printLcd finds the time due when 500 ms have passed since the window    *)
(* moved, if the clock has not turned as a whole (lcd_print.cpp:48).       *)
LEMMA DueInTime ==
  ASSUME ClockInv, sinceStep < ClockRange
  PROVE  Due(millis, startTime) <=> sinceStep >= 500
<1>1. PICK turns \in Int : sinceStep = millis - startTime + turns * ClockRange
  BY DEF ClockInv
<1>2. ClockRange \in Nat \ {0} /\ sinceStep \in 0 .. ClockRange - 1
  BY ClockAssumption DEF ClockInv
<1>3. -turns \in Int /\ millis - startTime = sinceStep + (-turns) * ClockRange
  BY <1>1, <1>2 DEF ClockInv
<1>4. (sinceStep + (-turns) * ClockRange) % ClockRange = sinceStep
  BY <1>2, <1>3, RemainderOfSum
<1> QED BY <1>3, <1>4 DEF Due

LEMMA ClockStep == ClockInv /\ [Next]_vars => ClockInv'
<1> SUFFICES ASSUME ClockInv, [Next]_vars PROVE ClockInv'
  OBVIOUS
<1>1. /\ ClockRange \in Nat \ {0} /\ millis \in 0 .. ClockRange - 1 /\ millis \in Nat
      /\ startTime \in 0 .. ClockRange - 1 /\ sinceStep \in Nat
      /\ incrementValue \in 0 .. IntRange - 1
  BY ClockAssumption DEF ClockInv
<1>2. PICK turns \in Int : sinceStep = millis - startTime + turns * ClockRange
  BY DEF ClockInv
<1>3. 0 = millis - millis + 0 * ClockRange
  BY <1>1
<1>4. CASE Lcd_inciliation
  BY <1>1, <1>3, <1>4 DEF Lcd_inciliation, ClockInv
<1>5. ASSUME NEW n \in Elapse, Tick(n) PROVE ClockInv'
  <2>1. /\ millis' = Later(millis, n) /\ sinceStep' = sinceStep + n
        /\ startTime' = startTime /\ incrementValue' = incrementValue
    BY <1>5 DEF Tick
  <2>2. n \in Nat
    BY ClockAssumption
  <2>3. PICK more \in Int : millis + n = Later(millis, n) + more * ClockRange
    BY <1>1, <2>2, LaterTurns
  <2>4. Later(millis, n) \in 0 .. ClockRange - 1
    BY <1>1, <2>2, LaterTurns
  <2>5. turns * ClockRange + more * ClockRange = (turns + more) * ClockRange
    BY <1>1
  <2>6. sinceStep' = millis' - startTime' + (turns + more) * ClockRange
    BY <1>1, <1>2, <2>1, <2>2, <2>3, <2>4, <2>5
  <2>7. turns + more \in Int /\ sinceStep' \in Nat
    BY <1>1, <2>1, <2>2
  <2>8. \E k \in Int : sinceStep' = millis' - startTime' + k * ClockRange
    BY <2>6, <2>7
  <2> QED BY <1>1, <2>1, <2>4, <2>7, <2>8 DEF ClockInv
<1>6. ASSUME NEW m \in Message, printLcd(m) PROVE ClockInv'
  <2>1. CASE Due(millis, startTime)
    <3>1. millis' = millis /\ startTime' = millis /\ sinceStep' = 0
            /\ incrementValue' = (incrementValue + 1) % IntRange
      BY <1>6, <2>1 DEF printLcd
    <3>2. (incrementValue + 1) % IntRange \in 0 .. IntRange - 1
      <4>1. IntRange \in Nat \ {0} /\ incrementValue + 1 \in Nat
        BY <1>1 DEF IntRange
      <4> QED BY <4>1
    <3> QED BY <1>1, <1>3, <3>1, <3>2 DEF ClockInv
  <2>2. CASE ~Due(millis, startTime)
    BY <1>6, <2>2 DEF printLcd, ClockInv
  <2> QED BY <2>1, <2>2
<1>7. CASE Put
  BY <1>7 DEF Put, ClockInv
<1>8. CASE UNCHANGED vars
  BY <1>8 DEF vars, ClockInv
<1> QED BY <1>4, <1>5, <1>6, <1>7, <1>8 DEF Next

THEOREM ClockInvariance == Spec => []ClockInv
<1>1. Init => ClockInv
  <2> SUFFICES ASSUME Init PROVE ClockInv
    OBVIOUS
  <2>1. millis \in 0 .. ClockRange - 1 /\ startTime = millis /\ sinceStep = 0 /\ incrementValue = 0
    BY ClockAssumption DEF Init
  <2>2. 0 = millis - millis + 0 * ClockRange
    BY <2>1, ClockAssumption
  <2> QED BY <2>1, <2>2 DEF ClockInv, IntRange
<1> QED BY <1>1, ClockStep, PTL DEF Spec

(* The window moves in the first call 500 ms or more after it last moved   *)
(* and not before, for every clock, message and sequence of calls.         *)
THEOREM MovesInTime == Spec => ScrollsInTime
<1> DEFINE moved == IF sinceStep >= 500 THEN 1 ELSE 0
<1>1. ASSUME ClockInv, [Next]_vars, prints' # prints, sinceStep < ClockRange
      PROVE  incrementValue' = (incrementValue + moved) % IntRange
  <2>1. ASSUME NEW m \in Message, printLcd(m)
        PROVE  incrementValue' = (incrementValue + moved) % IntRange
    <3>1. Due(millis, startTime) <=> sinceStep >= 500
      BY <1>1, DueInTime
    <3>2. CASE Due(millis, startTime)
      <4>1. moved = 1
        BY <3>1, <3>2
      <4>2. incrementValue' = (incrementValue + 1) % IntRange
        BY <2>1, <3>2 DEF printLcd
      <4> QED BY <4>1, <4>2
    <3>3. CASE ~Due(millis, startTime)
      <4>1. moved = 0
        BY <3>1, <3>3
      <4>2. incrementValue' = incrementValue
        BY <2>1, <3>3 DEF printLcd
      <4>3. IntRange \in Nat \ {0} /\ incrementValue \in 0 .. IntRange - 1
        <5>1. incrementValue \in 0 .. IntRange - 1
          BY <1>1 DEF ClockInv
        <5>2. IntRange \in Nat \ {0}
          BY DEF IntRange
        <5> QED BY <5>1, <5>2
      <4>4. incrementValue % IntRange = incrementValue
        BY <4>3, SmallRemainder
      <4>5. incrementValue + moved = incrementValue
        BY <4>1, <4>3
      <4> QED BY <4>2, <4>4, <4>5
    <3> QED BY <3>2, <3>3
  <2>2. ~Lcd_inciliation /\ ~Put /\ ~UNCHANGED vars /\ \A n \in Elapse : ~Tick(n)
    BY <1>1 DEF Lcd_inciliation, Put, vars, Tick
  <2> QED BY <1>1, <2>1, <2>2 DEF Next
<1> QED BY <1>1, ClockInvariance, PTL DEF Spec, ScrollsInTime

----------------------------------------------------------------------------
(* What printLcd asks of the display, for message m with the window moved  *)
(* n times and behind following displayArray.                              *)

Top(m, n) == fillBuffer1(topLine(m.str), n)
Bottom(m) == fillBuffer2(m.numbers)
End(m, behind) == IF Len(Bottom(m)) = 16 THEN Bottom(m) \o behind ELSE Bottom(m)
Job(m, n, behind) == PutRows(Top(m, n), Bottom(m), behind)

LEMMA TopType ==
  ASSUME NEW S \in SUBSET Byte, NEW m \in Message, m.str \in Seq(S), NEW n \in Nat
  PROVE  Top(m, n) \in Seq(S) /\ Len(Top(m, n)) = 16
<1> DEFINE s == topLine(m.str)
           top == Top(m, n)
<1>1. s \in Seq(S) /\ Len(s) > 0
  <2>1. m.str \in Seq(S) /\ Len(m.str) > 0
    BY MessageAssumption
  <2> QED BY <2>1 DEF topLine
<1>2. top = [i \in 1 .. 16 |-> s[(((n % Len(s)) + i - 1) % Len(s)) + 1]]
  BY DEF Top, fillBuffer1
<1> HIDE DEF s, top
<1>3. \A i \in 1 .. 16 : (((n % Len(s)) + i - 1) % Len(s)) + 1 \in 1 .. Len(s)
  <2>1. Len(s) \in Nat \ {0}
    BY <1>1
  <2>2. n % Len(s) \in 0 .. Len(s) - 1
    BY <2>1
  <2> QED BY <2>1, <2>2
<1>4. \A i \in 1 .. 16 : s[(((n % Len(s)) + i - 1) % Len(s)) + 1] \in S
  BY SMTT(20), <1>1, <1>3
<1>5. top \in Seq(S) /\ Len(top) = 16
  BY <1>2, <1>4
<1> QED BY <1>5 DEF top

LEMMA BottomType ==
  ASSUME NEW S \in SUBSET Byte, NEW m \in Message, m.numbers \in Seq(S)
  PROVE  Bottom(m) \in Seq(S) /\ Len(Bottom(m)) =< 16
BY DEF Bottom, fillBuffer2

LEMMA EndType ==
  ASSUME NEW S \in SUBSET Byte, NEW m \in Message, m.numbers \in Seq(S),
         NEW behind \in Seq(S)
  PROVE  /\ End(m, behind) \in Seq(S)
         /\ Len(End(m, behind)) =< 16 + Len(behind)
         /\ \A k \in 1 .. Len(Bottom(m)) :
              k \in 1 .. Len(End(m, behind)) /\ End(m, behind)[k] = Bottom(m)[k]
<1>1. Bottom(m) \in Seq(S) /\ Len(Bottom(m)) =< 16
  BY BottomType
<1> QED BY <1>1 DEF End

LEMMA TwoParts ==
  ASSUME NEW S, NEW s \in Seq(S), NEW t \in Seq(S)
  PROVE  /\ s \o t \in Seq(S) /\ Len(s \o t) = Len(s) + Len(t)
         /\ \A k \in 1 .. Len(s) : (s \o t)[k] = s[k]
         /\ \A k \in 1 .. Len(t) : (s \o t)[Len(s) + k] = t[k]
OBVIOUS

LEMMA FourParts ==
  ASSUME NEW S, NEW g \in Seq(S), NEW p \in Seq(S), NEW h \in Seq(S), NEW q \in Seq(S),
         NEW job, job = g \o p \o h \o q
  PROVE  /\ job \in Seq(S) /\ Len(job) = Len(g) + Len(p) + Len(h) + Len(q)
         /\ \A k \in 1 .. Len(g) : job[k] = g[k]
         /\ \A k \in 1 .. Len(p) : job[Len(g) + k] = p[k]
         /\ \A k \in 1 .. Len(h) : job[Len(g) + Len(p) + k] = h[k]
         /\ \A k \in 1 .. Len(q) : job[Len(g) + Len(p) + Len(h) + k] = q[k]
<1>1. PICK gp : gp = g \o p
  OBVIOUS
<1>2. /\ gp \in Seq(S) /\ Len(gp) = Len(g) + Len(p)
      /\ \A k \in 1 .. Len(g) : gp[k] = g[k]
      /\ \A k \in 1 .. Len(p) : gp[Len(g) + k] = p[k]
  BY <1>1, TwoParts
<1>4. gp \in Seq(S)
  BY <1>2
<1>3. PICK gph : gph = gp \o h
  OBVIOUS
<1>5. /\ gph \in Seq(S) /\ Len(gph) = Len(gp) + Len(h)
      /\ \A k \in 1 .. Len(gp) : gph[k] = gp[k]
      /\ \A k \in 1 .. Len(h) : gph[Len(gp) + k] = h[k]
  BY <1>3, <1>4, TwoParts
<1>6. /\ job \in Seq(S) /\ Len(job) = Len(gph) + Len(q)
      /\ \A k \in 1 .. Len(gph) : job[k] = gph[k]
      /\ \A k \in 1 .. Len(q) : job[Len(gph) + k] = q[k]
  BY <1>1, <1>3, <1>5, TwoParts
<1>7. \A k \in 1 .. Len(g) : job[k] = g[k]
  BY <1>2, <1>5, <1>6
<1>8. \A k \in 1 .. Len(p) : job[Len(g) + k] = p[k]
  BY <1>2, <1>5, <1>6
<1>9. \A k \in 1 .. Len(h) : job[Len(g) + Len(p) + k] = h[k]
  BY <1>2, <1>5, <1>6
<1>10. \A k \in 1 .. Len(q) : job[Len(g) + Len(p) + Len(h) + k] = q[k]
  BY <1>2, <1>5, <1>6
<1> QED BY <1>2, <1>5, <1>6, <1>7, <1>8, <1>9, <1>10

LEMMA Renumber ==
  ASSUME NEW L \in Nat, NEW job, NEW g, NEW p, NEW h, NEW q, NEW gl \in Nat, NEW pl \in Nat,
         NEW hl \in Nat, NEW ql \in Nat,
         gl = 1, pl = 16 + L, hl = 1, ql = L,
         \A k \in 1 .. gl : job[k] = g[k],
         \A k \in 1 .. pl : job[gl + k] = p[k],
         \A k \in 1 .. hl : job[gl + pl + k] = h[k],
         \A k \in 1 .. ql : job[gl + pl + hl + k] = q[k]
  PROVE  /\ gl + pl + hl + ql = 18 + 2 * L
         /\ job[1] = g[1]
         /\ \A k \in 1 .. 16 + L : job[1 + k] = p[k]
         /\ job[18 + L] = h[1]
         /\ \A k \in 1 .. L : job[18 + L + k] = q[k]
OBVIOUS

Character(c) == [op |-> "lcd_putc", c |-> c]
Position(y) == [op |-> "lcd_gotoxy", x |-> 0, y |-> y]

(* What a job asks of the display is a position or a character.            *)
Requests == [op : {"lcd_gotoxy"}, x : {0}, y : {0, 1}] \cup [op : {"lcd_putc"}, c : Byte]

LEMMA PutsType ==
  ASSUME NEW s \in Seq(Byte)
  PROVE  /\ lcd_puts(s) \in Seq(Requests) /\ Len(lcd_puts(s)) = Len(s)
         /\ \A k \in 1 .. Len(s) : lcd_puts(s)[k] = Character(s[k])
<1>1. \A k \in 1 .. Len(s) : Character(s[k]) \in Requests
  BY DEF Requests, Character
<1>2. lcd_puts(s) = [k \in 1 .. Len(s) |-> Character(s[k])]
  BY DEF lcd_puts, Character
<1> QED BY <1>1, <1>2

(* A job: the top row's place, the two rows and what follows, the bottom   *)
(* row's place, the bottom row and what follows.                           *)
LEMMA JobShape ==
  ASSUME NEW m \in Message, NEW n \in Nat, NEW behind \in Behind
  PROVE  LET L == Len(End(m, behind))
             job == Job(m, n, behind)
         IN  /\ L \in Nat /\ job \in Seq(Requests) /\ Len(job) = 18 + 2 * L
             /\ job[1] = Position(0)
             /\ \A k \in 1 .. 16 : job[1 + k] = Character(Top(m, n)[k])
             /\ \A k \in 1 .. L : job[17 + k] = Character(End(m, behind)[k])
             /\ job[18 + L] = Position(1)
             /\ \A k \in 1 .. L : job[18 + L + k] = Character(End(m, behind)[k])
<1> SUFFICES
      ASSUME NEW L, NEW job, L = Len(End(m, behind)), job = Job(m, n, behind)
      PROVE  /\ L \in Nat /\ job \in Seq(Requests) /\ Len(job) = 18 + 2 * L
             /\ job[1] = Position(0)
             /\ \A k \in 1 .. 16 : job[1 + k] = Character(Top(m, n)[k])
             /\ \A k \in 1 .. L : job[17 + k] = Character(End(m, behind)[k])
             /\ job[18 + L] = Position(1)
             /\ \A k \in 1 .. L : job[18 + L + k] = Character(End(m, behind)[k])
  BY Zenon
<1> DEFINE top == Top(m, n)
           e == End(m, behind)
           both == top \o e
           p == lcd_puts(both)
           q == lcd_puts(e)
           g == lcd_gotoxy(0, 0)
           h == lcd_gotoxy(0, 1)
<1>1. top \in Seq(Byte) /\ Len(top) = 16 /\ e \in Seq(Byte) /\ L = Len(e) /\ L \in Nat
  BY TopType, EndType, MessageAssumption, BehindAssumption
<1>2. job = g \o p \o h \o q
  BY DEF Job, PutRows, End
<1>3. /\ g \in Seq(Requests) /\ Len(g) = 1 /\ g[1] = Position(0)
      /\ h \in Seq(Requests) /\ Len(h) = 1 /\ h[1] = Position(1)
  BY DEF lcd_gotoxy, Requests, Position
<1> HIDE DEF top, e, g, h
<1>4. /\ both \in Seq(Byte) /\ Len(both) = Len(top) + Len(e)
      /\ \A k \in 1 .. Len(top) : both[k] = top[k]
      /\ \A k \in 1 .. Len(e) : both[Len(top) + k] = e[k]
  <2>1. top \in Seq(Byte) /\ e \in Seq(Byte)
    BY <1>1
  <2> QED BY <2>1, TwoParts
<1> HIDE DEF both
<1>5. /\ p \in Seq(Requests) /\ Len(p) = Len(both)
      /\ \A k \in 1 .. Len(both) : p[k] = Character(both[k])
  BY <1>4, PutsType
<1>6. /\ q \in Seq(Requests) /\ Len(q) = Len(e)
      /\ \A k \in 1 .. Len(e) : q[k] = Character(e[k])
  BY <1>1, PutsType
<1> HIDE DEF p, q
<1>7. PICK gl \in Nat, pl \in Nat, hl \in Nat, ql \in Nat :
        gl = Len(g) /\ pl = Len(p) /\ hl = Len(h) /\ ql = Len(q)
  <2>1. /\ g \in Seq(Requests) /\ p \in Seq(Requests)
        /\ h \in Seq(Requests) /\ q \in Seq(Requests)
    BY <1>3, <1>5, <1>6
  <2> QED BY <2>1
<1>8. gl = 1 /\ pl = 16 + L /\ hl = 1 /\ ql = L
  BY <1>1, <1>3, <1>4, <1>5, <1>6, <1>7
<1>9. /\ job \in Seq(Requests) /\ Len(job) = gl + pl + hl + ql
      /\ \A k \in 1 .. gl : job[k] = g[k]
      /\ \A k \in 1 .. pl : job[gl + k] = p[k]
      /\ \A k \in 1 .. hl : job[gl + pl + k] = h[k]
      /\ \A k \in 1 .. ql : job[gl + pl + hl + k] = q[k]
  <2>1. /\ g \in Seq(Requests) /\ p \in Seq(Requests)
        /\ h \in Seq(Requests) /\ q \in Seq(Requests)
    BY <1>3, <1>5, <1>6
  <2> QED BY <1>2, <1>7, <2>1, FourParts
<1>10. /\ gl + pl + hl + ql = 18 + 2 * L
       /\ job[1] = g[1]
       /\ \A k \in 1 .. 16 + L : job[1 + k] = p[k]
       /\ job[18 + L] = h[1]
       /\ \A k \in 1 .. L : job[18 + L + k] = q[k]
  <2>1. L \in Nat
    BY <1>1
  <2> QED BY <1>8, <1>9, <2>1, Renumber
<1>11. \A k \in 1 .. 16 : job[1 + k] = Character(top[k])
  <2> TAKE k \in 1 .. 16
  <2>1. k \in 1 .. Len(both) /\ k \in 1 .. Len(top) /\ k \in 1 .. 16 + L
    BY <1>1, <1>4
  <2> QED BY <1>4, <1>5, <1>10, <2>1
<1>12. \A k \in 1 .. L : job[17 + k] = Character(e[k])
  <2> TAKE k \in 1 .. L
  <2>1. /\ 16 + k \in 1 .. 16 + L /\ 17 + k = 1 + (16 + k) /\ 16 + k \in 1 .. Len(both)
        /\ k \in 1 .. Len(e) /\ Len(top) = 16
    BY <1>1, <1>4
  <2>2. job[17 + k] = p[16 + k]
    BY <1>10, <2>1
  <2>3. p[16 + k] = Character(both[16 + k])
    BY <1>5, <2>1
  <2>4. both[16 + k] = e[k]
    BY <1>4, <2>1
  <2> QED BY <2>2, <2>3, <2>4
<1>13. \A k \in 1 .. L : job[18 + L + k] = Character(e[k])
  BY <1>1, <1>6, <1>10
<1> QED BY <1>1, <1>3, <1>9, <1>10, <1>11, <1>12, <1>13 DEF top, e

----------------------------------------------------------------------------
(* What a request of a job does to the screen.                             *)

LEMMA AddressValue == Address = (0 .. 39) \cup (64 .. 103)
BY DEF Address, LCD_START_LINE1, LCD_START_LINE2, LineLength

LEMMA NextAddressValue ==
  ASSUME NEW a \in Address
  PROVE  /\ NextAddress(a) = IF a = 39 THEN 64 ELSE IF a = 103 THEN 0 ELSE a + 1
         /\ NextAddress(a) \in Address
BY DEF NextAddress, Address, LCD_START_LINE1, LCD_START_LINE2, LineLength

LEMMA PutCharacter ==
  ASSUME NEW s \in Screen, NEW c \in Byte, c # NewLine
  PROVE  /\ Apply(Character(c), s) \in Screen
         /\ Apply(Character(c), s).cells = [s.cells EXCEPT ![s.cursor] = c]
         /\ Apply(Character(c), s).cursor = NextAddress(s.cursor)
<1>1. Apply(Character(c), s) = Show(s, c)
  BY DEF Apply, Character
<1>2. s.cursor \in Address /\ NextAddress(s.cursor) \in Address
  BY NextAddressValue DEF Screen
<1> QED BY <1>1, <1>2 DEF Show, Screen

LEMMA PutPosition ==
  ASSUME NEW s \in Screen, NEW y \in {0, 1}
  PROVE  /\ Apply(Position(y), s) \in Screen
         /\ Apply(Position(y), s).cells = s.cells
         /\ Apply(Position(y), s).cursor = IF y = 0 THEN 0 ELSE 64
<1>1. Apply(Position(y), s) = MoveTo(s, IF y = 0 THEN 0 ELSE 64)
  BY DEF Apply, Position, LCD_START_LINE1, LCD_START_LINE2
<1>2. (IF y = 0 THEN 0 ELSE 64) \in Address
  BY AddressValue
<1> QED BY <1>1, <1>2 DEF MoveTo, Screen

LEMMA ApplyType ==
  ASSUME NEW s \in Screen, NEW r \in Requests
  PROVE  Apply(r, s) \in Screen
<1>1. CASE r.op = "lcd_gotoxy"
  <2>1. r.y \in {0, 1} /\ r = Position(r.y)
    BY <1>1 DEF Requests, Position
  <2> QED BY <2>1, PutPosition
<1>2. CASE r.op = "lcd_putc"
  <2>1. r.c \in Byte /\ r = Character(r.c)
    BY <1>2 DEF Requests, Character
  <2>2. CASE r.c # NewLine
    BY <2>1, <2>2, PutCharacter
  <2>3. CASE r.c = NewLine
    <3>1. Apply(r, s) = MoveTo(s, LCD_START_LINE2)
      BY <1>2, <2>3 DEF Apply
    <3>2. LCD_START_LINE2 \in Address
      BY AddressValue DEF LCD_START_LINE2
    <3> QED BY <3>1, <3>2 DEF MoveTo, Screen
  <2> QED BY <2>2, <2>3
<1> QED BY <1>1, <1>2 DEF Requests

LEMMA InitialisedType == Initialised \in Screen
<1>1. BlankScreen \in Screen
  <2>1. Blank \in Byte /\ LCD_START_LINE1 \in Address
    BY AddressValue DEF Blank, Byte, LCD_START_LINE1
  <2>2. TRUE \in BOOLEAN /\ FALSE \in BOOLEAN
    BY Zenon
  <2> QED BY <2>1, <2>2 DEF BlankScreen, Screen
<1> DEFINE home == Apply([op |-> "lcd_home"], BlankScreen)
<1>2. home \in Screen
  <2>1. home = MoveTo(BlankScreen, LCD_START_LINE1)
    BY DEF Apply
  <2>2. LCD_START_LINE1 \in Address
    BY AddressValue DEF LCD_START_LINE1
  <2> QED BY <1>1, <2>1, <2>2 DEF MoveTo, Screen
<1>3. Initialised = [home EXCEPT !.light = TRUE]
  BY DEF Initialised, Apply
<1> HIDE DEF home
<1>4. TRUE \in BOOLEAN
  BY Zenon
<1> QED BY <1>2, <1>3, <1>4 DEF Screen

----------------------------------------------------------------------------
(* The types.                                                              *)

Bounded ==
  /\ time \in 0 .. MaxTime /\ prints \in 0 .. MaxPrints /\ sinceStep =< time

Types ==
  /\ ClockInv /\ Bounded
  /\ screen \in Screen /\ requests \in Seq(Requests)
  /\ message \in Message \cup {NoMessage}

LEMMA InitTypes == Init => Types
<1> SUFFICES ASSUME Init PROVE Types
  OBVIOUS
<1>1. ClockInv
  <2>1. /\ millis \in 0 .. ClockRange - 1 /\ startTime = millis /\ sinceStep = 0
        /\ incrementValue = 0
    BY ClockAssumption DEF Init
  <2>2. 0 = millis - millis + 0 * ClockRange
    BY <2>1, ClockAssumption
  <2> QED BY <2>1, <2>2 DEF ClockInv, IntRange
<1>2. Bounded
  BY ClockAssumption DEF Init, Bounded
<1>3. screen \in Screen /\ message \in Message \cup {NoMessage}
  BY InitialisedType DEF Init
<1>4. requests \in Seq(Requests)
  BY DEF Init
<1> QED BY <1>1, <1>2, <1>3, <1>4 DEF Types

LEMMA NextTypes == Types /\ [Next]_vars => Types'
<1> SUFFICES ASSUME Types, [Next]_vars PROVE Types'
  OBVIOUS
<1>1. ClockInv'
  BY ClockStep DEF Types
<1>2. /\ time \in 0 .. MaxTime /\ prints \in 0 .. MaxPrints /\ sinceStep =< time
      /\ sinceStep \in Nat /\ MaxTime \in Nat /\ MaxPrints \in Nat
      /\ screen \in Screen /\ requests \in Seq(Requests)
      /\ message \in Message \cup {NoMessage} /\ incrementValue \in Nat
  BY ClockAssumption DEF Types, Bounded, ClockInv
<1>3. CASE Lcd_inciliation
  BY <1>1, <1>2, <1>3, InitialisedType DEF Lcd_inciliation, Types, Bounded
<1>4. ASSUME NEW n \in Elapse, Tick(n) PROVE Types'
  <2>1. n \in Nat
    BY ClockAssumption
  <2> QED BY <1>1, <1>2, <1>4, <2>1 DEF Tick, Types, Bounded
<1>5. ASSUME NEW m \in Message, printLcd(m) PROVE Types'
  <2>1. Bounded'
    BY <1>2, <1>5 DEF printLcd, Bounded
  <2>2. screen' = screen /\ message' = m
    BY <1>5 DEF printLcd
  <2>3. requests' \in Seq(Requests)
    <3>1. incrementValue' \in Nat
      BY <1>1 DEF ClockInv
    <3>2. PICK behind \in Behind : requests' = Job(m, incrementValue', behind)
      BY <1>5 DEF printLcd, Job, Top, Bottom
    <3> QED BY <3>1, <3>2, JobShape
  <2> QED BY <1>1, <1>2, <2>1, <2>2, <2>3 DEF Types
<1>6. CASE Put
  <2>1. Head(requests) \in Requests /\ Tail(requests) \in Seq(Requests)
    BY <1>2, <1>6 DEF Put
  <2>2. screen' \in Screen
    BY <1>2, <1>6, <2>1, ApplyType DEF Put
  <2> QED BY <1>1, <1>2, <1>6, <2>1, <2>2 DEF Put, Types, Bounded
<1>7. CASE UNCHANGED vars
  BY <1>1, <1>2, <1>7 DEF vars, Types, Bounded
<1> QED BY <1>3, <1>4, <1>5, <1>6, <1>7 DEF Next

(* Every variable of the printing keeps its type, whatever the messages,   *)
(* the memory behind displayArray and the clock: what printLcd asks of the *)
(* display are positions and bytes, and its cursor stays on the display.   *)
THEOREM TypeCorrect == Spec => []TypeOK
<1>1. Types => TypeOK
  BY ClockAssumption DEF Types, Bounded, ClockInv, TypeOK, Requests
<1> QED BY InitTypes, NextTypes, <1>1, PTL DEF Spec

----------------------------------------------------------------------------
(* The rows.  They can only be as documented if no text holds a new line,  *)
(* none is longer than topLine, and what follows displayArray fits in the  *)
(* part of a line of the display that is out of sight: one character more  *)
(* and the bottom row runs on into the top row.                            *)
Plain(s) == s \in Seq(Byte \ {NewLine})

PlainMessages ==
  \A m \in Message : Plain(m.str) /\ Len(m.str) =< 63 /\ Plain(m.numbers)

ShortBehind == \A behind \in Behind : Plain(behind) /\ Len(behind) =< 24

(* A screen on which p requests of a job have been done, for a top row and *)
(* a text e of L characters that is put twice.  The cells of the first     *)
(* line that are out of sight, and those of the second, take e; then the   *)
(* second line gets it in its place.                                       *)
Drawn(s, top, e, L, p) ==
  /\ \A k \in 1 .. 16 : k < p => s.cells[k - 1] = top[k]
  /\ \A k \in 1 .. L : 18 + L + k =< p => s.cells[63 + k] = e[k]
  /\ p \in 1 .. 17 + L => s.cursor = IF p =< 40 THEN p - 1 ELSE p + 23
  /\ p >= 18 + L => s.cursor = IF p - 18 - L = 40 THEN 0 ELSE 46 + p - L

Shown(m, n, behind, p) ==
  Drawn(screen, Top(m, n), End(m, behind), Len(End(m, behind)), p)

Left(m, n, behind, p) ==
  /\ Len(requests) = 18 + 2 * Len(End(m, behind)) - p
  /\ \A k \in 1 .. Len(requests) : requests[k] = Job(m, n, behind)[p + k]

RowsInv ==
  IF message = NoMessage
  THEN requests = <<>>
  ELSE \E behind \in Behind : \E p \in 0 .. 18 + 2 * Len(End(message, behind)) :
         Left(message, incrementValue, behind, p) /\ Shown(message, incrementValue, behind, p)

LEMMA PlainEnd ==
  ASSUME PlainMessages, ShortBehind, NEW m \in Message, NEW n \in Nat, NEW behind \in Behind
  PROVE  /\ \A k \in 1 .. 16 : Top(m, n)[k] \in Byte /\ Top(m, n)[k] # NewLine
         /\ Len(End(m, behind)) \in 0 .. 40
         /\ \A k \in 1 .. Len(End(m, behind)) :
              End(m, behind)[k] \in Byte /\ End(m, behind)[k] # NewLine
<1> DEFINE S == Byte \ {NewLine}
<1>1. S \in SUBSET Byte
  OBVIOUS
<1>2. /\ m.str \in Seq(S) /\ m.numbers \in Seq(S)
      /\ behind \in Seq(S) /\ Len(behind) =< 24
  BY DEF PlainMessages, ShortBehind, Plain
<1> HIDE DEF S
<1>3. Top(m, n) \in Seq(S)
  BY <1>1, <1>2, TopType
<1>4. Len(Top(m, n)) = 16
  BY <1>1, <1>2, TopType
<1>5. \A k \in 1 .. Len(Top(m, n)) : Top(m, n)[k] \in S
  BY <1>3
<1>6. \A k \in 1 .. 16 : Top(m, n)[k] \in S
  BY <1>4, <1>5
<1>7. End(m, behind) \in Seq(S)
  BY <1>1, <1>2, EndType
<1>8. Len(End(m, behind)) =< 16 + Len(behind)
  BY <1>1, <1>2, EndType
<1>9. Len(End(m, behind)) \in Nat /\ Len(behind) \in Nat
  BY <1>2, <1>7, LenProperties
<1>10. Len(End(m, behind)) \in 0 .. 40
  <2>1. Len(behind) =< 24
    BY DEF ShortBehind
  <2>2. \A a, b \in Nat : b =< 24 /\ a =< 16 + b => a \in 0 .. 40
    OBVIOUS
  <2> QED BY <1>8, <1>9, <2>1, <2>2, Zenon
<1>11. \A k \in 1 .. Len(End(m, behind)) : End(m, behind)[k] \in S
  BY <1>7
<1> QED BY <1>6, <1>10, <1>11 DEF S

(* The next request of a job brings the screen one request further.        *)
LEMMA NextDrawn ==
  ASSUME NEW L \in 0 .. 40, NEW top, NEW e, NEW r, NEW p \in 0 .. 17 + 2 * L,
         NEW s \in Screen, NEW u, u = Apply(r, s), Drawn(s, top, e, L, p),
         \A k \in 1 .. 16 : top[k] \in Byte /\ top[k] # NewLine,
         \A k \in 1 .. L : e[k] \in Byte /\ e[k] # NewLine,
         p = 0 => r = Position(0),
         p \in 1 .. 16 => r = Character(top[p]),
         p \in 17 .. 16 + L => r = Character(e[p - 16]),
         p = 17 + L => r = Position(1),
         p >= 18 + L => r = Character(e[p - 17 - L])
  PROVE  Drawn(u, top, e, L, p + 1)
<1>3. /\ \A k \in 1 .. 16 : k < p => s.cells[k - 1] = top[k]
      /\ \A k \in 1 .. L : 18 + L + k =< p => s.cells[63 + k] = e[k]
      /\ p \in 1 .. 17 + L => s.cursor = IF p =< 40 THEN p - 1 ELSE p + 23
      /\ p >= 18 + L => s.cursor = IF p - 18 - L = 40 THEN 0 ELSE 46 + p - L
  BY DEF Drawn
<1>4. L \in Nat /\ p \in Nat
  OBVIOUS
<1>5. s.cells \in [Address -> Byte] /\ s.cursor \in Address
  BY DEF Screen
<1> SUFFICES
      /\ \A k \in 1 .. 16 : k < p + 1 => u.cells[k - 1] = top[k]
      /\ \A k \in 1 .. L : 18 + L + k =< p + 1 => u.cells[63 + k] = e[k]
      /\ p + 1 \in 1 .. 17 + L => u.cursor = IF p + 1 =< 40 THEN (p + 1) - 1 ELSE (p + 1) + 23
      /\ p + 1 >= 18 + L =>
           u.cursor = IF (p + 1) - 18 - L = 40 THEN 0 ELSE 46 + (p + 1) - L
  BY DEF Drawn
<1>6. CASE p = 0
  <2>1. u.cells = s.cells /\ u.cursor = 0
    BY <1>4, <1>6, PutPosition
  <2> QED BY <1>6, <2>1
<1>7. CASE p \in 1 .. 16
  <2>1. r = Character(top[p]) /\ top[p] \in Byte /\ top[p] # NewLine
    BY <1>7
  <2>2. s.cursor = p - 1 /\ NextAddress(p - 1) = p
    BY <1>3, <1>5, <1>7, NextAddressValue
  <2>3. u.cells = [s.cells EXCEPT ![p - 1] = top[p]] /\ u.cursor = p
    BY <1>4, <2>1, <2>2, PutCharacter
  <2>4. \A k \in 1 .. 16 : k < p + 1 => u.cells[k - 1] = top[k]
    BY <1>3, <1>5, <1>7, <2>2, <2>3, AddressValue
  <2> QED BY <1>7, <2>3, <2>4
<1>8. CASE p \in 17 .. 16 + L
  <2>1. r = Character(e[p - 16]) /\ e[p - 16] \in Byte /\ e[p - 16] # NewLine
    <3>1. p - 16 \in 1 .. L
      BY <1>8
    <3> QED BY <1>8, <3>1
  <2>2. /\ s.cursor = IF p =< 40 THEN p - 1 ELSE p + 23
        /\ NextAddress(s.cursor) = IF p + 1 =< 40 THEN p ELSE p + 24
    BY <1>3, <1>5, <1>8, NextAddressValue
  <2>3. /\ u.cells = [s.cells EXCEPT ![s.cursor] = e[p - 16]]
        /\ u.cursor = NextAddress(s.cursor)
    BY <1>4, <2>1, PutCharacter
  <2>4. \A k \in 1 .. 16 : k - 1 \in Address /\ k - 1 # s.cursor
    BY <1>8, <2>2, AddressValue
  <2>5. \A k \in 1 .. 16 : u.cells[k - 1] = top[k]
    BY <1>3, <1>5, <1>8, <2>3, <2>4
  <2> QED BY <1>8, <2>2, <2>3, <2>5
<1>9. CASE p = 17 + L
  <2>1. r = Position(1)
    BY <1>9
  <2>2. u.cells = s.cells /\ u.cursor = 64
    BY <1>4, <2>1, PutPosition
  <2> QED BY <1>3, <1>9, <2>2
<1>10. CASE p >= 18 + L
  <2>1. r = Character(e[p - 17 - L]) /\ p - 17 - L \in 1 .. L
    BY <1>4, <1>10
  <2>2. e[p - 17 - L] \in Byte /\ e[p - 17 - L] # NewLine
    BY <2>1
  <2>3. /\ s.cursor = 46 + p - L
        /\ NextAddress(s.cursor) = IF p + 1 - 18 - L = 40 THEN 0 ELSE 46 + (p + 1) - L
    BY <1>3, <1>4, <1>5, <1>10, NextAddressValue
  <2>4. /\ u.cells = [s.cells EXCEPT ![s.cursor] = e[p - 17 - L]]
        /\ u.cursor = NextAddress(s.cursor)
    BY <1>4, <2>1, <2>2, PutCharacter
  <2>5. \A k \in 1 .. 16 : u.cells[k - 1] = top[k]
    <3>1. \A k \in 1 .. 16 : k - 1 \in Address /\ k - 1 # s.cursor
      BY <1>4, <1>10, <2>3, AddressValue
    <3> QED BY <1>3, <1>4, <1>5, <1>10, <2>4, <3>1
  <2>6. \A k \in 1 .. L : 18 + L + k =< p + 1 => u.cells[63 + k] = e[k]
    <3> SUFFICES ASSUME NEW k \in 1 .. L, 18 + L + k =< p + 1
                 PROVE  u.cells[63 + k] = e[k]
      OBVIOUS
    <3>1. 63 + k \in Address
      BY <1>4, AddressValue
    <3>2. CASE 18 + L + k = p + 1
      <4>1. 63 + k = s.cursor /\ k = p - 17 - L
        BY <1>4, <2>3, <3>2
      <4> QED BY <1>5, <2>4, <3>1, <4>1
    <3>3. CASE 18 + L + k =< p
      <4>1. 63 + k # s.cursor
        BY <1>4, <2>3, <3>3
      <4> QED BY <1>3, <1>5, <2>4, <3>1, <3>3, <4>1
    <3> QED BY <1>4, <3>2, <3>3
  <2> QED BY <1>4, <1>10, <2>3, <2>4, <2>5, <2>6
<1> QED BY <1>4, <1>6, <1>7, <1>8, <1>9, <1>10

LEMMA NextRequest ==
  ASSUME NEW m \in Message, NEW n \in Nat, NEW behind \in Behind,
         NEW p \in 0 .. 17 + 2 * Len(End(m, behind))
  PROVE  LET e == End(m, behind)
             L == Len(e)
             job == Job(m, n, behind)
         IN  /\ p = 0 => job[p + 1] = Position(0)
             /\ p \in 1 .. 16 => job[p + 1] = Character(Top(m, n)[p])
             /\ p \in 17 .. 16 + L => job[p + 1] = Character(e[p - 16])
             /\ p = 17 + L => job[p + 1] = Position(1)
             /\ p >= 18 + L => job[p + 1] = Character(e[p - 17 - L])
<1> DEFINE e == End(m, behind)
           L == Len(e)
           job == Job(m, n, behind)
<1>p. p \in 0 .. 17 + 2 * L
  OBVIOUS
<1>1. /\ L \in Nat
      /\ job[1] = Position(0)
      /\ \A k \in 1 .. 16 : job[1 + k] = Character(Top(m, n)[k])
      /\ \A k \in 1 .. L : job[17 + k] = Character(e[k])
      /\ job[18 + L] = Position(1)
      /\ \A k \in 1 .. L : job[18 + L + k] = Character(e[k])
  BY JobShape
<1> HIDE DEF e, L, job
<1>2. p \in Nat /\ p =< 17 + 2 * L
  BY <1>1, <1>p
<1>3. p \in 1 .. 16 => job[p + 1] = Character(Top(m, n)[p])
  <2>1. p + 1 = 1 + p
    BY <1>2
  <2> QED BY <1>1, <2>1
<1>4. ASSUME p \in 17 .. 16 + L PROVE job[p + 1] = Character(e[p - 16])
  <2>1. p - 16 \in 1 .. L /\ 17 + (p - 16) = p + 1
    BY <1>1, <1>2, <1>4
  <2> QED BY <1>1, <2>1
<1>5. p = 17 + L => job[p + 1] = Position(1)
  <2>1. p = 17 + L => p + 1 = 18 + L
    BY <1>1, <1>2
  <2> QED BY <1>1, <2>1
<1>6. ASSUME p >= 18 + L PROVE job[p + 1] = Character(e[p - 17 - L])
  <2>1. p - 17 - L \in 1 .. L /\ 18 + L + (p - 17 - L) = p + 1
    BY <1>1, <1>2, <1>6
  <2> QED BY <1>1, <2>1
<1>7. p = 0 => job[p + 1] = Position(0)
  BY <1>1
<1> QED BY <1>3, <1>4, <1>5, <1>6, <1>7 DEF e, L, job

LEMMA InitRows == Init => RowsInv
BY DEF Init, RowsInv

LEMMA PrintRows ==
  ASSUME Types', NEW m \in Message, printLcd(m)
  PROVE  RowsInv'
<1>1. incrementValue' \in Nat
  BY DEF Types, ClockInv
<1>2. PICK behind \in Behind : requests' = Job(m, incrementValue', behind)
  BY DEF printLcd, Job, Top, Bottom
<1>3. message' = m /\ m # NoMessage
  BY MessageAssumption DEF printLcd, NoMessage
<1> DEFINE n == incrementValue'
           L == Len(End(m, behind))
<1>4. L \in Nat /\ Len(Job(m, n, behind)) = 18 + 2 * L
  BY <1>1, JobShape
<1>5. Drawn(screen', Top(m, n), End(m, behind), L, 0)
  BY <1>4 DEF Drawn
<1>6. /\ Len(requests') = 18 + 2 * L - 0
      /\ \A k \in 1 .. Len(requests') : requests'[k] = Job(m, n, behind)[0 + k]
  BY <1>2, <1>4
<1>7. 0 \in 0 .. 18 + 2 * L
  BY <1>4
<1>8. \E p \in 0 .. 18 + 2 * L :
        Left(m, incrementValue, behind, p)' /\ Shown(m, incrementValue, behind, p)'
  BY <1>5, <1>6, <1>7 DEF Left, Shown
<1> QED BY <1>3, <1>8 DEF RowsInv

LEMMA PutRowsInv ==
  ASSUME PlainMessages, ShortBehind, Types, RowsInv, Put
  PROVE  RowsInv'
<1>1. /\ requests # <<>> /\ screen' = Apply(Head(requests), screen)
      /\ requests' = Tail(requests) /\ message' = message /\ incrementValue' = incrementValue
  BY DEF Put
<1>2. message \in Message /\ message # NoMessage
  BY <1>1 DEF Types, RowsInv
<1>3. incrementValue \in Nat /\ screen \in Screen /\ requests \in Seq(Requests)
  BY DEF Types, ClockInv
<1> DEFINE n == incrementValue
<1>4. PICK behind \in Behind : \E p \in 0 .. 18 + 2 * Len(End(message, behind)) :
        Left(message, n, behind, p) /\ Shown(message, n, behind, p)
  BY <1>2 DEF RowsInv
<1> DEFINE e == End(message, behind)
           L == Len(e)
           top == Top(message, n)
           job == Job(message, n, behind)
<1>5. PICK p \in 0 .. 18 + 2 * L : Left(message, n, behind, p) /\ Shown(message, n, behind, p)
  BY <1>4
<1>6. /\ L \in 0 .. 40
      /\ \A k \in 1 .. 16 : top[k] \in Byte /\ top[k] # NewLine
      /\ \A k \in 1 .. L : e[k] \in Byte /\ e[k] # NewLine
  BY <1>2, <1>3, PlainEnd
<1>7. /\ Len(requests) = 18 + 2 * L - p
      /\ \A k \in 1 .. Len(requests) : requests[k] = job[p + k]
      /\ Drawn(screen, top, e, L, p)
  BY <1>5 DEF Left, Shown
<1> HIDE DEF e, L, top, job
<1>8. Len(requests) > 0
  BY <1>1, <1>3
<1>9. p \in 0 .. 17 + 2 * L /\ p + 1 \in 0 .. 18 + 2 * L
  BY <1>6, <1>7, <1>8
<1>10. Head(requests) = job[p + 1]
  BY <1>1, <1>3, <1>7, <1>8
<1>11. /\ Len(requests') = 18 + 2 * L - (p + 1)
       /\ \A k \in 1 .. Len(requests') : requests'[k] = job[p + 1 + k]
  <2>1. /\ Len(Tail(requests)) = Len(requests) - 1
        /\ \A k \in 1 .. Len(requests) - 1 : Tail(requests)[k] = requests[k + 1]
    BY <1>1, <1>3
  <2>2. \A k \in 1 .. Len(requests) - 1 : requests[k + 1] = job[p + (k + 1)]
    BY <1>3, <1>7
  <2>3. Len(requests) \in Nat
    BY <1>3
  <2> QED BY <1>1, <1>6, <1>7, <1>9, <2>1, <2>2, <2>3
<1>12. Drawn(screen', top, e, L, p + 1)
  <2>1. /\ p = 0 => job[p + 1] = Position(0)
        /\ p \in 1 .. 16 => job[p + 1] = Character(top[p])
        /\ p \in 17 .. 16 + L => job[p + 1] = Character(e[p - 16])
        /\ p = 17 + L => job[p + 1] = Position(1)
        /\ p >= 18 + L => job[p + 1] = Character(e[p - 17 - L])
    BY <1>2, <1>3, <1>9, NextRequest DEF e, L, job, top
  <2> QED BY <1>1, <1>3, <1>6, <1>7, <1>9, <1>10, <2>1, NextDrawn
<1>13. /\ Left(message, incrementValue, behind, p + 1)'
       /\ Shown(message, incrementValue, behind, p + 1)'
  BY <1>1, <1>11, <1>12 DEF Left, Shown, e, L, top, job
<1>14. \E q \in 0 .. 18 + 2 * Len(End(message', behind)) :
         Left(message, incrementValue, behind, q)' /\ Shown(message, incrementValue, behind, q)'
  BY <1>1, <1>9, <1>13 DEF L, e
<1> QED BY <1>1, <1>2, <1>14 DEF RowsInv

LEMMA NextRows ==
  ASSUME PlainMessages, ShortBehind, Types, Types', RowsInv, [Next]_vars
  PROVE  RowsInv'
<1>1. CASE Lcd_inciliation
  BY <1>1 DEF Lcd_inciliation, RowsInv
<1>2. CASE UNCHANGED vars \/ \E n \in Elapse : Tick(n)
  <2>1. UNCHANGED <<screen, requests, message, incrementValue>>
    BY <1>2 DEF vars, Tick
  <2> QED BY <2>1 DEF RowsInv, Left, Shown
<1>3. CASE \E m \in Message : printLcd(m)
  BY <1>3, PrintRows
<1>4. CASE Put
  BY <1>4, PutRowsInv
<1> QED BY <1>1, <1>2, <1>3, <1>4 DEF Next

(* The window of fillBuffer1, reduced once or not, is the same.            *)
LEMMA ReducedOnce ==
  ASSUME NEW R \in Nat \ {0}, NEW n \in Nat, NEW i \in Nat
  PROVE  ((n % R) + i) % R = (n + i) % R
<1> DEFINE a == (n % R) + i
           b == n + i
           k == n \div R
<1>1. a \in Nat /\ b \in Nat /\ k \in Int /\ n = R * k + (n % R)
  OBVIOUS
<1>2. b = a + R * k
  BY <1>1
<1> DEFINE q == a \div R
<1>3. q \in Int /\ a = (a % R) + q * R
  BY <1>1
<1>4. a % R \in 0 .. R - 1
  BY <1>1
<1> HIDE DEF a, b, k, q
<1>5. b = (a % R) + (q + k) * R
  <2>1. (q + k) * R = q * R + R * k
    BY <1>1, <1>3
  <2>2. a % R \in Int
    BY <1>4
  <2>3. q * R \in Int /\ R * k \in Int
    BY <1>1, <1>3
  <2> QED BY <1>1, <1>2, <1>3, <2>1, <2>2, <2>3
<1>6. b % R = a % R
  <2>1. q + k \in Int
    BY <1>1, <1>3
  <2> QED BY <1>4, <1>5, <2>1, RemainderOfSum
<1> QED BY <1>6 DEF a, b

LEMMA WindowOfText ==
  ASSUME NEW str \in Seq(Byte), str # <<>>, Len(str) =< 63, NEW n \in Nat
  PROVE  fillBuffer1(topLine(str), n) = Scrolled(str, n)
<1>1. PICK L \in Nat \ {0} : L = Len(str)
  BY EmptySeq
<1>2. L =< 63
  BY <1>1
<1>3. topLine(str) = str
  <2> DEFINE t == topLine(str)
  <2>1. t = SubSeq(str, 1, Len(str))
    <3>1. (IF L < 63 THEN L ELSE 63) = L
      BY <1>2
    <3> QED BY <1>1, <3>1 DEF topLine
  <2>2. t \in Seq(Byte) /\ Len(t) = Len(str) /\ \A k \in 1 .. Len(str) : t[k] = str[k]
    BY <2>1
  <2> HIDE DEF t
  <2>3. t = str
    BY <2>2, SeqEqual
  <2> QED BY <2>3 DEF t
<1>4. \A k \in 1 .. 16 : ((n % L) + k - 1) % L = (n + k - 1) % L
  <2> TAKE k \in 1 .. 16
  <2>1. ((n % L) + (k - 1)) % L = (n + (k - 1)) % L
    <3>1. k - 1 \in Nat
      OBVIOUS
    <3> QED BY <3>1, ReducedOnce, Zenon
  <2>2. (n % L) + k - 1 = (n % L) + (k - 1) /\ n + k - 1 = n + (k - 1)
    OBVIOUS
  <2> QED BY <2>1, <2>2
<1> QED BY <1>1, <1>3, <1>4 DEF fillBuffer1, Scrolled, LCD_DISP_LENGTH

(* Whatever the program prints, and however often, once the job is done    *)
(* the top row is the window of the text and the bottom row begins with    *)
(* the numbers, for every text without a new line that topLine holds and   *)
(* every memory behind displayArray that the second line can take          *)
(* (lcd_print.cpp:71-80).                                                  *)
THEOREM RowsCorrect ==
  ASSUME PlainMessages, ShortBehind
  PROVE  Spec => []RowsShowMessage
<1>1. ASSUME Types, RowsInv PROVE RowsShowMessage
  <2> SUFFICES ASSUME message # NoMessage, requests = <<>>
               PROVE  /\ Row(LCD_START_LINE1) = Scrolled(message.str, incrementValue)
                      /\ \A k \in 1 .. LCD_DISP_LENGTH \cap DOMAIN message.numbers :
                           Row(LCD_START_LINE2)[k] = message.numbers[k]
    BY DEF RowsShowMessage
  <2> DEFINE n == incrementValue
             m == message
  <2>1. m \in Message /\ n \in Nat
    BY <1>1 DEF Types, ClockInv
  <2>2. PICK behind \in Behind : \E p \in 0 .. 18 + 2 * Len(End(m, behind)) :
          Left(m, n, behind, p) /\ Shown(m, n, behind, p)
    BY <1>1 DEF RowsInv
  <2> DEFINE e == End(m, behind)
  <2>3. PICK p \in 0 .. 18 + 2 * Len(e) : Left(m, n, behind, p) /\ Shown(m, n, behind, p)
    BY <2>2
  <2>4. Len(e) \in 0 .. 40
    BY <2>1, PlainEnd
  <2>5. p = 18 + 2 * Len(e)
    <3>1. Len(requests) = 18 + 2 * Len(e) - p /\ Len(requests) = 0
      BY <2>3 DEF Left
    <3> QED BY <2>4, <3>1
  <2>6. /\ \A k \in 1 .. 16 : screen.cells[k - 1] = Top(m, n)[k]
        /\ \A k \in 1 .. Len(e) : screen.cells[63 + k] = e[k]
    <3>1. /\ \A k \in 1 .. 16 : k < p
          /\ \A k \in 1 .. Len(e) : 18 + Len(e) + k =< p
      BY <2>4, <2>5
    <3> QED BY <2>3, <3>1 DEF Shown, Drawn
  <2>7. Row(LCD_START_LINE1) = Scrolled(m.str, n)
    <3>1. m.str \in Seq(Byte) /\ m.str # <<>> /\ Len(m.str) =< 63
      BY <2>1, MessageAssumption DEF PlainMessages
    <3>2. Top(m, n) = Scrolled(m.str, n)
      BY <2>1, <3>1, WindowOfText DEF Top
    <3>3. Scrolled(m.str, n) = [k \in 1 .. 16 |-> Scrolled(m.str, n)[k]]
      BY DEF Scrolled, LCD_DISP_LENGTH
    <3>4. \A k \in 1 .. 16 : 0 + k - 1 = k - 1
      OBVIOUS
    <3>5. Row(LCD_START_LINE1) = [k \in 1 .. 16 |-> screen.cells[k - 1]]
      BY <3>4 DEF Row, LCD_START_LINE1, LCD_DISP_LENGTH
    <3> QED BY <2>6, <3>2, <3>3, <3>5
  <2>8. ASSUME NEW k \in 1 .. LCD_DISP_LENGTH \cap DOMAIN m.numbers
        PROVE  Row(LCD_START_LINE2)[k] = m.numbers[k]
    <3>1. k \in 1 .. 16 /\ k \in 1 .. Len(m.numbers) /\ m.numbers \in Seq(Byte)
      BY <2>1, MessageAssumption DEF LCD_DISP_LENGTH
    <3>2. k \in 1 .. Len(Bottom(m)) /\ Bottom(m)[k] = m.numbers[k]
      BY <3>1 DEF Bottom, fillBuffer2
    <3>3. k \in 1 .. Len(e) /\ e[k] = Bottom(m)[k]
      BY <2>1, <3>2, EndType, MessageAssumption, BehindAssumption
    <3>4. Row(LCD_START_LINE2)[k] = screen.cells[64 + k - 1]
      BY <3>1 DEF Row, LCD_START_LINE2, LCD_DISP_LENGTH
    <3>5. 64 + k - 1 = 63 + k
      BY <3>1
    <3> QED BY <2>6, <3>2, <3>3, <3>4, <3>5
  <2> QED BY <2>7, <2>8
<1>2. Types /\ Types' /\ RowsInv /\ [Next]_vars => RowsInv'
  BY NextRows
<1> QED BY InitTypes, NextTypes, InitRows, <1>1, <1>2, PTL DEF Spec

=============================================================================
