------------------------------ MODULE LcdPrint ------------------------------
(***************************************************************************)
(* lcd_print.cpp over the display that TextDisplay promises: the scrolling *)
(* window of a message's text in the top row, its numbers in the bottom    *)
(* row.  A message is a text and what snprintf makes of its three numbers. *)
(***************************************************************************)
EXTENDS Screen, Sequences

CONSTANTS
  Message,     \* [str : Seq(Byte), numbers : Seq(Byte)]
  Behind,      \* what may follow displayArray in memory, up to a zero byte
  ClockRange,  \* unsigned long counts modulo this
  StartTime,   \* what millis() may be at first
  Elapse,      \* milliseconds that may pass in a step
  MaxTime,     \* bound: milliseconds
  MaxPrints    \* bound: calls of printLcd

ASSUME MessageAssumption ==
  \A m \in Message : m.str \in Seq(Byte) \ {<<>>} /\ m.numbers \in Seq(Byte)
ASSUME BehindAssumption == Behind \subseteq Seq(Byte)
ASSUME ClockAssumption ==
  /\ ClockRange \in Nat \ {0} /\ StartTime \subseteq 0 .. ClockRange - 1
  /\ Elapse \subseteq Nat /\ MaxTime \in Nat /\ MaxPrints \in Nat

IntRange == 65536  \* incrementValue is divided as a size_t

NoMessage == [str |-> <<>>, numbers |-> <<>>]

VARIABLES
  screen,          \* the display
  requests,        \* what printLcd has yet to ask of it
  millis,          \* the clock
  startTime,       \* textCounter
  incrementValue,
  message,         \* history: the message printed last, or NoMessage
  sinceStep,       \* history: milliseconds since startTime was set, not wrapped
  time, prints

vars ==
  <<screen, requests, millis, startTime, incrementValue, message, sinceStep, time, prints>>

(* lcd_init, lcd_home, lcd_led(0).                                         *)
Initialised ==
  Apply([op |-> "lcd_led", onoff |-> 0], Apply([op |-> "lcd_home"], BlankScreen))

(* The program has just called Lcd_inciliation.                            *)
Init ==
  /\ screen = Initialised /\ requests = <<>>
  /\ millis \in StartTime /\ startTime = millis
  /\ incrementValue = 0
  /\ message = NoMessage
  /\ sinceStep = 0 /\ time = 0 /\ prints = 0

(* It may do so again.                                                     *)
Lcd_inciliation ==
  /\ requests = <<>>
  /\ screen' = Initialised
  /\ startTime' = millis /\ sinceStep' = 0
  /\ message' = NoMessage
  /\ UNCHANGED <<requests, millis, incrementValue, time, prints>>

(* Mutant: the clock is taken not to wrap.                                 *)
ClockNeverWraps(now, n) == now + n

Later(now, n) == (now + n) % ClockRange

Tick(n) ==
  /\ time + n <= MaxTime
  /\ millis' = Later(millis, n)
  /\ sinceStep' = sinceStep + n
  /\ time' = time + n
  /\ UNCHANGED <<screen, requests, startTime, incrementValue, message, prints>>

----------------------------------------------------------------------------
(* Copied with strncpy, into topLine of 64 bytes and an array of 17.       *)
topLine(str) == SubSeq(str, 1, IF Len(str) < 63 THEN Len(str) ELSE 63)

fillBuffer1(source, n) ==
  LET startIndex == n % Len(source)
  IN  [i \in 1 .. 16 |-> source[((startIndex + i - 1) % Len(source)) + 1]]

fillBuffer2(numbers) == SubSeq(numbers, 1, IF Len(numbers) < 16 THEN Len(numbers) ELSE 16)

lcd_gotoxy(x, y) == <<[op |-> "lcd_gotoxy", x |-> x, y |-> y]>>

lcd_puts(text) == [k \in DOMAIN text |-> [op |-> "lcd_putc", c |-> text[k]]]

(* Mutant: displayArray is put once, the display is left to wrap it.       *)
PutOnce(top, bottom, behind) ==
  LET end == IF Len(bottom) = 16 THEN bottom \o behind ELSE bottom
  IN  lcd_gotoxy(0, 0) \o lcd_puts(top \o end)

(* The first half of displayArray has no zero byte, the second one only if *)
(* it is not filled: both strings run on.                                  *)
PutRows(top, bottom, behind) ==
  LET end == IF Len(bottom) = 16 THEN bottom \o behind ELSE bottom
  IN  lcd_gotoxy(0, 0) \o lcd_puts(top \o end) \o lcd_gotoxy(0, 1) \o lcd_puts(end)

(* Mutant: times are compared, not their difference.                       *)
DueAtTime(now, start) == now >= (start + 500) % ClockRange

Due(now, start) == (now - start) % ClockRange >= 500

(* The call, up to its first request of the display.                       *)
printLcd(m) ==
  /\ requests = <<>>
  /\ prints < MaxPrints
  /\ prints' = prints + 1
  /\ IF Due(millis, startTime)
     THEN /\ incrementValue' = (incrementValue + 1) % IntRange
          /\ startTime' = millis /\ sinceStep' = 0
     ELSE UNCHANGED <<incrementValue, startTime, sinceStep>>
  /\ \E behind \in Behind :
       requests' = PutRows(fillBuffer1(topLine(m.str), incrementValue'),
                           fillBuffer2(m.numbers), behind)
  /\ message' = m
  /\ UNCHANGED <<screen, millis, time>>

(* The display does what printLcd asks of it next.                         *)
Put ==
  /\ requests # <<>>
  /\ screen' = Apply(Head(requests), screen)
  /\ requests' = Tail(requests)
  /\ UNCHANGED <<millis, startTime, incrementValue, message, sinceStep, time, prints>>

Next ==
  \/ Lcd_inciliation
  \/ \E n \in Elapse : Tick(n)
  \/ \E m \in Message : printLcd(m)
  \/ Put

Spec == Init /\ [][Next]_vars

----------------------------------------------------------------------------
TypeOK ==
  /\ screen \in Screen
  /\ requests \in Seq([op : {"lcd_gotoxy"}, x : {0}, y : {0, 1}] \cup [op : {"lcd_putc"}, c : Byte])
  /\ millis \in 0 .. ClockRange - 1 /\ startTime \in 0 .. ClockRange - 1
  /\ incrementValue \in 0 .. IntRange - 1
  /\ message \in Message \cup {NoMessage}
  /\ sinceStep \in 0 .. MaxTime /\ time \in 0 .. MaxTime /\ prints \in 0 .. MaxPrints

Row(start) == [k \in 1 .. LCD_DISP_LENGTH |-> screen.cells[start + k - 1]]

(* The text, over and over, without its first n characters.                *)
Scrolled(str, n) == [k \in 1 .. LCD_DISP_LENGTH |-> str[((n + k - 1) % Len(str)) + 1]]

(* docs/ARCHITECTURE.md:147-150: the top row is a window of the text that  *)
(* wraps around, the bottom row begins with the numbers, as far as they    *)
(* fit.  Neither half of displayArray ends with a zero byte                *)
(* (lcd_print.cpp:71-80), so this rests on where the cells behind a row    *)
(* are and on the order in which the rows are put.                         *)
RowsShowMessage ==
  message # NoMessage /\ requests = <<>> =>
    /\ Row(LCD_START_LINE1) = Scrolled(message.str, incrementValue)
    /\ \A k \in 1 .. LCD_DISP_LENGTH \cap DOMAIN message.numbers :
         Row(LCD_START_LINE2)[k] = message.numbers[k]

(* docs/ARCHITECTURE.md:149 "the bottom row shows the three numbers": what *)
(* they do not fill of it is empty.                                        *)
BottomRowIsNumbers ==
  message # NoMessage /\ requests = <<>> =>
    \A k \in 1 .. LCD_DISP_LENGTH \ DOMAIN message.numbers : Row(LCD_START_LINE2)[k] = Blank

(* docs/ARCHITECTURE.md:147: the window moves by one character in the      *)
(* first call 500 ms or more after it last moved and not before, also when *)
(* the clock has wrapped in between (lcd_print.cpp:48).                    *)
ScrollsInTime ==
  [][prints' # prints /\ sinceStep < ClockRange =>
       incrementValue' = (incrementValue + IF sinceStep >= 500 THEN 1 ELSE 0) % IntRange]_vars

=============================================================================
