------------------------------ MODULE Hd44780 ------------------------------
(***************************************************************************)
(* The display's controller as lcdpcf8574.cpp uses it: it takes a nibble,  *)
(* or in its mode of 8 bits an instruction, when the pin E falls.          *)
(***************************************************************************)
EXTENDS LcdDriver

CONSTANTS
  Undriven,   \* what four pins of the display that nobody drives may read
  ClearTime   \* bytes the bus carries in the 1.52 ms that clearing takes

ASSUME UndrivenAssumption == Undriven \subseteq 0 .. 15 /\ Undriven # {}
ASSUME ClearTimeAssumption == ClearTime \in Nat

(* The first half of a byte, in the mode of 4 bits: none, one that was     *)
(* read from the display, or the nibble written to it.                     *)
NoHalf == 16
ReadHalf == 17

Controller ==
  [eight : BOOLEAN, half : 0 .. ReadHalf, twoLines : BOOLEAN, increments : BOOLEAN,
   cgram : BOOLEAN, busy : 0 .. ClearTime, on : BOOLEAN,
   cells : [Address -> Byte], cursor : Address]

PoweredUp ==
  [eight |-> TRUE, half |-> NoHalf, twoLines |-> FALSE, increments |-> TRUE,
   cgram |-> FALSE, busy |-> 0, on |-> FALSE,
   cells |-> [a \in Address |-> Blank], cursor |-> LCD_START_LINE1]

Homed(k) == [k EXCEPT !.cursor = LCD_START_LINE1, !.cgram = FALSE, !.busy = ClearTime]

Instruct(k, i) ==
  CASE i >= DDRAM   -> [k EXCEPT !.cgram = FALSE,
                          !.cursor = IF i - DDRAM \in Address THEN i - DDRAM ELSE @]
    [] i \in 64 .. 127 -> [k EXCEPT !.cgram = TRUE]
    [] i \in 32 .. 63  -> [k EXCEPT !.eight = (Bit(i, 4) = 1), !.twoLines = (Bit(i, 3) = 1)]
    [] i \in 8 .. 15   -> [k EXCEPT !.on = (Bit(i, 2) = 1)]
    [] i \in 4 .. 7    -> [k EXCEPT !.increments = (Bit(i, 1) = 1)]
    [] i \in 2 .. 3    -> Homed(k)
    [] i = 1        -> [Homed(k) EXCEPT !.cells = [a \in Address |-> Blank], !.increments = TRUE]
    [] OTHER        -> k

Store(k, c) ==
  IF k.cgram THEN k
  ELSE [k EXCEPT !.cells[k.cursor] = c,
          !.cursor = IF k.increments THEN NextAddress(k.cursor)
                     ELSE CHOOSE a \in Address : NextAddress(a) = k.cursor]

(* What comes while the display is busy is lost.                           *)
Execute(k, rs, byte) ==
  CASE k.busy > 0 -> k
    [] k.busy = 0 /\ rs = 1 -> Store(k, byte)
    [] k.busy = 0 /\ rs = 0 -> Instruct(k, byte)

(* E has fallen with these pins: what the display may be then.  A byte of  *)
(* which one half was read and the other written may have any high half.   *)
Latch(k, pins) ==
  LET nibble == pins \div 16
      rs == Bit(pins, LCD_RS_PIN)
      reads == Bit(pins, LCD_RW_PIN) = 1
      completed(high, low) == Execute([k EXCEPT !.half = NoHalf], rs, 16 * high + low)
  IN  CASE k.eight /\ reads  -> {k}
        [] k.eight /\ ~reads -> {completed(nibble, low) : low \in Undriven}
        [] ~k.eight /\ k.half = NoHalf ->
             {[k EXCEPT !.half = IF reads THEN ReadHalf ELSE nibble]}
        [] ~k.eight /\ k.half # NoHalf /\ reads -> {[k EXCEPT !.half = NoHalf]}
        [] ~k.eight /\ k.half # NoHalf /\ ~reads ->
             {completed(high, nibble) : high \in IF k.half = ReadHalf THEN Undriven ELSE {k.half}}

(* The pins change from old to new, some time after the last change.  When *)
(* the others change together with E, the display may see either.          *)
Driven(k, old, new) ==
  LET rested == [k EXCEPT !.busy = IF @ = 0 THEN 0 ELSE @ - 1]
  IN  IF Bit(old, LCD_E_PIN) = 1 /\ Bit(new, LCD_E_PIN) = 0
      THEN Latch(rested, old) \cup Latch(rested, new)
      ELSE {rested}

=============================================================================
