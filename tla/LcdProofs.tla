----------------------------- MODULE LcdProofs ------------------------------
(***************************************************************************)
(* The display driver for every sequence of requests, restarts and missed  *)
(* bytes: the types, the truth of the cached pins, the mode in which       *)
(* lcd_init leaves the display and every call keeps it, and that a call    *)
(* shows what was asked for.                                               *)
(***************************************************************************)
EXTENDS Lcd, TLAPS

OnBus == Byte \cup {LongDelay}

(* The driver in the middle of a call, and after it has sent a byte: the   *)
(* last one sent is what it believes is on the pins.                       *)
InCall == [dataport : Byte, pinstatus : Byte, out : Seq(OnBus), data : Nat]
EndsWithPins(out, p) == out # <<>> /\ out[Len(out)] = p
Sent == {d \in InCall : EndsWithPins(d.out, d.pinstatus)}

----------------------------------------------------------------------------
(* Bits and bytes.                                                         *)

Pin == {LCD_RS_PIN, LCD_RW_PIN, LCD_E_PIN, LCD_LED_PIN, LCD_DATA0_PIN}

LEMMA PinWeight ==
  ASSUME NEW pin \in Pin
  PROVE  2 ^ pin \in {1, 2, 4, 8, 16}
BY 2 ^ 0 = 1, 2 ^ 1 = 2, 2 ^ 2 = 4, 2 ^ 3 = 8, 2 ^ 4 = 16
DEF Pin, LCD_RS_PIN, LCD_RW_PIN, LCD_E_PIN, LCD_LED_PIN, LCD_DATA0_PIN

LEMMA ReplaceBit ==
  ASSUME NEW b \in Byte, NEW bit \in 0 .. 1, NEW w \in {1, 2, 4, 8, 16}
  PROVE  (b \div w) % 2 \in 0 .. 1 /\ b + (bit - ((b \div w) % 2)) * w \in Byte
<1>1. CASE w = 1
  <2> DEFINE q == b \div 1
             m == q % 2
  <2>1. q \in 0 .. 255 /\ b - 1 * q \in 0 .. 0
    BY Z3 DEF Byte
  <2> HIDE DEF q
  <2>2. m \in 0 .. 1 /\ q - m \in 0 .. 254
    BY <2>1, Z3
  <2> HIDE DEF m
  <2>3. b + (bit - m) * 1 \in Byte
    BY <2>1, <2>2, Z3 DEF Byte
  <2> QED
    BY <1>1, <2>2, <2>3 DEF q, m
<1>2. CASE w = 2
  <2> DEFINE q == b \div 2
             m == q % 2
  <2>1. q \in 0 .. 127 /\ b - 2 * q \in 0 .. 1
    BY Z3 DEF Byte
  <2> HIDE DEF q
  <2>2. m \in 0 .. 1 /\ q - m \in 0 .. 126
    BY <2>1, Z3
  <2> HIDE DEF m
  <2>3. b + (bit - m) * 2 \in Byte
    BY <2>1, <2>2, Z3 DEF Byte
  <2> QED
    BY <1>2, <2>2, <2>3 DEF q, m
<1>3. CASE w = 4
  <2> DEFINE q == b \div 4
             m == q % 2
  <2>1. q \in 0 .. 63 /\ b - 4 * q \in 0 .. 3
    BY Z3 DEF Byte
  <2> HIDE DEF q
  <2>2. m \in 0 .. 1 /\ q - m \in 0 .. 62
    BY <2>1, Z3
  <2> HIDE DEF m
  <2>3. b + (bit - m) * 4 \in Byte
    BY <2>1, <2>2, Z3 DEF Byte
  <2> QED
    BY <1>3, <2>2, <2>3 DEF q, m
<1>4. CASE w = 8
  <2> DEFINE q == b \div 8
             m == q % 2
  <2>1. q \in 0 .. 31 /\ b - 8 * q \in 0 .. 7
    BY Z3 DEF Byte
  <2> HIDE DEF q
  <2>2. m \in 0 .. 1 /\ q - m \in 0 .. 30
    BY <2>1, Z3
  <2> HIDE DEF m
  <2>3. b + (bit - m) * 8 \in Byte
    BY <2>1, <2>2, Z3 DEF Byte
  <2> QED
    BY <1>4, <2>2, <2>3 DEF q, m
<1>5. CASE w = 16
  <2> DEFINE q == b \div 16
             m == q % 2
  <2>1. q \in 0 .. 15 /\ b - 16 * q \in 0 .. 15
    BY Z3 DEF Byte
  <2> HIDE DEF q
  <2>2. m \in 0 .. 1 /\ q - m \in 0 .. 14
    BY <2>1, Z3
  <2> HIDE DEF m
  <2>3. b + (bit - m) * 16 \in Byte
    BY <2>1, <2>2, Z3 DEF Byte
  <2> QED
    BY <1>5, <2>2, <2>3 DEF q, m
<1> QED
  BY <1>1, <1>2, <1>3, <1>4, <1>5

LEMMA WithPinType ==
  ASSUME NEW b \in Byte, NEW pin \in Pin, NEW v
  PROVE  WithPin(b, pin, v) \in Byte /\ Bit(b, pin) \in 0 .. 1
<1>1. 2 ^ pin \in {1, 2, 4, 8, 16}
  BY PinWeight
<1>2. Bit(b, pin) = (b \div 2 ^ pin) % 2
  BY DEF Bit
<1>3. Bit(b, pin) \in 0 .. 1
  BY <1>1, <1>2, ReplaceBit
<1>4. \A bit \in 0 .. 1 : b + (bit - Bit(b, pin)) * 2 ^ pin \in Byte
  BY <1>1, <1>2, ReplaceBit
<1>5. (IF v # 0 THEN 1 ELSE 0) \in 0 .. 1
  OBVIOUS
<1> QED
  BY <1>3, <1>4, <1>5, Zenon DEF WithPin

LEMMA HalvesType ==
  ASSUME NEW b \in Byte
  PROVE  b \div 16 \in 0 .. 15 /\ b % 16 \in 0 .. 15
BY DEF Byte

----------------------------------------------------------------------------
(* What a function of the driver leaves behind.                            *)

LEMMA SentInCall == \A d \in Sent : d \in InCall
BY DEF Sent

LEMMA SetOutput ==
  ASSUME NEW d \in InCall, NEW data \in Byte
  PROVE  pcf8574_setoutput(d, data) \in Sent
<1> DEFINE new == pcf8574_setoutput(d, data)
<1>1. /\ new.pinstatus = data /\ new.out = Append(d.out, data)
      /\ new \in InCall
  <2> DEFINE cached == [d EXCEPT !.pinstatus = data]
  <2>1. cached \in InCall /\ cached.out = d.out /\ cached.pinstatus = data
    BY DEF InCall
  <2>2. new = [cached EXCEPT !.out = Append(d.out, data)]
    BY DEF pcf8574_setoutput
  <2>3. Append(d.out, data) \in Seq(OnBus)
    BY DEF InCall, OnBus
  <2> HIDE DEF cached, new
  <2> QED
    BY <2>1, <2>2, <2>3 DEF InCall
<1> HIDE DEF new
<1>2. d.out \in Seq(OnBus) /\ data \in OnBus
  BY DEF InCall, OnBus
<1>3. EndsWithPins(new.out, new.pinstatus)
  BY <1>1, <1>2 DEF EndsWithPins
<1> QED
  BY <1>1, <1>3 DEF Sent, new

LEMMA SetPort ==
  ASSUME NEW d \in InCall, NEW port \in Byte
  PROVE  pcf8574_setoutput([d EXCEPT !.dataport = port], port) \in Sent
<1>1. [d EXCEPT !.dataport = port] \in InCall
  BY DEF InCall
<1> QED
  BY <1>1, SetOutput

LEMMA SetOutputPin ==
  ASSUME NEW d \in InCall, NEW pin \in Pin, NEW v
  PROVE  pcf8574_setoutputpin(d, pin, v) \in Sent
<1> DEFINE b == WithPin(d.pinstatus, pin, v)
<1>1. b \in Byte
  BY WithPinType DEF InCall
<1>2. pcf8574_setoutputpin(d, pin, v) = pcf8574_setoutput(d, b)
  BY DEF pcf8574_setoutputpin, pcf8574_setoutput
<1> HIDE DEF b
<1> QED
  BY <1>1, <1>2, SetOutput

LEMMA ToggleType ==
  ASSUME NEW d \in InCall
  PROVE  toggle_e(d) \in Sent
BY SetOutputPin, SentInCall DEF toggle_e, Pin

LEMMA SelectType ==
  ASSUME NEW d \in InCall, NEW rs, NEW rw
  PROVE  Select(d, rs, rw) \in Sent
<1>1. WithPin(d.dataport, LCD_RS_PIN, rs) \in Byte
  BY WithPinType DEF InCall, Pin
<1>2. WithPin(WithPin(d.dataport, LCD_RS_PIN, rs), LCD_RW_PIN, rw) \in Byte
  BY <1>1, WithPinType DEF Pin
<1> QED
  BY <1>2, SetPort DEF Select

LEMMA NibbleType ==
  ASSUME NEW d \in InCall, NEW n \in 0 .. 15
  PROVE  SendNibble(d, n) \in Sent
<1>1. d.dataport \in Byte
  BY DEF InCall
<1>2. (d.dataport % 16) + 16 * n \in Byte
  BY <1>1 DEF Byte
<1> QED
  BY <1>2, SetPort DEF SendNibble

LEMMA WriteType ==
  ASSUME NEW d \in InCall, NEW data \in Byte, NEW rs
  PROVE  lcd_write(d, data, rs) \in Sent
<1> DEFINE high == toggle_e(SendNibble(Select(d, rs, 0), data \div 16))
           low == toggle_e(SendNibble(high, data % 16))
<1>1. high \in InCall
  BY SelectType, NibbleType, ToggleType, HalvesType, SentInCall
<1>2. lcd_write(d, data, rs) = SendNibble(low, 15)
  BY DEF lcd_write
<1> HIDE DEF high
<1>3. low \in InCall
  BY <1>1, NibbleType, ToggleType, HalvesType, SentInCall
<1> HIDE DEF low
<1> QED
  BY <1>2, <1>3, NibbleType

LEMMA ReadType ==
  ASSUME NEW d \in InCall, NEW rs
  PROVE  lcd_read(d, rs) \in Sent
<1> DEFINE first == pcf8574_setoutputpin(Select(d, rs, 1), LCD_E_PIN, 1)
           second == pcf8574_setoutputpin(
                       pcf8574_setoutputpin(first, LCD_E_PIN, 0), LCD_E_PIN, 1)
           data == pcf8574_getoutputpin(first, LCD_DATA0_PIN) * 16
                     + pcf8574_getoutputpin(second, LCD_DATA0_PIN)
           last == pcf8574_setoutputpin(second, LCD_E_PIN, 0)
<1>1. lcd_read(d, rs) = [last EXCEPT !.data = data]
  BY DEF lcd_read
<1>2. first \in InCall
  BY SelectType, SetOutputPin, SentInCall DEF Pin
<1> HIDE DEF first
<1>3. second \in InCall
  BY <1>2, SetOutputPin, SentInCall DEF Pin
<1> HIDE DEF second
<1>4. last \in Sent
  BY <1>3, SetOutputPin DEF Pin
<1>5. data \in Nat
  <2>1. first.pinstatus \in Byte /\ second.pinstatus \in Byte /\ LCD_DATA0_PIN \in Pin
    BY <1>2, <1>3 DEF InCall, Pin
  <2>2. /\ Bit(first.pinstatus, LCD_DATA0_PIN) \in 0 .. 1
        /\ Bit(second.pinstatus, LCD_DATA0_PIN) \in 0 .. 1
    BY <2>1, WithPinType
  <2> QED
    BY <2>2 DEF pcf8574_getoutputpin
<1> HIDE DEF last, data
<1>6. /\ [last EXCEPT !.data = data] \in InCall
      /\ [last EXCEPT !.data = data].out = last.out
      /\ [last EXCEPT !.data = data].pinstatus = last.pinstatus
  BY <1>4, <1>5 DEF Sent, InCall
<1> QED
  BY <1>1, <1>4, <1>6 DEF Sent

LEMMA WaitBusyType ==
  ASSUME NEW d \in InCall
  PROVE  lcd_waitbusy(d) \in Sent
BY ReadType, SentInCall DEF lcd_waitbusy

LEMMA CommandType ==
  ASSUME NEW d \in InCall, NEW cmd \in Byte
  PROVE  lcd_command(d, cmd) \in Sent
BY WaitBusyType, WriteType, SentInCall DEF lcd_command

LEMMA PutcType ==
  ASSUME NEW d \in InCall, NEW c \in Byte
  PROVE  lcd_putc(d, c) \in Sent
<1> DEFINE waited == lcd_waitbusy(d)
           pos == waited.data
           wrapped ==
             CASE pos = LCD_START_LINE1 + LCD_DISP_LENGTH
                    -> lcd_write(waited, DDRAM + LCD_START_LINE2, 0)
               [] pos = LCD_START_LINE2 + LCD_DISP_LENGTH
                    -> lcd_write(waited, DDRAM + LCD_START_LINE1, 0)
               [] OTHER -> waited
<1>1. lcd_putc(d, c) = IF c = NewLine
                       THEN lcd_newline(waited, pos)
                       ELSE lcd_write(lcd_waitbusy(wrapped), c, 1)
  BY DEF lcd_putc
<1>2. waited \in InCall
  BY WaitBusyType, SentInCall
<1> HIDE DEF waited
<1>3. /\ DDRAM + LCD_START_LINE1 \in Byte /\ DDRAM + LCD_START_LINE2 \in Byte
      /\ DDRAM + (IF pos < LCD_START_LINE2 THEN LCD_START_LINE2 ELSE LCD_START_LINE1) \in Byte
  BY DEF DDRAM, LCD_START_LINE1, LCD_START_LINE2, Byte
<1>4. lcd_newline(waited, pos) \in Sent
  BY <1>2, <1>3, CommandType DEF lcd_newline
<1>5. /\ lcd_write(waited, DDRAM + LCD_START_LINE2, 0) \in InCall
      /\ lcd_write(waited, DDRAM + LCD_START_LINE1, 0) \in InCall
  BY <1>2, <1>3, WriteType, SentInCall
<1>6. wrapped \in InCall
  BY <1>2, <1>5
<1> HIDE DEF wrapped
<1>7. lcd_write(lcd_waitbusy(wrapped), c, 1) \in Sent
  BY <1>6, WaitBusyType, WriteType, SentInCall
<1> QED
  BY <1>1, <1>4, <1>7

LEMMA LedType ==
  ASSUME NEW d \in InCall, NEW onoff
  PROVE  lcd_led(d, onoff) \in Sent
<1> DEFINE port == WithPin(d.dataport, LCD_LED_PIN, IF onoff # 0 THEN 0 ELSE 1)
<1>1. port \in Byte
  BY WithPinType DEF InCall, Pin
<1>2. lcd_led(d, onoff) = pcf8574_setoutput([d EXCEPT !.dataport = port], port)
  BY DEF lcd_led
<1> HIDE DEF port
<1> QED
  BY <1>1, <1>2, SetPort

LEMMA WaitType ==
  ASSUME NEW d \in InCall
  PROVE  Wait(d) \in InCall
BY DEF Wait, InCall, OnBus

LEMMA InitType ==
  ASSUME NEW d \in InCall
  PROVE  lcd_init(d) \in Sent
<1>1. Reset(d) \in InCall
  <2>1. 0 \in Byte
    BY DEF Byte
  <2> DEFINE forgot == [d EXCEPT !.pinstatus = 0]
             cleared == [forgot EXCEPT !.dataport = 0]
  <2>2. forgot \in InCall
    BY <2>1 DEF InCall
  <2>3. Reset(d) = Wait(pcf8574_setoutput(cleared, 0))
    BY DEF Reset
  <2> HIDE DEF forgot
  <2>4. cleared \in InCall
    BY <2>1, <2>2 DEF InCall
  <2> HIDE DEF cleared
  <2> QED
    BY <2>1, <2>3, <2>4, SetOutput, SentInCall, WaitType
<1> DEFINE first == Wait(toggle_e(SendNibble(Reset(d), 3)))
           third == toggle_e(toggle_e(first))
           fourth == toggle_e(SendNibble(third, 2))
<1>2. first \in InCall
  BY <1>1, NibbleType, ToggleType, WaitType, SentInCall
<1>3. lcd_init(d) = Configure(fourth)
  BY DEF lcd_init
<1> HIDE DEF first
<1>4. third \in InCall
  BY <1>2, ToggleType, SentInCall
<1> HIDE DEF third
<1>5. fourth \in InCall
  BY <1>4, NibbleType, ToggleType, SentInCall
<1> HIDE DEF fourth
<1> DEFINE function == lcd_command(fourth, LCD_FUNCTION_4BIT_2LINES)
           off == lcd_command(function, LCD_DISP_OFF)
           clear == lcd_command(off, CLR)
<1>6. Configure(fourth)
        = lcd_command(lcd_command(clear, LCD_MODE_DEFAULT), LCD_DISP_ON_BLINK)
  BY DEF Configure
<1>7. /\ LCD_FUNCTION_4BIT_2LINES \in Byte /\ LCD_DISP_OFF \in Byte /\ CLR \in Byte
      /\ LCD_MODE_DEFAULT \in Byte /\ LCD_DISP_ON_BLINK \in Byte
  BY DEF LCD_FUNCTION_4BIT_2LINES, LCD_DISP_OFF, CLR, LCD_MODE_DEFAULT,
         LCD_DISP_ON_BLINK, Byte
<1>8. clear \in InCall
  BY <1>5, <1>7, CommandType, SentInCall
<1> HIDE DEF clear
<1> QED
  BY <1>3, <1>6, <1>7, <1>8, CommandType, SentInCall

(* Whatever is asked for, the last byte that goes out is the cached one.   *)
LEMMA CallType ==
  ASSUME NEW d \in InCall, NEW r \in Request
  PROVE  Call(d, r) \in Sent
<1>1. CASE r.op \in {"lcd_clrscr", "lcd_home"}
  BY <1>1, CommandType DEF Call, CLR, HOME, Byte
<1>2. CASE r.op = "lcd_gotoxy"
  <2> DEFINE cmd == DDRAM + r.x + IF r.y = 0 THEN LCD_START_LINE1 ELSE LCD_START_LINE2
  <2>1. cmd \in Byte
    BY <1>2, RequestAssumption DEF DDRAM, LCD_START_LINE1, LCD_START_LINE2, Byte
  <2>2. Call(d, r) = lcd_command(d, cmd)
    BY <1>2 DEF Call
  <2> HIDE DEF cmd
  <2> QED
    BY <2>1, <2>2, CommandType
<1>3. CASE r.op = "lcd_putc"
  BY <1>3, RequestAssumption, PutcType DEF Call
<1>4. CASE r.op = "lcd_data"
  BY <1>4, RequestAssumption, WaitBusyType, WriteType, SentInCall DEF Call
<1>5. CASE r.op = "lcd_led"
  BY <1>5, LedType DEF Call
<1>6. CASE r.op = "lcd_command"
  BY <1>6, RequestAssumption, CommandType DEF Call
<1>7. CASE r.op = "lcd_getxy"
  BY <1>7, WaitBusyType DEF Call
<1> QED
  BY <1>1, <1>2, <1>3, <1>4, <1>5, <1>6, <1>7, RequestAssumption

----------------------------------------------------------------------------
(* The display keeps its types, whatever is put on its pins.               *)

LEMMA NextAddressType ==
  ASSUME NEW a \in Address
  PROVE  NextAddress(a) \in Address /\ \E b \in Address : NextAddress(b) = a
<1>1. NextAddress(a) \in Address
  BY DEF NextAddress, Address, LCD_START_LINE1, LCD_START_LINE2, LineLength
<1>2. CASE a = 0
  BY <1>2, NextAddress(103) = 0
  DEF NextAddress, Address, LCD_START_LINE1, LCD_START_LINE2, LineLength
<1>3. CASE a = 64
  BY <1>3, NextAddress(39) = 64
  DEF NextAddress, Address, LCD_START_LINE1, LCD_START_LINE2, LineLength
<1>4. CASE a # 0 /\ a # 64
  <2>1. a - 1 \in Address /\ NextAddress(a - 1) = a
    BY <1>4 DEF NextAddress, Address, LCD_START_LINE1, LCD_START_LINE2, LineLength
  <2> QED
    BY <1>1, <2>1
<1> QED
  BY <1>1, <1>2, <1>3, <1>4

LEMMA StoreType ==
  ASSUME NEW k \in Controller, NEW c \in Byte
  PROVE  Store(k, c) \in Controller
<1> DEFINE back == CHOOSE a \in Address : NextAddress(a) = k.cursor
           next == IF k.increments THEN NextAddress(k.cursor) ELSE back
           stored == [k EXCEPT !.cells[k.cursor] = c]
<1>1. k.cursor \in Address /\ k.cells \in [Address -> Byte]
  BY DEF Controller
<1>2. back \in Address /\ NextAddress(k.cursor) \in Address
  BY <1>1, NextAddressType
<1>3. next \in Address
  BY <1>2
<1>4. stored \in Controller
  BY <1>1 DEF Controller
<1>5. Store(k, c) = IF k.cgram THEN k ELSE [stored EXCEPT !.cursor = next]
  BY DEF Store
<1> HIDE DEF next, stored
<1>6. [stored EXCEPT !.cursor = next] \in Controller
  BY <1>3, <1>4 DEF Controller
<1> QED
  BY <1>5, <1>6

LEMMA HomedType ==
  ASSUME NEW k \in Controller
  PROVE  Homed(k) \in Controller
<1> DEFINE first == [k EXCEPT !.cursor = LCD_START_LINE1]
           second == [first EXCEPT !.cgram = FALSE]
<1>1. LCD_START_LINE1 \in Address /\ ClearTime \in 0 .. ClearTime
  BY ClearTimeAssumption DEF Address, LCD_START_LINE1, LCD_START_LINE2, LineLength
<1>2. Homed(k) = [second EXCEPT !.busy = ClearTime]
  BY DEF Homed
<1>3. first \in Controller
  BY <1>1 DEF Controller
<1> HIDE DEF first
<1>4. second \in Controller
  BY <1>3 DEF Controller
<1> HIDE DEF second
<1> QED
  BY <1>1, <1>2, <1>4 DEF Controller

LEMMA InstructType ==
  ASSUME NEW k \in Controller, NEW i \in Byte
  PROVE  Instruct(k, i) \in Controller
<1>1. CASE i >= DDRAM
  <2> DEFINE cursor == IF i - DDRAM \in Address THEN i - DDRAM ELSE k.cursor
             text == [k EXCEPT !.cgram = FALSE]
  <2>1. text \in Controller /\ text.cursor = k.cursor
    BY DEF Controller
  <2>2. cursor \in Address
    BY DEF Controller
  <2>3. Instruct(k, i) = [text EXCEPT !.cursor = cursor]
    BY <1>1 DEF Instruct, DDRAM
  <2> HIDE DEF cursor, text
  <2> QED
    BY <2>1, <2>2, <2>3 DEF Controller
<1>2. CASE i \in 64 .. 127
  <2>1. Instruct(k, i) = [k EXCEPT !.cgram = TRUE]
    BY <1>2 DEF Instruct, DDRAM
  <2> QED
    BY <2>1 DEF Controller
<1>3. CASE i \in 32 .. 63
  <2> DEFINE wide == [k EXCEPT !.eight = (Bit(i, 4) = 1)]
  <2>1. wide \in Controller
    BY DEF Controller
  <2>2. Instruct(k, i) = [wide EXCEPT !.twoLines = (Bit(i, 3) = 1)]
    BY <1>3 DEF Instruct, DDRAM
  <2> HIDE DEF wide
  <2> QED
    BY <2>1, <2>2 DEF Controller
<1>4. CASE i \in 8 .. 15
  <2>1. Instruct(k, i) = [k EXCEPT !.on = (Bit(i, 2) = 1)]
    BY <1>4 DEF Instruct, DDRAM
  <2> QED
    BY <2>1 DEF Controller
<1>5. CASE i \in 4 .. 7
  <2>1. Instruct(k, i) = [k EXCEPT !.increments = (Bit(i, 1) = 1)]
    BY <1>5 DEF Instruct, DDRAM
  <2> QED
    BY <2>1 DEF Controller
<1>6. CASE i \in 2 .. 3
  <2>1. Instruct(k, i) = Homed(k)
    BY <1>6 DEF Instruct, DDRAM
  <2> QED
    BY <2>1, HomedType
<1>7. CASE i = 1
  <2> DEFINE empty == [Homed(k) EXCEPT !.cells = [a \in Address |-> Blank]]
  <2>1. empty \in Controller
    <3>1. [a \in Address |-> Blank] \in [Address -> Byte]
      BY DEF Blank, Byte
    <3> QED
      BY <3>1, HomedType DEF Controller
  <2>2. Instruct(k, i) = [empty EXCEPT !.increments = TRUE]
    BY <1>7 DEF Instruct, DDRAM
  <2> HIDE DEF empty
  <2> QED
    BY <2>1, <2>2 DEF Controller
<1>8. CASE i \in {0} \cup 16 .. 31
  <2>1. Instruct(k, i) = k
    BY <1>8 DEF Instruct, DDRAM
  <2> QED
    BY <2>1
<1> QED
  BY <1>1, <1>2, <1>3, <1>4, <1>5, <1>6, <1>7, <1>8 DEF Byte, DDRAM

LEMMA ExecuteType ==
  ASSUME NEW k \in Controller, NEW p \in Byte, NEW byte \in Byte
  PROVE  Execute(k, Bit(p, LCD_RS_PIN), byte) \in Controller
<1>1. k.busy \in Nat
  BY ClearTimeAssumption DEF Controller
<1>2. Bit(p, LCD_RS_PIN) \in 0 .. 1
  BY WithPinType DEF Pin
<1>3. Store(k, byte) \in Controller /\ Instruct(k, byte) \in Controller
  BY StoreType, InstructType
<1>4. CASE k.busy > 0
  BY <1>4 DEF Execute
<1>5. CASE k.busy = 0
  BY <1>2, <1>3, <1>5 DEF Execute
<1> QED
  BY <1>1, <1>4, <1>5

LEMMA LatchType ==
  ASSUME NEW k \in Controller, NEW p \in Byte
  PROVE  Latch(k, p) \subseteq Controller
<1> DEFINE nibble == p \div 16
           rs == Bit(p, LCD_RS_PIN)
           reads == Bit(p, LCD_RW_PIN) = 1
           whole == [k EXCEPT !.half = NoHalf]
           completed(high, low) == Execute(whole, rs, 16 * high + low)
<1>1. nibble \in 0 .. 15
  BY HalvesType
<1>2. \A n \in 0 .. ReadHalf : [k EXCEPT !.half = n] \in Controller
  BY DEF Controller
<1>3. whole \in Controller
  BY <1>2 DEF NoHalf, ReadHalf
<1>4. \A high, low \in 0 .. 15 : completed(high, low) \in Controller
  <2> SUFFICES ASSUME NEW high \in 0 .. 15, NEW low \in 0 .. 15
               PROVE  completed(high, low) \in Controller
    OBVIOUS
  <2>1. 16 * high + low \in Byte
    BY DEF Byte
  <2> HIDE DEF whole
  <2> QED
    BY <1>3, <2>1, ExecuteType
<1>5. k.half \in 0 .. ReadHalf
  BY DEF Controller
<1>6. CASE k.eight
  <2>1. Latch(k, p) = IF reads THEN {k} ELSE {completed(nibble, low) : low \in Undriven}
    BY <1>6 DEF Latch
  <2> HIDE DEF completed, nibble, reads
  <2> QED
    BY <1>1, <1>4, <2>1, UndrivenAssumption
<1>7. CASE ~k.eight /\ k.half = NoHalf
  <2>1. Latch(k, p) = {[k EXCEPT !.half = IF reads THEN ReadHalf ELSE nibble]}
    BY <1>7 DEF Latch
  <2>2. (IF reads THEN ReadHalf ELSE nibble) \in 0 .. ReadHalf
    BY <1>1 DEF ReadHalf
  <2> HIDE DEF nibble, reads
  <2> QED
    BY <1>2, <2>1, <2>2
<1>8. CASE ~k.eight /\ k.half # NoHalf
  <2> DEFINE halves == IF k.half = ReadHalf THEN Undriven ELSE {k.half}
  <2>1. Latch(k, p) = IF reads THEN {whole} ELSE {completed(high, nibble) : high \in halves}
    BY <1>8 DEF Latch
  <2>2. halves \subseteq 0 .. 15
    <3>1. k.half # ReadHalf => k.half \in 0 .. 15
      BY <1>5, <1>8 DEF NoHalf, ReadHalf
    <3> QED
      BY <3>1, UndrivenAssumption, Zenon
  <2> HIDE DEF completed, nibble, reads, whole, halves
  <2> QED
    BY <1>1, <1>3, <1>4, <2>1, <2>2
<1> QED
  BY <1>6, <1>7, <1>8

LEMMA DrivenType ==
  ASSUME NEW k \in Controller, NEW old \in Byte, NEW new \in Byte
  PROVE  Driven(k, old, new) \subseteq Controller
<1> DEFINE rested == [k EXCEPT !.busy = IF k.busy = 0 THEN 0 ELSE k.busy - 1]
<1>1. (IF k.busy = 0 THEN 0 ELSE k.busy - 1) \in 0 .. ClearTime
  BY ClearTimeAssumption DEF Controller
<1>2. rested \in Controller
  BY <1>1 DEF Controller
<1>3. Driven(k, old, new) = IF Bit(old, LCD_E_PIN) = 1 /\ Bit(new, LCD_E_PIN) = 0
                            THEN Latch(rested, old) \cup Latch(rested, new)
                            ELSE {rested}
  BY DEF Driven
<1> HIDE DEF rested
<1> QED
  BY <1>2, <1>3, LatchType

----------------------------------------------------------------------------
(* The invariant: since lcd_init, and as long as no byte is missed, the    *)
(* byte that ends the call is the one the driver has cached, and when it   *)
(* has gone out it is on the pins.                                         *)
Cached ==
  known \in {"yes", "soon"} =>
    IF bus = <<>> THEN pinstatus = pins ELSE EndsWithPins(bus, pinstatus)

IInv == TypeOK /\ Cached

LEMMA InitIInv == Init => IInv
<1> SUFFICES ASSUME Init PROVE IInv
  OBVIOUS
<1>1. PoweredUp \in Controller
  <2>1. /\ LCD_START_LINE1 \in Address /\ [a \in Address |-> Blank] \in [Address -> Byte]
        /\ 0 \in 0 .. ClearTime /\ NoHalf \in 0 .. ReadHalf
    BY ClearTimeAssumption
    DEF Address, LCD_START_LINE1, LCD_START_LINE2, LineLength, Blank, Byte, NoHalf, ReadHalf
  <2> QED
    BY <2>1 DEF PoweredUp, Controller
<1>2. dataport = 0 /\ pinstatus = 0 /\ bus = <<>> /\ pins = 255 /\ controller = PoweredUp
      /\ known = "no" /\ request = NoRequest /\ calls = 0 /\ faults = 0
  BY DEF Init
<1>3. TypeOK
  BY <1>1, <1>2, BoundAssumption DEF TypeOK, Byte
<1> QED
  BY <1>2, <1>3 DEF IInv, Cached

(* The driver at the beginning of a call.                                  *)
LEMMA DriverType == TypeOK => Driver \in InCall
BY DEF TypeOK, Driver, InCall

LEMMA CallsIInv ==
  ASSUME IInv, NEW d \in Sent, Calls(d), request' \in Request \cup {NoRequest},
         known' \in {"no", "soon", "yes", "missed"}
  PROVE  IInv'
<1>1. /\ dataport' = d.dataport /\ pinstatus' = d.pinstatus /\ bus' = d.out
      /\ calls' = calls + 1 /\ calls < MaxCalls
      /\ UNCHANGED <<pins, controller, faults>>
  BY DEF Calls
<1>2. d.dataport \in Byte /\ d.pinstatus \in Byte /\ d.out \in Seq(OnBus)
      /\ EndsWithPins(d.out, d.pinstatus)
  BY DEF Sent, InCall
<1>3. TypeOK'
  BY <1>1, <1>2, BoundAssumption DEF IInv, TypeOK, OnBus
<1>4. bus' # <<>> /\ EndsWithPins(bus, pinstatus)'
  BY <1>1, <1>2 DEF EndsWithPins
<1> QED
  BY <1>3, <1>4 DEF IInv, Cached

LEMMA InitialiseIInv ==
  ASSUME IInv, Initialise
  PROVE  IInv'
<1>1. lcd_init(Driver) \in Sent
  BY DriverType, InitType DEF IInv
<1>2. Calls(lcd_init(Driver)) /\ known' = "soon" /\ request' = request
  BY DEF Initialise
<1>3. request' \in Request \cup {NoRequest}
  BY <1>2 DEF IInv, TypeOK
<1> QED
  BY <1>1, <1>2, <1>3, CallsIInv

LEMMA AskIInv ==
  ASSUME IInv, NEW r \in Request, Ask(r)
  PROVE  IInv'
<1>1. Call(Driver, r) \in Sent
  BY DriverType, CallType DEF IInv
<1>2. /\ Calls(Call(Driver, r)) /\ known' = known
      /\ request' \in Request \cup {NoRequest}
  BY DEF Ask
<1>3. known' \in {"no", "soon", "yes", "missed"}
  BY <1>2 DEF IInv, TypeOK
<1> QED
  BY <1>1, <1>2, <1>3, CallsIInv

(* What the first byte of the bus is, and what remains after it.           *)
LEMMA BusStep ==
  ASSUME IInv, bus # <<>>
  PROVE  /\ Head(bus) \in OnBus /\ Tail(bus) \in Seq(OnBus)
         /\ Head(bus) # LongDelay => Head(bus) \in Byte
         /\ Tail(bus) = <<>> => Head(bus) = bus[Len(bus)]
         /\ Tail(bus) # <<>> => Tail(bus)[Len(Tail(bus))] = bus[Len(bus)]
<1>1. bus \in Seq(OnBus) /\ Len(bus) \in Nat \ {0}
  BY DEF IInv, TypeOK, OnBus
<1>2. Head(bus) \in OnBus /\ Tail(bus) \in Seq(OnBus) /\ Len(Tail(bus)) = Len(bus) - 1
  BY <1>1
<1>3. Tail(bus) = <<>> => Head(bus) = bus[Len(bus)]
  BY <1>1, <1>2
<1>4. Tail(bus) # <<>> => Tail(bus)[Len(Tail(bus))] = bus[Len(bus)]
  BY <1>1, <1>2
<1> QED
  BY <1>2, <1>3, <1>4 DEF OnBus

LEMMA TransmitIInv ==
  ASSUME IInv, Transmit
  PROVE  IInv'
<1>1. /\ bus # <<>> /\ Head(bus) # LongDelay
      /\ bus' = Tail(bus) /\ pins' = Head(bus)
      /\ controller' \in Driven(controller, pins, Head(bus))
      /\ known' \in {known, "yes"}
      /\ known' = "yes" => known \in {"soon", "yes"}
      /\ request' \in {request, NoRequest}
      /\ UNCHANGED <<dataport, pinstatus, calls, faults>>
  BY DEF Transmit, driverVars
<1>2. /\ Head(bus) \in Byte /\ Tail(bus) \in Seq(OnBus)
      /\ Tail(bus) = <<>> => Head(bus) = bus[Len(bus)]
      /\ Tail(bus) # <<>> => Tail(bus)[Len(Tail(bus))] = bus[Len(bus)]
  BY <1>1, BusStep
<1>3. controller' \in Controller
  BY <1>1, <1>2, DrivenType DEF IInv, TypeOK
<1>4. TypeOK'
  BY <1>1, <1>2, <1>3 DEF IInv, TypeOK, OnBus
<1>5. known' \in {"yes", "soon"} => bus[Len(bus)] = pinstatus
  BY <1>1 DEF IInv, Cached, EndsWithPins
<1> QED
  BY <1>1, <1>2, <1>4, <1>5 DEF IInv, Cached, EndsWithPins

LEMMA MissIInv ==
  ASSUME IInv, Miss
  PROVE  IInv'
<1>1. /\ bus # <<>> /\ bus' = Tail(bus) /\ known' = "missed" /\ request' = NoRequest
      /\ faults < MaxFaults /\ faults' = faults + 1
      /\ UNCHANGED <<dataport, pinstatus, pins, controller, calls>>
  BY DEF Miss, driverVars
<1>2. bus' \in Seq(OnBus)
  BY <1>1, BusStep
<1>3. TypeOK'
  BY <1>1, <1>2, BoundAssumption DEF IInv, TypeOK, OnBus
<1> QED
  BY <1>1, <1>3 DEF IInv, Cached

(* A call never ends with a delay.                                         *)
LEMMA DelayIInv ==
  ASSUME IInv, Delay
  PROVE  IInv'
<1>1. /\ bus # <<>> /\ Head(bus) = LongDelay /\ bus' = Tail(bus)
      /\ controller' = [controller EXCEPT !.busy = 0]
      /\ UNCHANGED <<dataport, pinstatus, pins, known, request, calls, faults>>
  BY DEF Delay, driverVars
<1>2. /\ Tail(bus) \in Seq(OnBus)
      /\ Tail(bus) = <<>> => LongDelay = bus[Len(bus)]
      /\ Tail(bus) # <<>> => Tail(bus)[Len(Tail(bus))] = bus[Len(bus)]
  BY <1>1, BusStep
<1>3. controller' \in Controller
  <2>1. controller \in Controller /\ 0 \in 0 .. ClearTime
    BY ClearTimeAssumption DEF IInv, TypeOK
  <2>2. \A k \in Controller : [k EXCEPT !.busy = 0] \in Controller
    BY <2>1 DEF Controller
  <2> QED
    BY <1>1, <2>1, <2>2
<1>4. TypeOK'
  BY <1>1, <1>2, <1>3 DEF IInv, TypeOK, OnBus
<1>5. known \in {"yes", "soon"} => bus[Len(bus)] = pinstatus
  BY <1>1 DEF IInv, Cached, EndsWithPins
<1>6. pinstatus # LongDelay
  BY DEF IInv, TypeOK, Byte, LongDelay
<1>7. Cached'
  BY <1>1, <1>2, <1>5, <1>6 DEF Cached, EndsWithPins
<1> QED
  BY <1>4, <1>7 DEF IInv

LEMMA RestartIInv ==
  ASSUME IInv, Restart
  PROVE  IInv'
<1>1. /\ dataport' = 0 /\ pinstatus' = 0 /\ bus' = <<>> /\ known' = "no"
      /\ request' = NoRequest /\ faults < MaxFaults /\ faults' = faults + 1
      /\ UNCHANGED <<pins, controller, calls>>
  BY DEF Restart
<1>2. TypeOK'
  BY <1>1, BoundAssumption DEF IInv, TypeOK, Byte
<1> QED
  BY <1>1, <1>2 DEF IInv, Cached

LEMMA NextIInv == IInv /\ [Next]_vars => IInv'
<1> SUFFICES ASSUME IInv, [Next]_vars PROVE IInv'
  OBVIOUS
<1>1. CASE UNCHANGED vars
  BY <1>1 DEF vars, driverVars, IInv, TypeOK, Cached, EndsWithPins
<1>2. CASE Next
  BY <1>2, InitialiseIInv, AskIInv, TransmitIInv, MissIInv, DelayIInv, RestartIInv DEF Next
<1> QED
  BY <1>1, <1>2

THEOREM Invariance == Spec => []IInv
  BY InitIInv, NextIInv, PTL DEF Spec

(* The driver's bytes stay bytes and the display in one of its states, for *)
(* every request, whatever is asked for, missed or interrupted.            *)
THEOREM TypeCorrect == Spec => []TypeOK
<1>1. IInv => TypeOK
  BY DEF IInv
<1> QED
  BY <1>1, Invariance, PTL

(* The pins from which E is toggled and in which lcd_read looks are those  *)
(* of the expander, after any number of calls and of restarts followed by  *)
(* lcd_init, as long as no byte is missed.                                 *)
THEOREM CacheHolds == Spec => []CacheIsTrue
<1>1. IInv => CacheIsTrue
  BY DEF IInv, Cached, CacheIsTrue
<1> QED
  BY <1>1, Invariance, PTL

----------------------------------------------------------------------------
(* What the bytes yet to be sent make of the display.  A point is what is  *)
(* on the pins and what the display is then; a run goes through one point  *)
(* per byte.  S leads to T by R: no run from S makes a step that R has     *)
(* not, and one that gets to the end of the bytes ends in T.               *)
Point == [pins : Byte, display : Controller]

Steps(a, b, z) ==
  IF b = LongDelay
  THEN z.pins = a.pins /\ z.display = [a.display EXCEPT !.busy = 0]
  ELSE z.pins = b /\ z.display \in Driven(a.display, a.pins, b)

Runs(s, m) ==
  {run \in [0 .. m -> Point] : \A k \in 1 .. m : Steps(run[k - 1], s[k], run[k])}

Leads(S, s, T, R) ==
  \A m \in 0 .. Len(s) : \A run \in Runs(s, m) :
    run[0] \in S => /\ m # 0 => <<run[m - 1], run[m]>> \in R
                    /\ m = Len(s) => run[m] \in T

LEMMA LeadsNowhere ==
  ASSUME NEW S, NEW T, NEW R, NEW a \in S, a \in Point, Leads(S, <<>>, T, R)
  PROVE  a \in T
<1> DEFINE run == [k \in 0 .. 0 |-> a]
<1>1. run \in Runs(<<>>, 0) /\ run[0] = a
  BY DEF Runs
<1> HIDE DEF run
<1>2. 0 \in 0 .. Len(<<>>) /\ 0 = Len(<<>>)
  OBVIOUS
<1> QED
  BY <1>1, <1>2 DEF Leads

LEMMA LeadsStill ==
  ASSUME NEW S, NEW R
  PROVE  Leads(S, <<>>, S, R)
<1>1. Len(<<>>) = 0
  OBVIOUS
<1> QED
  BY <1>1 DEF Leads

(* One more byte is put on the bus.                                        *)
LEMMA LeadsFurther ==
  ASSUME NEW S, NEW T, NEW U, NEW R, NEW s \in Seq(OnBus), NEW b \in OnBus,
         Leads(S, s, T, R),
         \A a \in T, z \in Point : a \in Point /\ Steps(a, b, z) => z \in U /\ <<a, z>> \in R
  PROVE  Leads(S, Append(s, b), U, R)
<1> DEFINE longer == Append(s, b)
           n == Len(s)
<1>1. /\ n \in Nat /\ Len(longer) = n + 1
      /\ longer[n + 1] = b /\ \A k \in 1 .. n : longer[k] = s[k]
  OBVIOUS
<1> HIDE DEF n, longer
<1>2. SUFFICES ASSUME NEW m \in 0 .. n + 1, NEW run \in Runs(longer, m), run[0] \in S
               PROVE  /\ m # 0 => <<run[m - 1], run[m]>> \in R
                      /\ m = n + 1 => run[m] \in U
  BY <1>1 DEF Leads, longer
<1>3. /\ \A k \in 0 .. m : run[k] \in Point
      /\ \A k \in 1 .. m : Steps(run[k - 1], longer[k], run[k])
  BY DEF Runs
<1>4. CASE m # n + 1
  <2>1. m \in 0 .. n /\ \A k \in 1 .. m : k \in 1 .. n
    BY <1>1, <1>4
  <2>2. run \in Runs(s, m)
    BY <1>1, <2>1 DEF Runs
  <2> QED
    BY <1>2, <1>4, <2>1, <2>2 DEF Leads, n
<1>5. CASE m = n + 1
  <2> DEFINE first == [k \in 0 .. n |-> run[k]]
  <2>1. \A k \in 0 .. n : k \in 0 .. m
    BY <1>1, <1>5
  <2>2. first \in [0 .. n -> Point] /\ \A k \in 0 .. n : first[k] = run[k]
    BY <1>3, <2>1
  <2> HIDE DEF first
  <2>3. \A k \in 1 .. n : Steps(first[k - 1], s[k], first[k])
    <3> SUFFICES ASSUME NEW k \in 1 .. n PROVE Steps(first[k - 1], s[k], first[k])
      OBVIOUS
    <3>1. k \in 0 .. n /\ k - 1 \in 0 .. n /\ k \in 1 .. m
      BY <1>1, <1>5
    <3> QED
      BY <1>1, <1>3, <2>2, <3>1
  <2>4. first \in Runs(s, n)
    BY <2>2, <2>3 DEF Runs
  <2>5. 0 \in 0 .. n /\ n \in 0 .. n
    BY <1>1
  <2>6. run[n] \in T
    BY <1>2, <2>2, <2>4, <2>5 DEF Leads, n
  <2>7. n \in 0 .. m /\ m \in 0 .. m /\ m \in 1 .. m /\ m - 1 = n
    BY <1>1, <1>5
  <2>8. Steps(run[n], b, run[m]) /\ run[n] \in Point /\ run[m] \in Point
    BY <1>1, <1>3, <1>5, <2>7
  <2> QED
    BY <1>5, <2>6, <2>7, <2>8
<1> QED
  BY <1>4, <1>5

(* The first byte of the bus is sent.                                      *)
LEMMA LeadsOn ==
  ASSUME NEW s \in Seq(OnBus), s # <<>>, NEW a \in Point, NEW z \in Point,
         Steps(a, Head(s), z), NEW T, NEW R, Leads({a}, s, T, R)
  PROVE  <<a, z>> \in R /\ Leads({z}, Tail(s), T, R)
<1> DEFINE n == Len(s) - 1
<1>1. /\ n \in Nat /\ Len(s) = n + 1 /\ Len(Tail(s)) = n /\ s[1] = Head(s)
      /\ \A k \in 1 .. n : Tail(s)[k] = s[k + 1]
  OBVIOUS
<1> HIDE DEF n
<1>2. ASSUME NEW m \in 0 .. n, NEW run \in Runs(Tail(s), m), run[0] = z
      PROVE  /\ m = 0 => <<a, z>> \in R
             /\ m # 0 => <<run[m - 1], run[m]>> \in R
             /\ m = n => run[m] \in T
  <2>1. /\ \A k \in 0 .. m : run[k] \in Point
        /\ \A k \in 1 .. m : Steps(run[k - 1], s[k + 1], run[k])
    <3>1. \A k \in 1 .. m : k \in 1 .. n
      BY <1>1
    <3> QED
      BY <1>1, <3>1 DEF Runs
  <2> DEFINE whole == [k \in 0 .. m + 1 |-> IF k = 0 THEN a ELSE run[k - 1]]
  <2>2. whole \in [0 .. m + 1 -> Point]
    <3> SUFFICES ASSUME NEW k \in 0 .. m + 1 PROVE (IF k = 0 THEN a ELSE run[k - 1]) \in Point
      OBVIOUS
    <3>1. k # 0 => k - 1 \in 0 .. m
      BY <1>1
    <3> QED
      BY <2>1, <3>1
  <2>3. whole[0] = a /\ \A k \in 0 .. m : whole[k + 1] = run[k]
    BY <1>1
  <2> HIDE DEF whole
  <2>4. \A k \in 1 .. m + 1 : Steps(whole[k - 1], s[k], whole[k])
    <3> SUFFICES ASSUME NEW k \in 1 .. m + 1 PROVE Steps(whole[k - 1], s[k], whole[k])
      OBVIOUS
    <3>1. CASE k = 1
      <4>1. 0 \in 0 .. m /\ whole[1] = z /\ 1 - 1 = 0
        BY <1>1, <1>2, <2>3
      <4> QED
        BY <1>1, <2>3, <3>1, <4>1
    <3>2. CASE k # 1
      <4> DEFINE j == k - 1
      <4>1. j \in 1 .. m /\ j \in 0 .. m /\ j - 1 \in 0 .. m /\ k = j + 1 /\ (j - 1) + 1 = k - 1
        BY <1>1, <3>2
      <4>2. Steps(run[j - 1], s[j + 1], run[j])
        BY <2>1, <4>1
      <4>3. whole[k - 1] = run[j - 1] /\ whole[k] = run[j]
        BY <2>3, <4>1
      <4> QED
        BY <4>1, <4>2, <4>3
    <3> QED
      BY <3>1, <3>2
  <2>5. whole \in Runs(s, m + 1)
    BY <2>2, <2>4 DEF Runs
  <2>6. /\ m + 1 \in 0 .. Len(s) /\ m \in 0 .. m /\ (m = n => m + 1 = Len(s))
        /\ m + 1 # 0 /\ (m + 1) - 1 = m
        /\ m # 0 => m - 1 \in 0 .. m /\ (m - 1) + 1 = m
    BY <1>1
  <2>7. <<whole[m], whole[m + 1]>> \in R /\ (m = n => whole[m + 1] \in T)
    BY <2>3, <2>5, <2>6 DEF Leads
  <2>8. whole[m + 1] = run[m] /\ (m = 0 => whole[m] = a) /\ (m # 0 => whole[m] = run[m - 1])
    BY <2>3, <2>6
  <2> QED
    BY <1>2, <2>7, <2>8
<1>3. <<a, z>> \in R
  <2> DEFINE run == [k \in 0 .. 0 |-> z]
  <2>1. run \in Runs(Tail(s), 0) /\ run[0] = z
    BY DEF Runs
  <2> HIDE DEF run
  <2>2. 0 \in 0 .. n
    BY <1>1
  <2> QED
    BY <1>2, <2>1, <2>2
<1>4. Leads({z}, Tail(s), T, R)
  BY <1>1, <1>2 DEF Leads
<1> QED
  BY <1>3, <1>4

LEMMA LeadsWeaker ==
  ASSUME NEW S, NEW s, NEW T, NEW U, NEW R, NEW Q, Leads(S, s, T, R),
         T \subseteq U, R \subseteq Q
  PROVE  Leads(S, s, U, Q)
BY DEF Leads

----------------------------------------------------------------------------
(* What is on the pins: a nibble, and the light, E, RW and RS.             *)
Pins(n, l, e, w, r) == 16 * n + 8 * l + 4 * e + 2 * w + r

LEMMA SplitPins ==
  ASSUME NEW b \in Byte
  PROVE  \E n \in 0 .. 15, l, e, w, r \in 0 .. 1 : b = Pins(n, l, e, w, r)
<1> DEFINE n == b \div 16
           u == b % 16
           l == u \div 8
           v == u % 8
           e == v \div 4
           x == v % 4
           w == x \div 2
           r == x % 2
<1>1. n \in 0 .. 15 /\ u \in 0 .. 15 /\ b = 16 * n + u
  BY DEF Byte
<1> HIDE DEF n, u
<1>2. l \in 0 .. 1 /\ v \in 0 .. 7 /\ u = 8 * l + v
  BY <1>1
<1> HIDE DEF l, v
<1>3. e \in 0 .. 1 /\ x \in 0 .. 3 /\ v = 4 * e + x
  BY <1>2
<1> HIDE DEF e, x
<1>4. w \in 0 .. 1 /\ r \in 0 .. 1 /\ x = 2 * w + r
  BY <1>3
<1> HIDE DEF w, r
<1>5. b = Pins(n, l, e, w, r)
  BY <1>1, <1>2, <1>3, <1>4 DEF Pins
<1> QED
  BY <1>1, <1>2, <1>3, <1>4, <1>5

LEMMA PinsRead ==
  ASSUME NEW n \in 0 .. 15, NEW l \in 0 .. 1, NEW e \in 0 .. 1, NEW w \in 0 .. 1, NEW r \in 0 .. 1
  PROVE  LET p == Pins(n, l, e, w, r)
         IN  /\ p \in Byte
             /\ Bit(p, LCD_RS_PIN) = r /\ Bit(p, LCD_RW_PIN) = w /\ Bit(p, LCD_E_PIN) = e
             /\ Bit(p, LCD_LED_PIN) = l
             /\ p \div 16 = n /\ p % 16 = Pins(0, l, e, w, r)
<1> DEFINE p == Pins(n, l, e, w, r)
<1>1. p = 16 * n + 8 * l + 4 * e + 2 * w + r /\ p \in 0 .. 255
  BY DEF Pins
<1>2. Bit(p, LCD_RS_PIN) = p % 2 /\ Bit(p, LCD_RW_PIN) = (p \div 2) % 2
  <2>1. 2 ^ 0 = 1 /\ 2 ^ 1 = 2 /\ p \div 1 = p
    BY <1>1
  <2> HIDE DEF p
  <2> QED
    BY <2>1 DEF Bit, LCD_RS_PIN, LCD_RW_PIN
<1>3. Bit(p, LCD_E_PIN) = (p \div 4) % 2 /\ Bit(p, LCD_LED_PIN) = (p \div 8) % 2
  <2>1. 2 ^ 2 = 4 /\ 2 ^ 3 = 8
    OBVIOUS
  <2> HIDE DEF p
  <2> QED
    BY <2>1 DEF Bit, LCD_E_PIN, LCD_LED_PIN
<1> HIDE DEF p
<1>4. p % 2 = r /\ p \div 2 = 8 * n + 4 * l + 2 * e + w
  BY <1>1
<1>5. (p \div 2) % 2 = w
  BY <1>4
<1>6. p \div 4 = 4 * n + 2 * l + e /\ p \div 8 = 2 * n + l
  BY <1>1
<1>7. (p \div 4) % 2 = e /\ (p \div 8) % 2 = l
  BY <1>6
<1>8. p \div 16 = n /\ p % 16 = 8 * l + 4 * e + 2 * w + r
  BY <1>1
<1>9. Pins(0, l, e, w, r) = 8 * l + 4 * e + 2 * w + r
  BY DEF Pins
<1> QED
  BY <1>1, <1>2, <1>3, <1>4, <1>5, <1>7, <1>8, <1>9 DEF p, Byte

LEMMA PinsSet ==
  ASSUME NEW n \in 0 .. 15, NEW l \in 0 .. 1, NEW e \in 0 .. 1, NEW w \in 0 .. 1, NEW r \in 0 .. 1,
         NEW v \in 0 .. 1
  PROVE  LET p == Pins(n, l, e, w, r)
         IN  /\ WithPin(p, LCD_RS_PIN, v) = Pins(n, l, e, w, v)
             /\ WithPin(p, LCD_RW_PIN, v) = Pins(n, l, e, v, r)
             /\ WithPin(p, LCD_E_PIN, v) = Pins(n, l, v, w, r)
             /\ WithPin(p, LCD_LED_PIN, v) = Pins(n, v, e, w, r)
<1> DEFINE p == Pins(n, l, e, w, r)
<1>1. /\ Bit(p, LCD_RS_PIN) = r /\ Bit(p, LCD_RW_PIN) = w /\ Bit(p, LCD_E_PIN) = e
      /\ Bit(p, LCD_LED_PIN) = l
  BY PinsRead
<1>2. p = 16 * n + 8 * l + 4 * e + 2 * w + r
  BY DEF Pins
<1>3. (IF v # 0 THEN 1 ELSE 0) = v
  OBVIOUS
<1> HIDE DEF p
<1>4. 2 ^ 0 = 1 /\ 2 ^ 1 = 2 /\ 2 ^ 2 = 4 /\ 2 ^ 3 = 8
  OBVIOUS
<1>5. /\ WithPin(p, LCD_RS_PIN, v) = p + (v - r) * 1
      /\ WithPin(p, LCD_RW_PIN, v) = p + (v - w) * 2
      /\ WithPin(p, LCD_E_PIN, v) = p + (v - e) * 4
      /\ WithPin(p, LCD_LED_PIN, v) = p + (v - l) * 8
  <2>1. WithPin(p, LCD_RS_PIN, v) = p + (v - r) * 1
    BY <1>1, <1>3, <1>4 DEF WithPin, LCD_RS_PIN
  <2>2. WithPin(p, LCD_RW_PIN, v) = p + (v - w) * 2
    BY <1>1, <1>3, <1>4 DEF WithPin, LCD_RW_PIN
  <2>3. WithPin(p, LCD_E_PIN, v) = p + (v - e) * 4
    BY <1>1, <1>3, <1>4 DEF WithPin, LCD_E_PIN
  <2>4. WithPin(p, LCD_LED_PIN, v) = p + (v - l) * 8
    BY <1>1, <1>3, <1>4 DEF WithPin, LCD_LED_PIN
  <2> QED
    BY <2>1, <2>2, <2>3, <2>4
<1> QED
  BY <1>2, <1>5 DEF Pins, p

(* Between the functions that make up a call dataport is what is on the    *)
(* pins, and E is low.                                                     *)
Settled == {d \in InCall : d.dataport = d.pinstatus /\ Bit(d.pinstatus, LCD_E_PIN) = 0}

Shows(d, n, l, w, r) == d.pinstatus = Pins(n, l, 0, w, r)

LEMMA SettledPins ==
  ASSUME NEW d \in Settled
  PROVE  \E n \in 0 .. 15, l, w, r \in 0 .. 1 : Shows(d, n, l, w, r)
<1>1. d.pinstatus \in Byte /\ Bit(d.pinstatus, LCD_E_PIN) = 0
  BY DEF Settled, InCall
<1>2. PICK n \in 0 .. 15, l, e, w, r \in 0 .. 1 : d.pinstatus = Pins(n, l, e, w, r)
  BY <1>1, SplitPins
<1>3. Bit(d.pinstatus, LCD_E_PIN) = e
  BY <1>2, PinsRead
<1> QED
  BY <1>1, <1>2, <1>3 DEF Shows

(* What has been put on the bus in the call leads from S to the pins as    *)
(* the driver believes they are, with the display in K.                    *)
On(p, K) == {a \in Point : a.pins = p /\ a.display \in K}

Reaches(S, d, K, R) == Leads(S, d.out, On(d.pinstatus, K), R)

(* The display may go from K to L while the light goes from u to v, or     *)
(* stays as it is.                                                         *)
Light(p) == Bit(p, LCD_LED_PIN)

Relights(K, L, u, v, R) ==
  \A a, z \in Point :
    a.display \in K /\ z.display \in L /\ Light(a.pins) = u /\ Light(z.pins) = v => <<a, z>> \in R

Moves(K, L, R) == \A u : Relights(K, L, u, u, R)

(* Byte by byte: F[j] is where the display may be when it is to be busy    *)
(* for j bytes at most.                                                    *)
Rests(K, L) == \A k \in K : [k EXCEPT !.busy = IF k.busy = 0 THEN 0 ELSE k.busy - 1] \in L

Calm(F, R) == \A j \in Int : Rests(F[j], F[j - 1]) /\ Moves(F[j], F[j - 1], R)

LEMMA OutputReaches ==
  ASSUME NEW d \in InCall, NEW b \in Byte, NEW S, NEW K, NEW L, NEW R,
         Relights(K, L, Light(d.pinstatus), Light(b), R), Reaches(S, d, K, R),
         \A k \in K : k \in Controller => Driven(k, d.pinstatus, b) \subseteq L
  PROVE  Reaches(S, pcf8574_setoutput(d, b), L, R)
<1> DEFINE new == pcf8574_setoutput(d, b)
           T == On(d.pinstatus, K)
           U == On(b, L)
<1>1. new.out = Append(d.out, b) /\ new.pinstatus = b
  BY DEF InCall, pcf8574_setoutput
<1>2. d.out \in Seq(OnBus) /\ b \in OnBus /\ b # LongDelay
  BY DEF InCall, OnBus, Byte, LongDelay
<1>3. Leads(S, d.out, T, R)
  BY DEF Reaches
<1>4. \A a \in T, z \in Point : a \in Point /\ Steps(a, b, z) => z \in U /\ <<a, z>> \in R
  <2> SUFFICES ASSUME NEW a \in T, NEW z \in Point, Steps(a, b, z)
               PROVE  z \in U /\ <<a, z>> \in R
    OBVIOUS
  <2>1. z.pins = b /\ z.display \in Driven(a.display, a.pins, b)
    BY <1>2 DEF Steps
  <2>2. a \in Point /\ a.pins = d.pinstatus /\ a.display \in K /\ a.display \in Controller
    BY DEF On, Point
  <2>3. z.display \in L
    BY <2>1, <2>2
  <2> QED
    BY <2>1, <2>2, <2>3 DEF Relights, On
<1> HIDE DEF T, U
<1>5. Leads(S, Append(d.out, b), U, R)
  BY <1>2, <1>3, <1>4, LeadsFurther
<1> HIDE DEF new
<1> QED
  BY <1>1, <1>5 DEF Reaches, U, new

(* E does not fall: the display rests.                                     *)
LEMMA QuietReaches ==
  ASSUME NEW d \in InCall, NEW b \in Byte, NEW S, NEW F, NEW j \in Int, NEW R, Calm(F, R),
         Light(b) = Light(d.pinstatus), Reaches(S, d, F[j], R),
         Bit(d.pinstatus, LCD_E_PIN) = 0 \/ Bit(b, LCD_E_PIN) = 1
  PROVE  Reaches(S, pcf8574_setoutput(d, b), F[j - 1], R)
<1>1. ~(Bit(d.pinstatus, LCD_E_PIN) = 1 /\ Bit(b, LCD_E_PIN) = 0)
  OBVIOUS
<1>2. Rests(F[j], F[j - 1]) /\ Moves(F[j], F[j - 1], R)
  BY DEF Calm
<1>3. \A k \in F[j] : Driven(k, d.pinstatus, b) \subseteq F[j - 1]
  BY <1>1, <1>2 DEF Driven, Rests
<1>4. Relights(F[j], F[j - 1], Light(d.pinstatus), Light(b), R)
  BY <1>2 DEF Moves
<1> QED
  BY <1>3, <1>4, OutputReaches

(* dataport is changed and goes out as a whole.                            *)
LEMMA PortReaches ==
  ASSUME NEW d \in Settled, NEW port \in Byte, Bit(port, LCD_E_PIN) = 0,
         Light(port) = Light(d.pinstatus),
         NEW S, NEW F, NEW j \in Int, NEW R, Calm(F, R), Reaches(S, d, F[j], R)
  PROVE  LET new == pcf8574_setoutput([d EXCEPT !.dataport = port], port)
         IN  new \in Settled /\ new.pinstatus = port /\ Reaches(S, new, F[j - 1], R)
<1> DEFINE changed == [d EXCEPT !.dataport = port]
           new == pcf8574_setoutput(changed, port)
<1>1. changed \in InCall /\ changed.out = d.out /\ changed.pinstatus = d.pinstatus
      /\ changed.dataport = port
  BY DEF Settled, InCall
<1>2. /\ Bit(changed.pinstatus, LCD_E_PIN) = 0 /\ Reaches(S, changed, F[j], R)
      /\ Light(port) = Light(changed.pinstatus)
  BY <1>1 DEF Settled, Reaches
<1> HIDE DEF changed
<1>3. Reaches(S, new, F[j - 1], R)
  BY <1>1, <1>2, QuietReaches
<1>4. new \in InCall
  BY <1>1, SetOutput, SentInCall
<1>5. new.pinstatus = port /\ new.dataport = port
  BY <1>1 DEF InCall, pcf8574_setoutput
<1> HIDE DEF new
<1>6. new \in Settled
  BY <1>4, <1>5 DEF Settled
<1> QED
  BY <1>3, <1>5, <1>6 DEF new, changed

LEMMA SelectReaches ==
  ASSUME NEW d \in Settled, NEW n \in 0 .. 15, NEW l \in 0 .. 1, NEW w \in 0 .. 1,
         NEW r \in 0 .. 1, Shows(d, n, l, w, r), NEW rs \in 0 .. 1, NEW rw \in 0 .. 1,
         NEW S, NEW F, NEW j \in Int, NEW R, Calm(F, R), Reaches(S, d, F[j], R)
  PROVE  LET new == Select(d, rs, rw)
         IN  new \in Settled /\ Reaches(S, new, F[j - 1], R) /\ Shows(new, n, l, rw, rs)
<1>1. d.dataport = Pins(n, l, 0, w, r) /\ Light(d.pinstatus) = l
  BY PinsRead DEF Shows, Settled, Light
<1> DEFINE port == Pins(n, l, 0, rw, rs)
<1>2. WithPin(WithPin(d.dataport, LCD_RS_PIN, rs), LCD_RW_PIN, rw) = port
  <2>1. WithPin(d.dataport, LCD_RS_PIN, rs) = Pins(n, l, 0, w, rs)
    BY <1>1, PinsSet
  <2>2. WithPin(Pins(n, l, 0, w, rs), LCD_RW_PIN, rw) = port
    BY PinsSet
  <2> QED
    BY <2>1, <2>2
<1>3. port \in Byte /\ Bit(port, LCD_E_PIN) = 0 /\ Light(port) = l
  BY PinsRead DEF Light
<1> HIDE DEF port
<1>4. Select(d, rs, rw) = pcf8574_setoutput([d EXCEPT !.dataport = port], port)
  BY <1>2 DEF Select
<1>5. LET new == pcf8574_setoutput([d EXCEPT !.dataport = port], port)
      IN  new \in Settled /\ new.pinstatus = port /\ Reaches(S, new, F[j - 1], R)
  BY <1>1, <1>3, PortReaches
<1> QED
  BY <1>4, <1>5 DEF Shows, port

LEMMA NibbleReaches ==
  ASSUME NEW d \in Settled, NEW n \in 0 .. 15, NEW m \in 0 .. 15, NEW l \in 0 .. 1,
         NEW w \in 0 .. 1, NEW r \in 0 .. 1, Shows(d, m, l, w, r),
         NEW S, NEW F, NEW j \in Int, NEW R, Calm(F, R), Reaches(S, d, F[j], R)
  PROVE  LET new == SendNibble(d, n)
         IN  new \in Settled /\ Reaches(S, new, F[j - 1], R) /\ Shows(new, n, l, w, r)
<1>1. d.dataport = Pins(m, l, 0, w, r) /\ Light(d.pinstatus) = l
  BY PinsRead DEF Shows, Settled, Light
<1> DEFINE port == Pins(n, l, 0, w, r)
<1>2. (d.dataport % 16) + 16 * n = port
  <2>1. d.dataport % 16 = Pins(0, l, 0, w, r)
    BY <1>1, PinsRead
  <2> QED
    BY <2>1 DEF Pins
<1>3. port \in Byte /\ Bit(port, LCD_E_PIN) = 0 /\ Light(port) = l
  BY PinsRead DEF Light
<1> HIDE DEF port
<1>4. SendNibble(d, n) = pcf8574_setoutput([d EXCEPT !.dataport = port], port)
  BY <1>2 DEF SendNibble
<1>5. LET new == pcf8574_setoutput([d EXCEPT !.dataport = port], port)
      IN  new \in Settled /\ new.pinstatus = port /\ Reaches(S, new, F[j - 1], R)
  BY <1>1, <1>3, PortReaches
<1> QED
  BY <1>4, <1>5 DEF Shows, port

(* What the display takes when E falls, the other pins being as they are.  *)
Taken(k, n, w, r) ==
  LET completed(high, low) == Execute([k EXCEPT !.half = NoHalf], r, 16 * high + low)
  IN  CASE k.eight /\ w = 1 -> {k}
        [] k.eight /\ w # 1 -> {completed(n, low) : low \in Undriven}
        [] ~k.eight /\ k.half = NoHalf -> {[k EXCEPT !.half = IF w = 1 THEN ReadHalf ELSE n]}
        [] ~k.eight /\ k.half # NoHalf /\ w = 1 -> {[k EXCEPT !.half = NoHalf]}
        [] ~k.eight /\ k.half # NoHalf /\ w # 1 ->
             {completed(high, n) : high \in IF k.half = ReadHalf THEN Undriven ELSE {k.half}}

Takes(K, n, w, r, L) == \A k \in K : k \in Controller => Taken(k, n, w, r) \subseteq L

LEMMA LatchPins ==
  ASSUME NEW k, NEW p, NEW n, NEW w, NEW r,
         p \div 16 = n, Bit(p, LCD_RW_PIN) = w, Bit(p, LCD_RS_PIN) = r
  PROVE  Latch(k, p) = Taken(k, n, w, r)
BY Zenon DEF Latch, Taken

(* E rises, which takes a byte, and falls, before which another has passed. *)
LEMMA ToggleReaches ==
  ASSUME NEW d \in Settled, NEW n \in 0 .. 15, NEW l \in 0 .. 1, NEW w \in 0 .. 1,
         NEW r \in 0 .. 1, Shows(d, n, l, w, r),
         NEW S, NEW F, NEW j \in Int, NEW L, NEW R, Calm(F, R), Reaches(S, d, F[j], R),
         Moves(F[j - 1], L, R), Takes(F[j - 2], n, w, r, L)
  PROVE  LET new == toggle_e(d)
         IN  new \in Settled /\ Reaches(S, new, L, R) /\ Shows(new, n, l, w, r)
<1> DEFINE low == Pins(n, l, 0, w, r)
           high == Pins(n, l, 1, w, r)
           risen == pcf8574_setoutput(d, high)
           new == pcf8574_setoutput(risen, low)
<1>1. d.pinstatus = low
  BY DEF Shows
<1>2. /\ low \in Byte /\ Bit(low, LCD_E_PIN) = 0 /\ Light(low) = l
      /\ high \in Byte /\ Bit(high, LCD_E_PIN) = 1 /\ Light(high) = l
      /\ \A k : Latch(k, low) = Taken(k, n, w, r) /\ Latch(k, high) = Taken(k, n, w, r)
  <2>1. /\ low \in Byte /\ Bit(low, LCD_E_PIN) = 0 /\ Light(low) = l
        /\ low \div 16 = n /\ Bit(low, LCD_RW_PIN) = w /\ Bit(low, LCD_RS_PIN) = r
    BY PinsRead DEF Light
  <2>2. /\ high \in Byte /\ Bit(high, LCD_E_PIN) = 1 /\ Light(high) = l
        /\ high \div 16 = n /\ Bit(high, LCD_RW_PIN) = w /\ Bit(high, LCD_RS_PIN) = r
    BY PinsRead DEF Light
  <2> HIDE DEF low, high
  <2> QED
    BY <2>1, <2>2, LatchPins
<1>3. /\ WithPin(low, LCD_E_PIN, 1) = high /\ WithPin(high, LCD_E_PIN, 0) = low
  BY PinsSet
<1> HIDE DEF low, high
<1>4. d \in InCall /\ d.dataport = low /\ d.pinstatus = low
  BY <1>1 DEF Settled
<1>5. risen \in InCall /\ risen.pinstatus = high /\ risen.dataport = low
  <2>1. risen \in InCall
    BY <1>2, <1>4, SetOutput, SentInCall
  <2> QED
    BY <1>4, <2>1 DEF InCall, pcf8574_setoutput
<1>6. Reaches(S, risen, F[j - 1], R)
  BY <1>2, <1>4, QuietReaches
<1>7. pcf8574_setoutputpin(d, LCD_E_PIN, 1) = risen
  BY <1>3, <1>4 DEF pcf8574_setoutputpin, pcf8574_setoutput
<1> HIDE DEF risen
<1>8. pcf8574_setoutputpin(risen, LCD_E_PIN, 0) = new
  BY <1>3, <1>5 DEF pcf8574_setoutputpin, pcf8574_setoutput
<1>9. toggle_e(d) = new
  BY <1>7, <1>8 DEF toggle_e
<1>10. new \in InCall /\ new.pinstatus = low /\ new.dataport = low
  <2>1. new \in InCall
    BY <1>2, <1>5, SetOutput, SentInCall
  <2> QED
    BY <1>5, <2>1 DEF InCall, pcf8574_setoutput
<1>11. \A k \in F[j - 1] : k \in Controller => Driven(k, risen.pinstatus, low) \subseteq L
  <2> SUFFICES ASSUME NEW k \in F[j - 1], k \in Controller PROVE Driven(k, high, low) \subseteq L
    BY <1>5
  <2> DEFINE rested == [k EXCEPT !.busy = IF k.busy = 0 THEN 0 ELSE k.busy - 1]
  <2>1. rested \in F[j - 2] /\ rested \in Controller
    <3>1. (IF k.busy = 0 THEN 0 ELSE k.busy - 1) \in 0 .. ClearTime
      BY ClearTimeAssumption DEF Controller
    <3>2. j - 1 \in Int /\ (j - 1) - 1 = j - 2
      OBVIOUS
    <3>3. Rests(F[j - 1], F[j - 2])
      BY <3>2 DEF Calm
    <3> QED
      BY <3>1, <3>3 DEF Rests, Controller
  <2>2. Driven(k, high, low) = Latch(rested, high) \cup Latch(rested, low)
    BY <1>2 DEF Driven
  <2> HIDE DEF rested
  <2> QED
    BY <1>2, <2>1, <2>2 DEF Takes
<1>12. Reaches(S, new, L, R)
  <2>1. Relights(F[j - 1], L, Light(risen.pinstatus), Light(low), R)
    BY <1>2, <1>5 DEF Moves
  <2> QED
    BY <1>2, <1>5, <1>6, <1>11, <2>1, OutputReaches
<1> HIDE DEF new
<1>13. new \in Settled /\ Shows(new, n, l, w, r)
  BY <1>2, <1>10 DEF Settled, Shows, low
<1> QED
  BY <1>9, <1>12, <1>13

----------------------------------------------------------------------------
(* Whole bytes in the mode of 4 bits.  F says nothing of halves, Half(F, h) *)
(* does.                                                                   *)
Mode(F) ==
  \A j \in Int : /\ F[j] \subseteq Controller
                 /\ \A k \in F[j] : ~k.eight /\ \A h \in 0 .. ReadHalf : [k EXCEPT !.half = h] \in F[j]

Half(F, h) == [j \in Int |-> {k \in F[j] : k.half = h}]

SameLight(d, new) == Light(new.pinstatus) = Light(d.pinstatus)

LEMMA HalfCalm ==
  ASSUME NEW F, NEW R, Mode(F), Calm(F, R), NEW h
  PROVE  Calm(Half(F, h), R) /\ \A g : \A j \in Int : Moves(Half(F, h)[j], Half(F, g)[j - 1], R)
<1>1. ASSUME NEW j \in Int, NEW g
      PROVE  Moves(Half(F, h)[j], Half(F, g)[j - 1], R)
  <2>1. j - 1 \in Int
    OBVIOUS
  <2>2. Half(F, h)[j] \subseteq F[j] /\ Half(F, g)[j - 1] \subseteq F[j - 1]
    BY <2>1 DEF Half
  <2>3. Moves(F[j], F[j - 1], R)
    BY DEF Calm
  <2> QED
    BY <2>2, <2>3 DEF Moves, Relights
<1>2. ASSUME NEW j \in Int PROVE Rests(Half(F, h)[j], Half(F, h)[j - 1])
  <2> SUFFICES ASSUME NEW k \in F[j], k.half = h
               PROVE  [k EXCEPT !.busy = IF k.busy = 0 THEN 0 ELSE k.busy - 1] \in Half(F, h)[j - 1]
    BY DEF Rests, Half
  <2>1. [k EXCEPT !.busy = IF k.busy = 0 THEN 0 ELSE k.busy - 1] \in F[j - 1]
    BY DEF Calm, Rests
  <2>2. k \in Controller /\ j - 1 \in Int
    BY DEF Mode
  <2>3. [k EXCEPT !.busy = IF k.busy = 0 THEN 0 ELSE k.busy - 1].half = h
    BY <2>2 DEF Controller
  <2> QED
    BY <2>1, <2>2, <2>3 DEF Half
<1> QED
  BY <1>1, <1>2 DEF Calm

LEMMA HalfSet ==
  ASSUME NEW F, Mode(F), NEW j \in Int, NEW k \in F[j], NEW h \in 0 .. ReadHalf
  PROVE  [k EXCEPT !.half = h] \in Half(F, h)[j]
<1>1. [k EXCEPT !.half = h] \in F[j] /\ k \in Controller
  BY DEF Mode
<1>2. [k EXCEPT !.half = h].half = h
  BY <1>1 DEF Controller
<1> QED
  BY <1>1, <1>2 DEF Half

(* The first half of a byte, read or written, and the second one read.     *)
LEMMA FirstHalf ==
  ASSUME NEW F, Mode(F), NEW j \in Int, NEW n \in 0 .. 15, NEW r
  PROVE  /\ Takes(Half(F, NoHalf)[j], n, 1, r, Half(F, ReadHalf)[j])
         /\ Takes(Half(F, NoHalf)[j], n, 0, r, Half(F, n)[j])
         /\ Takes(Half(F, ReadHalf)[j], n, 1, r, Half(F, NoHalf)[j])
<1>1. /\ NoHalf \in 0 .. ReadHalf /\ ReadHalf \in 0 .. ReadHalf /\ ReadHalf # NoHalf
      /\ n \in 0 .. ReadHalf
  BY DEF NoHalf, ReadHalf
<1>2. ASSUME NEW k \in F[j], k.half = NoHalf
      PROVE  /\ Taken(k, n, 1, r) \subseteq Half(F, ReadHalf)[j]
             /\ Taken(k, n, 0, r) \subseteq Half(F, n)[j]
  <2>1. ~k.eight
    BY DEF Mode
  <2>2. Taken(k, n, 1, r) = {[k EXCEPT !.half = ReadHalf]} /\ Taken(k, n, 0, r) = {[k EXCEPT !.half = n]}
    BY <1>2, <2>1 DEF Taken
  <2> QED
    BY <1>1, <2>2, HalfSet
<1>3. ASSUME NEW k \in F[j], k.half = ReadHalf
      PROVE  Taken(k, n, 1, r) \subseteq Half(F, NoHalf)[j]
  <2>1. ~k.eight /\ k.half # NoHalf
    BY <1>1, <1>3 DEF Mode
  <2>2. Taken(k, n, 1, r) = {[k EXCEPT !.half = NoHalf]}
    BY <2>1 DEF Taken
  <2> QED
    BY <1>1, <2>2, HalfSet
<1>4. \A h : Half(F, h)[j] = {k \in F[j] : k.half = h}
  BY DEF Half
<1> QED
  BY <1>2, <1>3, <1>4 DEF Takes

LEMMA ReadReaches ==
  ASSUME NEW d \in Settled, NEW S, NEW F, NEW j \in Int, NEW R, Mode(F), Calm(F, R),
         Reaches(S, d, Half(F, NoHalf)[j], R)
  PROVE  LET new == lcd_read(d, 0)
         IN  /\ new \in Settled /\ Reaches(S, new, Half(F, NoHalf)[j - 5], R)
             /\ SameLight(d, new) /\ new.data \in {0, 17}
<1> DEFINE asks == Select(d, 0, 1)
           first == toggle_e(asks)
           second == toggle_e(first)
           new == lcd_read(d, 0)
           none == Half(F, NoHalf)
           half == Half(F, ReadHalf)
<1>1. PICK n \in 0 .. 15, l, w, r \in 0 .. 1 : Shows(d, n, l, w, r)
  BY SettledPins
<1>2. /\ Calm(none, R) /\ Calm(half, R)
      /\ \A i \in Int : Moves(none[i], half[i - 1], R) /\ Moves(half[i], none[i - 1], R)
  BY HalfCalm
<1>3. \A i \in Int : Takes(none[i], n, 1, 0, half[i]) /\ Takes(half[i], n, 1, 0, none[i])
  BY FirstHalf
<1>4. 0 \in 0 .. 1 /\ 1 \in 0 .. 1 /\ Reaches(S, d, none[j], R)
  OBVIOUS
<1>5. /\ j - 1 \in Int /\ j - 2 \in Int /\ j - 3 \in Int /\ j - 4 \in Int /\ j - 5 \in Int
      /\ (j - 1) - 1 = j - 2 /\ (j - 1) - 2 = j - 3 /\ (j - 3) - 1 = j - 4 /\ (j - 3) - 2 = j - 5
      /\ (j - 2) - 1 = j - 3 /\ (j - 4) - 1 = j - 5
  OBVIOUS
<1> HIDE DEF none, half
<1>6. asks \in Settled /\ Reaches(S, asks, none[j - 1], R) /\ Shows(asks, n, l, 1, 0)
  BY <1>1, <1>2, <1>4, SelectReaches
<1> HIDE DEF asks
<1>7. first \in Settled /\ Reaches(S, first, half[j - 3], R) /\ Shows(first, n, l, 1, 0)
  <2>1. Moves(none[j - 2], half[j - 3], R) /\ Takes(none[j - 3], n, 1, 0, half[j - 3])
    BY <1>2, <1>3, <1>5
  <2> QED
    BY <1>2, <1>4, <1>5, <1>6, <2>1, ToggleReaches
<1> HIDE DEF first
<1>8. second \in Settled /\ Reaches(S, second, none[j - 5], R) /\ Shows(second, n, l, 1, 0)
  <2>1. Moves(half[j - 4], none[j - 5], R) /\ Takes(half[j - 5], n, 1, 0, none[j - 5])
    BY <1>2, <1>3, <1>5
  <2> QED
    BY <1>2, <1>4, <1>5, <1>7, <2>1, ToggleReaches
<1>9. new \in InCall /\ \E data : new = [second EXCEPT !.data = data]
  <2>1. new \in InCall
    BY ReadType, SentInCall DEF Settled
  <2>2. \E data : new = [second EXCEPT !.data = data]
    BY DEF lcd_read, toggle_e, second, first, asks
  <2> QED
    BY <2>1, <2>2
<1>10. SameLight(d, second)
  <2>1. Light(Pins(n, l, 0, 1, 0)) = l /\ Light(Pins(n, l, 0, w, r)) = l
    BY <1>4, PinsRead DEF Light
  <2> QED
    BY <1>1, <1>8, <2>1 DEF Shows, SameLight
<1>11. new.data \in {0, 17}
  <2> DEFINE high == pcf8574_setoutputpin(asks, LCD_E_PIN, 1)
             high2 == pcf8574_setoutputpin(first, LCD_E_PIN, 1)
  <2>1. asks.pinstatus = Pins(n, l, 0, 1, 0) /\ first.pinstatus = Pins(n, l, 0, 1, 0)
        /\ asks \in InCall /\ first \in InCall
    BY <1>6, <1>7 DEF Shows, Settled
  <2>2. WithPin(Pins(n, l, 0, 1, 0), LCD_E_PIN, 1) = Pins(n, l, 1, 1, 0)
    BY <1>4, PinsSet
  <2>3. high.pinstatus = Pins(n, l, 1, 1, 0) /\ high2.pinstatus = Pins(n, l, 1, 1, 0)
    BY <2>1, <2>2 DEF InCall, pcf8574_setoutputpin
  <2>4. new.data = Bit(high.pinstatus, LCD_DATA0_PIN) * 16 + Bit(high2.pinstatus, LCD_DATA0_PIN)
    <3> DEFINE data == pcf8574_getoutputpin(high, LCD_DATA0_PIN) * 16
                         + pcf8574_getoutputpin(high2, LCD_DATA0_PIN)
    <3>1. new = [second EXCEPT !.data = data]
      BY DEF lcd_read, toggle_e, second, first, asks, high, high2
    <3> HIDE DEF data, new, second
    <3>2. new.data = data
      BY <1>8, <3>1 DEF Settled, InCall
    <3> QED
      BY <3>2 DEF data, pcf8574_getoutputpin
  <2>5. Bit(Pins(n, l, 1, 1, 0), LCD_DATA0_PIN) \in 0 .. 1
    <3>1. Pins(n, l, 1, 1, 0) \in Byte /\ LCD_DATA0_PIN \in Pin
      BY <1>4, PinsRead DEF Pin
    <3> QED
      BY <3>1, WithPinType
  <2> HIDE DEF high, high2, new
  <2> QED
    BY <2>3, <2>4, <2>5
<1> HIDE DEF second, new
<1>12. /\ new.out = second.out /\ new.pinstatus = second.pinstatus
       /\ new.dataport = second.dataport
  BY <1>8, <1>9 DEF Settled, InCall
<1>13. new \in Settled /\ Reaches(S, new, none[j - 5], R) /\ SameLight(d, new)
  BY <1>8, <1>9, <1>10, <1>12 DEF Settled, Reaches, SameLight
<1> QED
  BY <1>11, <1>13 DEF new, none

LEMMA WaitReaches ==
  ASSUME NEW d \in Settled, NEW S, NEW F, NEW j \in Int, NEW R, Mode(F), Calm(F, R),
         Reaches(S, d, Half(F, NoHalf)[j], R)
  PROVE  LET new == lcd_waitbusy(d)
         IN  /\ new \in Settled /\ Reaches(S, new, Half(F, NoHalf)[j - 10], R)
             /\ SameLight(d, new) /\ new.data \in {0, 17}
<1> DEFINE first == lcd_read(d, 0)
           new == lcd_read(first, 0)
<1>1. first \in Settled /\ Reaches(S, first, Half(F, NoHalf)[j - 5], R) /\ SameLight(d, first)
  BY ReadReaches
<1> HIDE DEF first
<1>2. j - 5 \in Int /\ (j - 5) - 5 = j - 10
  OBVIOUS
<1>3. /\ new \in Settled /\ Reaches(S, new, Half(F, NoHalf)[(j - 5) - 5], R)
      /\ SameLight(first, new) /\ new.data \in {0, 17}
  BY <1>1, <1>2, ReadReaches
<1> HIDE DEF new
<1>4. SameLight(d, new)
  BY <1>1, <1>3 DEF SameLight
<1> QED
  BY <1>2, <1>3, <1>4 DEF new, first, lcd_waitbusy

(* The display completes a byte and executes it.                           *)
Executes(K, rs, byte, L) == \A k \in K : Execute(k, rs, byte) \in L

LEMMA SecondHalf ==
  ASSUME NEW F, Mode(F), NEW j \in Int, NEW data \in Byte, NEW rs, NEW L,
         Executes(Half(F, NoHalf)[j], rs, data, L)
  PROVE  Takes(Half(F, data \div 16)[j], data % 16, 0, rs, L)
<1> DEFINE h == data \div 16
           l == data % 16
<1>1. h \in 0 .. 15 /\ l \in 0 .. 15 /\ 16 * h + l = data
  BY DEF Byte
<1>2. NoHalf \in 0 .. ReadHalf /\ h # NoHalf /\ h # ReadHalf
  BY <1>1 DEF NoHalf, ReadHalf
<1> HIDE DEF h, l
<1>3. ASSUME NEW k \in F[j], k.half = h
      PROVE  Taken(k, l, 0, rs) \subseteq L
  <2>1. ~k.eight
    BY DEF Mode
  <2> DEFINE whole == [k EXCEPT !.half = NoHalf]
  <2>2. whole \in Half(F, NoHalf)[j]
    BY <1>2, HalfSet
  <2>3. Taken(k, l, 0, rs) = {Execute(whole, rs, 16 * high + l) : high \in {h}}
    BY <1>2, <1>3, <2>1 DEF Taken
  <2> HIDE DEF whole
  <2>4. Execute(whole, rs, 16 * h + l) \in L
    BY <1>1, <2>2 DEF Executes
  <2> QED
    BY <2>3, <2>4
<1>4. Half(F, h)[j] = {k \in F[j] : k.half = h}
  BY DEF Half
<1>5. Takes(Half(F, h)[j], l, 0, rs, L)
  BY <1>3, <1>4 DEF Takes
<1> QED
  BY <1>5 DEF h, l

(* Seven bytes pass before a byte is executed, and one after it.           *)
LEMMA WriteReaches ==
  ASSUME NEW d \in Settled, NEW data \in Byte, NEW rs \in 0 .. 1,
         NEW S, NEW F, NEW j \in Int, NEW G, NEW i \in Int, NEW R,
         Mode(F), Calm(F, R), Calm(G, R), Moves(F[j - 6], G[i], R),
         Reaches(S, d, Half(F, NoHalf)[j], R),
         Executes(Half(F, NoHalf)[j - 7], rs, data, G[i])
  PROVE  LET new == lcd_write(d, data, rs)
         IN  new \in Settled /\ Reaches(S, new, G[i - 1], R) /\ SameLight(d, new)
<1> DEFINE h == data \div 16
           m == data % 16
           selected == Select(d, rs, 0)
           sets == SendNibble(selected, h)
           high == toggle_e(sets)
           sets2 == SendNibble(high, m)
           low == toggle_e(sets2)
           new == SendNibble(low, 15)
           none == Half(F, NoHalf)
           half == Half(F, h)
<1>1. h \in 0 .. 15 /\ m \in 0 .. 15 /\ 0 \in 0 .. 1 /\ 15 \in 0 .. 15
  BY DEF Byte
<1>2. lcd_write(d, data, rs) = new
  BY DEF lcd_write
<1>3. PICK n \in 0 .. 15, l, w, r \in 0 .. 1 : Shows(d, n, l, w, r)
  BY SettledPins
<1>4. /\ Calm(none, R) /\ Calm(half, R) /\ \A k \in Int : Moves(none[k], half[k - 1], R)
  BY HalfCalm
<1>5. Takes(half[j - 7], m, 0, rs, G[i])
  BY SecondHalf
<1>6. Reaches(S, d, none[j], R)
  OBVIOUS
<1>7. Moves(half[j - 6], G[i], R)
  <2>1. half[j - 6] \subseteq F[j - 6]
    BY DEF Half
  <2> QED
    BY <2>1 DEF Moves, Relights
<1>8. Takes(none[j - 4], h, 0, rs, half[j - 4])
  BY <1>1, FirstHalf
<1>9. /\ j - 1 \in Int /\ j - 2 \in Int /\ j - 3 \in Int /\ j - 4 \in Int /\ j - 5 \in Int
      /\ (j - 1) - 1 = j - 2 /\ (j - 2) - 1 = j - 3 /\ (j - 2) - 2 = j - 4 /\ (j - 3) - 1 = j - 4
      /\ (j - 4) - 1 = j - 5 /\ (j - 5) - 1 = j - 6 /\ (j - 5) - 2 = j - 7
  OBVIOUS
<1> HIDE DEF h, m, none, half, new
<1>10. selected \in Settled /\ Reaches(S, selected, none[j - 1], R) /\ Shows(selected, n, l, 0, rs)
  BY <1>1, <1>3, <1>4, <1>6, SelectReaches
<1> HIDE DEF selected
<1>11. sets \in Settled /\ Reaches(S, sets, none[j - 2], R) /\ Shows(sets, h, l, 0, rs)
  BY <1>1, <1>4, <1>9, <1>10, NibbleReaches
<1> HIDE DEF sets
<1>12. high \in Settled /\ Reaches(S, high, half[j - 4], R) /\ Shows(high, h, l, 0, rs)
  <2>1. Moves(none[j - 3], half[j - 4], R)
    BY <1>4, <1>9
  <2> QED
    BY <1>1, <1>4, <1>8, <1>9, <1>11, <2>1, ToggleReaches
<1> HIDE DEF high
<1>13. sets2 \in Settled /\ Reaches(S, sets2, half[j - 5], R) /\ Shows(sets2, m, l, 0, rs)
  BY <1>1, <1>4, <1>9, <1>12, NibbleReaches
<1> HIDE DEF sets2
<1>14. low \in Settled /\ Reaches(S, low, G[i], R) /\ Shows(low, m, l, 0, rs)
  BY <1>1, <1>4, <1>5, <1>7, <1>9, <1>13, ToggleReaches
<1> HIDE DEF low
<1>15. new \in Settled /\ Reaches(S, new, G[i - 1], R) /\ Shows(new, 15, l, 0, rs)
  BY <1>1, <1>14, NibbleReaches DEF new
<1>16. SameLight(d, new)
  <2>1. Light(Pins(15, l, 0, 0, rs)) = l /\ Light(Pins(n, l, 0, w, r)) = l
    BY <1>1, PinsRead DEF Light
  <2> QED
    BY <1>3, <1>15, <2>1 DEF Shows, SameLight
<1> QED
  BY <1>2, <1>15, <1>16

----------------------------------------------------------------------------
(* What an instruction and a character change of the display's mode.       *)

LEMMA InstructFields ==
  ASSUME NEW k \in Controller, NEW i \in Byte, NEW j, j = Instruct(k, i)
  PROVE  /\ j.half = k.half
         /\ j.eight <=> IF i \in 32 .. 63 THEN Bit(i, 4) = 1 ELSE k.eight
         /\ j.twoLines <=> IF i \in 32 .. 63 THEN Bit(i, 3) = 1 ELSE k.twoLines
         /\ j.increments <=> IF i \in 4 .. 7 THEN Bit(i, 1) = 1 ELSE i = 1 \/ k.increments
         /\ j.cgram <=> i \in 64 .. 127 \/ (k.cgram /\ i < 128 /\ i \notin 1 .. 3)
         /\ j.busy = IF i \in 1 .. 3 THEN ClearTime ELSE k.busy
<1>0. /\ k.cgram \in BOOLEAN /\ k.increments \in BOOLEAN
      /\ k.eight \in BOOLEAN /\ k.twoLines \in BOOLEAN
  BY DEF Controller
<1>1. CASE i >= DDRAM
  <2> DEFINE c == IF i - DDRAM \in Address THEN i - DDRAM ELSE k.cursor
             text == [k EXCEPT !.cgram = FALSE]
  <2>1. j = [text EXCEPT !.cursor = c]
    BY <1>1 DEF Instruct, DDRAM
  <2>2. /\ text \in Controller /\ ~text.cgram /\ text.half = k.half /\ text.eight = k.eight
        /\ text.twoLines = k.twoLines /\ text.increments = k.increments /\ text.busy = k.busy
    BY DEF Controller
  <2> HIDE DEF c, text
  <2>3. /\ ~j.cgram /\ j.half = k.half /\ j.eight = k.eight
        /\ j.twoLines = k.twoLines /\ j.increments = k.increments /\ j.busy = k.busy
    BY <2>1, <2>2 DEF Controller
  <2>4. /\ i \notin 32 .. 63 /\ i \notin 4 .. 7 /\ i # 1 /\ i \notin 64 .. 127
        /\ ~(i < 128) /\ i \notin 1 .. 3
    BY <1>1 DEF DDRAM, Byte
  <2> QED
    BY <1>0, <2>3, <2>4, Zenon
<1>2. CASE i \in 64 .. 127
  <2>1. j = [k EXCEPT !.cgram = TRUE]
    BY <1>2 DEF Instruct, DDRAM
  <2> QED
    BY <1>0, <1>2, <2>1 DEF Controller
<1>3. CASE i \in 32 .. 63
  <2> DEFINE eight == Bit(i, 4) = 1
             twoLines == Bit(i, 3) = 1
  <2>1. j = [k EXCEPT !.eight = eight, !.twoLines = twoLines]
    BY <1>3 DEF Instruct, DDRAM
  <2> HIDE DEF eight, twoLines
  <2>2. /\ j.half = k.half /\ j.eight = eight /\ j.twoLines = twoLines
        /\ j.increments = k.increments /\ j.cgram = k.cgram /\ j.busy = k.busy
    BY <2>1 DEF Controller
  <2>3. i \notin 4 .. 7 /\ i # 1 /\ i \notin 64 .. 127 /\ i < 128 /\ i \notin 1 .. 3
    BY <1>3
  <2> QED
    BY <1>0, <1>3, <2>2, <2>3, Zenon DEF eight, twoLines
<1>4. CASE i \in 8 .. 15
  <2>1. j = [k EXCEPT !.on = (Bit(i, 2) = 1)]
    BY <1>4 DEF Instruct, DDRAM
  <2> QED
    BY <1>0, <1>4, <2>1 DEF Controller
<1>5. CASE i \in 4 .. 7
  <2> DEFINE increments == Bit(i, 1) = 1
  <2>1. j = [k EXCEPT !.increments = increments]
    BY <1>5 DEF Instruct, DDRAM
  <2> HIDE DEF increments
  <2>2. /\ j.half = k.half /\ j.eight = k.eight /\ j.twoLines = k.twoLines
        /\ j.increments = increments /\ j.cgram = k.cgram /\ j.busy = k.busy
    BY <2>1 DEF Controller
  <2>3. /\ i \notin 32 .. 63 /\ i # 1 /\ i \notin 64 .. 127 /\ i < 128
        /\ i \notin 1 .. 3
    BY <1>5
  <2> QED
    BY <1>0, <1>5, <2>2, <2>3, Zenon DEF increments
<1>6. CASE i \in 2 .. 3
  <2>1. j = [k EXCEPT !.cursor = LCD_START_LINE1, !.cgram = FALSE, !.busy = ClearTime]
    BY <1>6 DEF Instruct, DDRAM, Homed
  <2> QED
    BY <1>0, <1>6, <2>1 DEF Controller
<1>7. CASE i = 1
  <2> DEFINE homed == [k EXCEPT !.cursor = LCD_START_LINE1, !.cgram = FALSE, !.busy = ClearTime]
             empty == [a \in Address |-> Blank]
  <2>1. j = [homed EXCEPT !.cells = empty, !.increments = TRUE]
    BY <1>7 DEF Instruct, DDRAM, Homed
  <2> HIDE DEF empty
  <2>2. /\ j.half = k.half /\ j.eight = k.eight /\ j.twoLines = k.twoLines
        /\ j.increments = TRUE /\ j.cgram = FALSE /\ j.busy = ClearTime
    BY <2>1 DEF Controller
  <2>3. i \notin 32 .. 63 /\ i \notin 4 .. 7 /\ i \notin 64 .. 127 /\ i \in 1 .. 3
    BY <1>7
  <2> QED
    BY <1>0, <1>7, <2>2, <2>3, Zenon
<1>8. CASE i \in {0} \cup 16 .. 31
  <2>1. j = k
    BY <1>8 DEF Instruct, DDRAM
  <2>2. /\ i \notin 32 .. 63 /\ i \notin 4 .. 7 /\ i # 1 /\ i \notin 64 .. 127
        /\ i < 128 /\ i \notin 1 .. 3
    BY <1>8 DEF Byte
  <2> QED
    BY <1>0, <2>1, <2>2, Zenon
<1> QED
  BY <1>1, <1>2, <1>3, <1>4, <1>5, <1>6, <1>7, <1>8 DEF Byte, DDRAM

LEMMA StoreFields ==
  ASSUME NEW k \in Controller, NEW c, NEW j, j = Store(k, c)
  PROVE  /\ j.half = k.half /\ j.eight = k.eight /\ j.twoLines = k.twoLines
         /\ j.increments = k.increments /\ j.cgram = k.cgram /\ j.busy = k.busy
<1>1. CASE k.cgram
  <2>1. j = k
    BY <1>1 DEF Store
  <2> QED
    BY <2>1
<1>2. CASE ~k.cgram
  <2> DEFINE next == IF k.increments THEN NextAddress(k.cursor)
                     ELSE CHOOSE a \in Address : NextAddress(a) = k.cursor
             stored == [k EXCEPT !.cells[k.cursor] = c]
  <2>1. j = [stored EXCEPT !.cursor = next]
    BY <1>2 DEF Store
  <2> HIDE DEF next
  <2> QED
    BY <2>1 DEF Controller
<1> QED
  BY <1>1, <1>2

----------------------------------------------------------------------------
(* The modes: the one lcd_init brings about, and those on the way to it.   *)
Ready == {k \in Controller : ~k.eight /\ k.twoLines /\ k.increments /\ ~k.cgram}
Idle == {k \in Controller : k.busy = 0}
Narrow == {k \in Idle : ~k.eight}
TwoLines == {k \in Narrow : k.twoLines}

(* Instructions that keep the interface at 4 bits with two lines, moving   *)
(* forward over the text: all but 4, 5, 32..39 and 48..127.                *)
InMode == Byte \ (4 .. 5 \cup 32 .. 39 \cup 48 .. 127)

LEMMA RestedFields ==
  ASSUME NEW k \in Controller
  PROVE  LET j == [k EXCEPT !.busy = IF k.busy = 0 THEN 0 ELSE k.busy - 1]
         IN  /\ j \in Controller /\ j.half = k.half /\ j.eight = k.eight
             /\ j.twoLines = k.twoLines /\ j.increments = k.increments /\ j.cgram = k.cgram
             /\ k.busy = 0 => j.busy = 0
<1>1. (IF k.busy = 0 THEN 0 ELSE k.busy - 1) \in 0 .. ClearTime
  BY ClearTimeAssumption DEF Controller
<1> QED
  BY <1>1 DEF Controller

(* The same at every byte.                                                 *)
Always(K) == [j \in Int |-> K]

LEMMA Rested ==
  /\ Rests(Controller, Controller) /\ Rests(Ready, Ready) /\ Rests(Idle, Idle)
  /\ Rests(Narrow, Narrow) /\ Rests(TwoLines, TwoLines)
BY RestedFields DEF Rests, Ready, Idle, Narrow, TwoLines

LEMMA AlwaysCalm ==
  ASSUME NEW K, NEW R, Rests(K, K), Moves(K, K, R)
  PROVE  Calm(Always(K), R)
<1>1. \A j \in Int : Always(K)[j] = K /\ Always(K)[j - 1] = K
  BY DEF Always
<1> QED
  BY <1>1 DEF Calm

LEMMA AlwaysMode ==
  ASSUME NEW K, K \subseteq Controller,
         \A k \in K : ~k.eight /\ \A h \in 0 .. ReadHalf : [k EXCEPT !.half = h] \in K
  PROVE  Mode(Always(K))
<1>1. \A j \in Int : Always(K)[j] = K
  BY DEF Always
<1> QED
  BY <1>1, Zenon DEF Mode

LEMMA Modes == Mode(Always(Ready)) /\ Mode(Always(Narrow)) /\ Mode(Always(TwoLines))
<1>1. \A k \in Controller, h \in 0 .. ReadHalf :
        LET j == [k EXCEPT !.half = h]
        IN  /\ j \in Controller /\ j.eight = k.eight /\ j.twoLines = k.twoLines
            /\ j.increments = k.increments /\ j.cgram = k.cgram /\ j.busy = k.busy
  BY DEF Controller
<1>2. Mode(Always(Ready))
  <2>1. Ready \subseteq Controller
        /\ \A k \in Ready : ~k.eight /\ \A h \in 0 .. ReadHalf : [k EXCEPT !.half = h] \in Ready
    BY <1>1 DEF Ready
  <2> QED
    BY <2>1, AlwaysMode
<1>3. Mode(Always(Narrow))
  <2>1. Narrow \subseteq Controller
        /\ \A k \in Narrow : ~k.eight /\ \A h \in 0 .. ReadHalf : [k EXCEPT !.half = h] \in Narrow
    BY <1>1 DEF Narrow, Idle
  <2> QED
    BY <2>1, AlwaysMode
<1>4. Mode(Always(TwoLines))
  <2>1. TwoLines \subseteq Controller
        /\ \A k \in TwoLines : ~k.eight /\ \A h \in 0 .. ReadHalf : [k EXCEPT !.half = h] \in TwoLines
    BY <1>1 DEF TwoLines, Narrow, Idle
  <2> QED
    BY <2>1, AlwaysMode
<1> QED
  BY <1>2, <1>3, <1>4

LEMMA ExecuteCases ==
  ASSUME NEW k \in Controller, NEW byte
  PROVE  /\ Execute(k, 0, byte) \in {k, Instruct(k, byte)}
         /\ Execute(k, 1, byte) \in {k, Store(k, byte)}
         /\ k.busy = 0 => /\ Execute(k, 0, byte) = Instruct(k, byte)
                          /\ Execute(k, 1, byte) = Store(k, byte)
<1>1. k.busy = 0 \/ k.busy > 0
  BY ClearTimeAssumption DEF Controller
<1> QED
  BY <1>1 DEF Execute

(* No half of a byte is pending.                                           *)
Whole(K) == {k \in K : k.half = NoHalf}

LEMMA ReadyExecutes ==
  /\ \A i \in InMode : Executes(Whole(Ready), 0, i, Whole(Ready))
  /\ \A c \in Byte : Executes(Whole(Ready), 1, c, Whole(Ready))
<1> SUFFICES ASSUME NEW k \in Whole(Ready)
             PROVE  /\ \A i \in InMode : Execute(k, 0, i) \in Whole(Ready)
                    /\ \A c \in Byte : Execute(k, 1, c) \in Whole(Ready)
  BY DEF Executes
<1>1. k \in Controller /\ ~k.eight /\ k.twoLines /\ k.increments /\ ~k.cgram /\ k.half = NoHalf
  BY DEF Whole, Ready
<1>2. ASSUME NEW i \in InMode PROVE Execute(k, 0, i) \in Whole(Ready)
  <2>1. i \in Byte /\ i \notin 4 .. 5 /\ i \notin 32 .. 39 /\ i \notin 48 .. 127
    BY DEF InMode
  <2> DEFINE j == Instruct(k, i)
  <2>2. i \in 32 .. 63 => Bit(i, 4) = 0 /\ Bit(i, 3) = 1
    <3>1. 2 ^ 4 = 16 /\ 2 ^ 3 = 8
      OBVIOUS
    <3>2. i \in 32 .. 63 => i \in 40 .. 47
      BY <2>1
    <3>3. i \in 40 .. 47 => (i \div 16) % 2 = 0 /\ (i \div 8) % 2 = 1
      OBVIOUS
    <3> QED
      BY <3>1, <3>2, <3>3 DEF Bit
  <2>3. i \in 4 .. 7 => Bit(i, 1) = 1
    <3>1. 2 ^ 1 = 2
      OBVIOUS
    <3>2. i \in 4 .. 7 => i \in 6 .. 7
      BY <2>1
    <3>3. i \in 6 .. 7 => (i \div 2) % 2 = 1
      OBVIOUS
    <3> QED
      BY <3>1, <3>2, <3>3 DEF Bit
  <2>4. i \notin 64 .. 127
    BY <2>1
  <2>5. j \in Controller /\ j.half = NoHalf /\ ~j.eight /\ j.twoLines /\ j.increments /\ ~j.cgram
    BY <1>1, <2>1, <2>2, <2>3, <2>4, InstructFields, InstructType
  <2> HIDE DEF j
  <2>6. j \in Whole(Ready)
    BY <2>5 DEF Whole, Ready
  <2> QED
    BY <1>1, <2>6, ExecuteCases DEF j
<1>3. ASSUME NEW c \in Byte PROVE Execute(k, 1, c) \in Whole(Ready)
  <2> DEFINE j == Store(k, c)
  <2>1. j \in Controller /\ j.half = NoHalf /\ ~j.eight /\ j.twoLines /\ j.increments /\ ~j.cgram
    BY <1>1, StoreFields, StoreType
  <2> HIDE DEF j
  <2>2. j \in Whole(Ready)
    BY <2>1 DEF Whole, Ready
  <2> QED
    BY <1>1, <2>2, ExecuteCases DEF j
<1> QED
  BY <1>2, <1>3

(* lcd_init's own instructions.                                            *)
LEMMA InitExecutes ==
  /\ Executes(Whole(Narrow), 0, LCD_FUNCTION_4BIT_2LINES, Whole(TwoLines))
  /\ Executes(Whole(TwoLines), 0, LCD_DISP_OFF, Whole(TwoLines))
  /\ Executes(Whole(TwoLines), 0, CLR, Whole(Ready))
<1>1. \A k \in Whole(Narrow) : k \in Controller /\ ~k.eight /\ k.busy = 0 /\ k.half = NoHalf
  BY DEF Whole, Narrow, Idle
<1>2. \A k \in Whole(TwoLines) : k \in Whole(Narrow) /\ k.twoLines
  BY DEF Whole, TwoLines
<1>3. ASSUME NEW k \in Whole(Narrow)
      PROVE  Execute(k, 0, 40) \in Whole(TwoLines)
  <2>1. Bit(40, 4) = 0 /\ Bit(40, 3) = 1
    <3>1. 2 ^ 4 = 16 /\ 2 ^ 3 = 8
      OBVIOUS
    <3> QED
      BY <3>1 DEF Bit
  <2>2. 40 \in Byte /\ 40 \in 32 .. 63 /\ 40 \notin 1 .. 3
    BY DEF Byte
  <2> DEFINE j == Instruct(k, 40)
  <2>3. j \in Controller /\ j.half = NoHalf /\ ~j.eight /\ j.twoLines /\ j.busy = 0
    BY <1>1, <2>1, <2>2, InstructFields, InstructType
  <2>4. Execute(k, 0, 40) = j
    BY <1>1, ExecuteCases
  <2> HIDE DEF j
  <2> QED
    BY <2>3, <2>4 DEF Whole, TwoLines, Narrow, Idle
<1>4. ASSUME NEW k \in Whole(TwoLines)
      PROVE  Execute(k, 0, 8) \in Whole(TwoLines)
  <2>1. 8 \in Byte /\ 8 \notin 32 .. 63 /\ 8 \notin 1 .. 3
    BY DEF Byte
  <2> DEFINE j == Instruct(k, 8)
  <2>2. j \in Controller /\ j.half = NoHalf /\ ~j.eight /\ j.twoLines /\ j.busy = 0
    BY <1>1, <1>2, <2>1, InstructFields, InstructType
  <2>3. Execute(k, 0, 8) = j
    BY <1>1, <1>2, ExecuteCases
  <2> HIDE DEF j
  <2> QED
    BY <2>2, <2>3 DEF Whole, TwoLines, Narrow, Idle
<1>5. ASSUME NEW k \in Whole(TwoLines)
      PROVE  Execute(k, 0, 1) \in Whole(Ready)
  <2>1. 1 \in Byte /\ 1 \notin 32 .. 63 /\ 1 \in 1 .. 3 /\ 1 \notin 4 .. 7 /\ 1 \notin 64 .. 127
    BY DEF Byte
  <2> DEFINE j == Instruct(k, 1)
  <2>2. j \in Controller /\ j.half = NoHalf /\ ~j.eight /\ j.twoLines /\ j.increments /\ ~j.cgram
    BY <1>1, <1>2, <2>1, InstructFields, InstructType
  <2>3. Execute(k, 0, 1) = j
    BY <1>1, <1>2, ExecuteCases
  <2> HIDE DEF j
  <2> QED
    BY <2>2, <2>3 DEF Whole, Ready
<1> QED
  BY <1>3, <1>4, <1>5 DEF Executes, LCD_FUNCTION_4BIT_2LINES, LCD_DISP_OFF, CLR

----------------------------------------------------------------------------
(* What an instruction and a character make of the text.                   *)
SameText(k, s) == k.cells = s.cells /\ k.cursor = s.cursor /\ k.on = s.on

LEMMA InstructText ==
  ASSUME NEW k \in Controller, NEW i \in Byte, NEW j, j = Instruct(k, i)
  PROVE  /\ i >= DDRAM /\ i - DDRAM \in Address =>
              j.cells = k.cells /\ j.cursor = i - DDRAM /\ j.on = k.on
         /\ i \in 8 .. 15 => j.cells = k.cells /\ j.cursor = k.cursor /\ j.on = (Bit(i, 2) = 1)
         /\ i \in 4 .. 7 => SameText(j, k)
         /\ i \in 2 .. 3 => j.cells = k.cells /\ j.cursor = LCD_START_LINE1 /\ j.on = k.on
         /\ i = 1 => j.cells = [a \in Address |-> Blank] /\ j.cursor = LCD_START_LINE1 /\ j.on = k.on
<1>1. CASE i >= DDRAM
  <2> DEFINE text == [k EXCEPT !.cgram = FALSE]
             c == IF i - DDRAM \in Address THEN i - DDRAM ELSE k.cursor
  <2>1. j = [text EXCEPT !.cursor = c]
    BY <1>1 DEF Instruct, DDRAM
  <2>2. text \in Controller /\ text.cells = k.cells /\ text.on = k.on
    BY DEF Controller
  <2> HIDE DEF text, c
  <2>3. j.cells = k.cells /\ j.cursor = c /\ j.on = k.on
    BY <2>1, <2>2 DEF Controller
  <2>4. i \notin 8 .. 15 /\ i \notin 4 .. 7 /\ i \notin 2 .. 3 /\ i # 1
    BY <1>1 DEF DDRAM
  <2> QED
    BY <2>3, <2>4 DEF c
<1>2. CASE i \in 8 .. 15
  <2> DEFINE on == Bit(i, 2) = 1
  <2>1. j = [k EXCEPT !.on = on]
    BY <1>2 DEF Instruct, DDRAM
  <2> HIDE DEF on
  <2>2. j.cells = k.cells /\ j.cursor = k.cursor /\ j.on = on
    BY <2>1 DEF Controller
  <2>3. ~(i >= DDRAM) /\ i \notin 4 .. 7 /\ i \notin 2 .. 3 /\ i # 1
    BY <1>2 DEF DDRAM
  <2> QED
    BY <2>2, <2>3 DEF on
<1>3. CASE i \in 4 .. 7
  <2> DEFINE increments == Bit(i, 1) = 1
  <2>1. j = [k EXCEPT !.increments = increments]
    BY <1>3 DEF Instruct, DDRAM
  <2> HIDE DEF increments
  <2>2. SameText(j, k)
    BY <2>1 DEF Controller, SameText
  <2>3. ~(i >= DDRAM) /\ i \notin 8 .. 15 /\ i \notin 2 .. 3 /\ i # 1
    BY <1>3 DEF DDRAM
  <2> QED
    BY <2>2, <2>3
<1>4. CASE i \in 2 .. 3
  <2>1. j = [k EXCEPT !.cursor = LCD_START_LINE1, !.cgram = FALSE, !.busy = ClearTime]
    BY <1>4 DEF Instruct, DDRAM, Homed
  <2>2. j.cells = k.cells /\ j.cursor = LCD_START_LINE1 /\ j.on = k.on
    BY <2>1 DEF Controller
  <2>3. ~(i >= DDRAM) /\ i \notin 8 .. 15 /\ i \notin 4 .. 7 /\ i # 1
    BY <1>4 DEF DDRAM
  <2> QED
    BY <2>2, <2>3
<1>5. CASE i = 1
  <2> DEFINE homed == [k EXCEPT !.cursor = LCD_START_LINE1, !.cgram = FALSE, !.busy = ClearTime]
             empty == [a \in Address |-> Blank]
  <2>1. j = [homed EXCEPT !.cells = empty, !.increments = TRUE]
    BY <1>5 DEF Instruct, DDRAM, Homed
  <2> HIDE DEF empty
  <2>2. j.cells = empty /\ j.cursor = LCD_START_LINE1 /\ j.on = k.on
    BY <2>1 DEF Controller
  <2>3. ~(i >= DDRAM) /\ i \notin 8 .. 15 /\ i \notin 4 .. 7 /\ i \notin 2 .. 3
    BY <1>5 DEF DDRAM
  <2> QED
    BY <2>2, <2>3 DEF empty
<1> QED
  BY <1>1, <1>2, <1>3, <1>4, <1>5, Zenon

LEMMA StoreText ==
  ASSUME NEW k \in Controller, ~k.cgram, k.increments, NEW c, NEW j, j = Store(k, c)
  PROVE  /\ j.cells = [k.cells EXCEPT ![k.cursor] = c]
         /\ j.cursor = NextAddress(k.cursor) /\ j.on = k.on
<1> DEFINE next == NextAddress(k.cursor)
           cells == [k.cells EXCEPT ![k.cursor] = c]
<1>1. j = [k EXCEPT !.cells = cells, !.cursor = next]
  BY DEF Store
<1> HIDE DEF next, cells
<1>2. j.cells = cells /\ j.cursor = next /\ j.on = k.on
  BY <1>1 DEF Controller
<1> QED
  BY <1>2 DEF next, cells

----------------------------------------------------------------------------
(* The display in the mode of lcd_init, with the text of the screen s, and *)
(* busy for j bytes at most.                                               *)
Showing(s, j) == {k \in Ready : SameText(k, s) /\ (k.busy = 0 \/ k.busy <= j)}
Still(s) == [j \in Int |-> Showing(s, j)]

LEMMA ShowingHalf ==
  ASSUME NEW s, NEW j \in Int, NEW k \in Showing(s, j)
  PROVE  k \in Controller /\ ~k.eight /\ \A h \in 0 .. ReadHalf : [k EXCEPT !.half = h] \in Showing(s, j)
<1>1. k \in Controller /\ ~k.eight
  BY DEF Showing, Ready
<1>2. ASSUME NEW h \in 0 .. ReadHalf
      PROVE  [k EXCEPT !.half = h] \in Showing(s, j)
  <2> DEFINE new == [k EXCEPT !.half = h]
  <2>1. /\ new \in Controller /\ new.eight = k.eight /\ new.twoLines = k.twoLines
        /\ new.increments = k.increments /\ new.cgram = k.cgram /\ new.busy = k.busy
        /\ new.cells = k.cells /\ new.cursor = k.cursor /\ new.on = k.on
    BY <1>1 DEF Controller
  <2> HIDE DEF new
  <2>2. new \in Showing(s, j)
    BY <2>1 DEF Showing, Ready, SameText
  <2> QED
    BY <2>2 DEF new
<1> QED
  BY <1>1, <1>2

LEMMA ShowingRests ==
  ASSUME NEW s, NEW j \in Int, NEW k \in Showing(s, j)
  PROVE  [k EXCEPT !.busy = IF k.busy = 0 THEN 0 ELSE k.busy - 1] \in Showing(s, j - 1)
<1>1. k \in Controller
  BY DEF Showing, Ready
<1> DEFINE busy == IF k.busy = 0 THEN 0 ELSE k.busy - 1
           new == [k EXCEPT !.busy = busy]
<1>2. busy \in 0 .. ClearTime /\ (busy = 0 \/ busy <= j - 1)
  BY <1>1, ClearTimeAssumption DEF Controller, Showing
<1> HIDE DEF busy
<1>3. /\ new \in Controller /\ new.eight = k.eight /\ new.twoLines = k.twoLines
      /\ new.increments = k.increments /\ new.cgram = k.cgram /\ new.busy = busy
      /\ new.cells = k.cells /\ new.cursor = k.cursor /\ new.on = k.on
  BY <1>1, <1>2 DEF Controller
<1> HIDE DEF new
<1>4. new \in Showing(s, j - 1)
  BY <1>2, <1>3 DEF Showing, Ready, SameText
<1> QED
  BY <1>4 DEF new, busy

LEMMA StillFamily ==
  ASSUME NEW s
  PROVE  Mode(Still(s)) /\ \A j \in Int : Rests(Still(s)[j], Still(s)[j - 1])
<1> DEFINE F == Still(s)
<1>1. \A j \in Int : F[j] = Showing(s, j) /\ F[j - 1] = Showing(s, j - 1)
  BY DEF Still
<1> HIDE DEF F
<1>2. \A j \in Int : Rests(F[j], F[j - 1])
  BY <1>1, ShowingRests DEF Rests
<1>3. \A j \in Int : F[j] \subseteq Controller
  BY <1>1, ShowingHalf
<1>4. \A j \in Int : \A k \in F[j] : ~k.eight /\ \A h \in 0 .. ReadHalf : [k EXCEPT !.half = h] \in F[j]
  BY <1>1, ShowingHalf
<1>5. Mode(F)
  BY <1>3, <1>4, Zenon DEF Mode
<1> QED
  BY <1>2, <1>5 DEF F

----------------------------------------------------------------------------
(* What a request writes: lcd_putc never finds the end of a line, since    *)
(* what lcd_waitbusy leaves is 0 or 17.                                    *)
Writes(r) == r.op \notin {"lcd_led", "lcd_getxy"}

Register(r) ==
  IF r.op = "lcd_data" \/ (r.op = "lcd_putc" /\ r.c # NewLine) THEN 1 ELSE 0

Written(r) ==
  CASE r.op = "lcd_clrscr"  -> CLR
    [] r.op = "lcd_home"    -> HOME
    [] r.op = "lcd_gotoxy"  ->
         DDRAM + r.x + IF r.y = 0 THEN LCD_START_LINE1 ELSE LCD_START_LINE2
    [] r.op = "lcd_putc"    -> IF r.c = NewLine THEN DDRAM + LCD_START_LINE2 ELSE r.c
    [] r.op = "lcd_data"    -> r.c
    [] r.op = "lcd_command" -> r.cmd

(* The commands keep the mode: lcd_command(48) would not.                  *)
CommandsInMode == \A r \in Request : r.op = "lcd_command" => r.cmd \in InMode

LEMMA WrittenInMode ==
  ASSUME CommandsInMode, NEW r \in Request, Writes(r)
  PROVE  /\ Register(r) \in 0 .. 1 /\ Written(r) \in Byte
         /\ Register(r) = 0 => Written(r) \in InMode
<1>1. Register(r) \in 0 .. 1
  BY DEF Register
<1>2. CASE r.op \in {"lcd_clrscr", "lcd_home"}
  BY <1>1, <1>2 DEF Written, CLR, HOME, InMode, Byte
<1>3. CASE r.op = "lcd_gotoxy"
  <2>1. r.x \in 0 .. 63
    BY <1>3, RequestAssumption DEF LCD_START_LINE2
  <2>2. Written(r) = 128 + r.x + IF r.y = 0 THEN 0 ELSE 64
    BY <1>3 DEF Written, DDRAM, LCD_START_LINE1, LCD_START_LINE2
  <2>3. Written(r) \in 128 .. 255
    BY <2>1, <2>2
  <2> QED
    BY <1>1, <2>3 DEF InMode, Byte
<1>4. CASE r.op = "lcd_putc"
  <2>1. r.c \in Byte
    BY <1>4, RequestAssumption
  <2>2. r.c = NewLine => Written(r) = 192
    BY <1>4 DEF Written, DDRAM, LCD_START_LINE2
  <2>3. r.c # NewLine => Written(r) = r.c /\ Register(r) = 1
    BY <1>4 DEF Written, Register
  <2> QED
    BY <1>1, <2>1, <2>2, <2>3 DEF InMode, Byte
<1>5. CASE r.op = "lcd_data"
  BY <1>1, <1>5, RequestAssumption DEF Written, Register
<1>6. CASE r.op = "lcd_command"
  BY <1>1, <1>6, RequestAssumption DEF Written, CommandsInMode
<1> QED
  BY <1>2, <1>3, <1>4, <1>5, <1>6, RequestAssumption DEF Writes

(* The requests that are made of the driver: lcd_gotoxy to a cell there    *)
(* is, lcd_command to switch the display.  A display that is slow to clear *)
(* would not hear what comes next.                                         *)
PlainRequests ==
  \A r \in Request :
    /\ r.op = "lcd_gotoxy" =>
         r.x + (IF r.y = 0 THEN LCD_START_LINE1 ELSE LCD_START_LINE2) \in Address
    /\ r.op = "lcd_command" => r.cmd \in 8 .. 15

QuickClear == ClearTime <= 18

LEMMA PlainInMode == PlainRequests => CommandsInMode
BY DEF PlainRequests, CommandsInMode, InMode, Byte

(* The byte written makes of the text what the request names.              *)
LEMMA RequestText ==
  ASSUME PlainRequests, NEW r \in Request, Writes(r), NEW s \in Screen,
         NEW k \in Ready, SameText(k, s),
         NEW j, j = IF Register(r) = 1 THEN Store(k, Written(r)) ELSE Instruct(k, Written(r))
  PROVE  SameText(j, Apply(r, s))
<1>0. /\ k \in Controller /\ ~k.cgram /\ k.increments
      /\ k.cells = s.cells /\ k.cursor = s.cursor /\ k.on = s.on
      /\ s.cells \in [Address -> Byte] /\ s.cursor \in Address
      /\ \A a \in Address : LET new == MoveTo(s, a)
                            IN  new.cells = s.cells /\ new.cursor = a /\ new.on = s.on
      /\ LCD_START_LINE1 \in Address /\ LCD_START_LINE2 \in Address
  BY DEF Ready, SameText, Screen, MoveTo, Address, LCD_START_LINE1, LCD_START_LINE2, LineLength
<1>1. Written(r) \in Byte
  BY PlainInMode, WrittenInMode
<1> DEFINE i == Written(r)
<1>2. CASE r.op = "lcd_clrscr"
  <2>1. i = 1 /\ Register(r) = 0 /\ Apply(r, s) = Clear(s)
    BY <1>2 DEF Written, Register, Apply, CLR
  <2>2. LET new == Clear(s)
        IN  /\ new.cells = [a \in Address |-> Blank] /\ new.cursor = LCD_START_LINE1
            /\ new.on = s.on
    BY DEF Clear, Screen
  <2>3. j = Instruct(k, i)
    BY <2>1
  <2> HIDE DEF i
  <2>4. j.cells = [a \in Address |-> Blank] /\ j.cursor = LCD_START_LINE1 /\ j.on = k.on
    BY <1>0, <1>1, <2>1, <2>3, InstructText DEF i
  <2> QED
    BY <1>0, <2>1, <2>2, <2>4 DEF SameText
<1>3. CASE r.op = "lcd_home"
  <2>1. i = 2 /\ Register(r) = 0 /\ Apply(r, s) = MoveTo(s, LCD_START_LINE1)
    BY <1>3 DEF Written, Register, Apply, HOME
  <2>2. j = Instruct(k, i) /\ i \in 2 .. 3
    BY <2>1
  <2> HIDE DEF i
  <2>3. j.cells = k.cells /\ j.cursor = LCD_START_LINE1 /\ j.on = k.on
    BY <1>0, <1>1, <2>2, InstructText DEF i
  <2> QED
    BY <1>0, <2>1, <2>3 DEF SameText
<1>4. ASSUME NEW a \in Address, i = DDRAM + a, Register(r) = 0, Apply(r, s) = MoveTo(s, a)
      PROVE  SameText(j, Apply(r, s))
  <2>1. j = Instruct(k, i) /\ i >= DDRAM /\ i - DDRAM = a
    BY <1>4 DEF Address, DDRAM, LCD_START_LINE1, LCD_START_LINE2, LineLength
  <2> HIDE DEF i
  <2>2. j.cells = k.cells /\ j.cursor = a /\ j.on = k.on
    BY <1>0, <1>1, <2>1, InstructText DEF i
  <2> QED
    BY <1>0, <1>4, <2>2 DEF SameText
<1>5. ASSUME Register(r) = 1, i = r.c, Apply(r, s) = Show(s, r.c)
      PROVE  SameText(j, Apply(r, s))
  <2>1. j = Store(k, i)
    BY <1>5
  <2>2. LET new == Show(s, i)
        IN  /\ new.cells = [s.cells EXCEPT ![s.cursor] = i]
            /\ new.cursor = NextAddress(s.cursor) /\ new.on = s.on
    <3> DEFINE next == NextAddress(s.cursor)
    <3>1. Show(s, i) = [s EXCEPT !.cells[s.cursor] = i, !.cursor = next]
      BY DEF Show
    <3> HIDE DEF next, i
    <3> QED
      BY <3>1 DEF Screen, next
  <2> HIDE DEF i
  <2>3. j.cells = [k.cells EXCEPT ![k.cursor] = i] /\ j.cursor = NextAddress(k.cursor) /\ j.on = k.on
    BY <1>0, <2>1, StoreText
  <2> QED
    BY <1>0, <1>5, <2>2, <2>3 DEF SameText
<1>6. CASE r.op = "lcd_gotoxy"
  <2> DEFINE a == r.x + IF r.y = 0 THEN LCD_START_LINE1 ELSE LCD_START_LINE2
  <2>1. a \in Address /\ r.x \in Nat
    BY <1>6, RequestAssumption DEF PlainRequests, LCD_START_LINE2
  <2>2. i = DDRAM + a
    BY <1>6, <2>1 DEF Written, DDRAM, LCD_START_LINE1, LCD_START_LINE2
  <2>3. Register(r) = 0 /\ Apply(r, s) = MoveTo(s, a)
    BY <1>6 DEF Register, Apply
  <2> QED
    BY <1>4, <2>1, <2>2, <2>3
<1>7. CASE r.op = "lcd_putc" /\ r.c = NewLine
  <2>1. i = DDRAM + LCD_START_LINE2 /\ Register(r) = 0 /\ Apply(r, s) = MoveTo(s, LCD_START_LINE2)
    BY <1>7 DEF Written, Register, Apply
  <2> QED
    BY <1>0, <1>4, <2>1
<1>8. CASE r.op = "lcd_data" \/ (r.op = "lcd_putc" /\ r.c # NewLine)
  <2>1. i = r.c /\ Register(r) = 1 /\ Apply(r, s) = Show(s, r.c)
    BY <1>8 DEF Written, Register, Apply
  <2> QED
    BY <1>5, <2>1
<1>9. CASE r.op = "lcd_command"
  <2> DEFINE on == r.cmd \in 12 .. 15
  <2>1. i = r.cmd /\ Register(r) = 0 /\ Apply(r, s) = [s EXCEPT !.on = on]
    BY <1>9 DEF Written, Register, Apply
  <2>2. r.cmd \in 8 .. 15
    BY <1>9 DEF PlainRequests
  <2>3. on <=> Bit(r.cmd, 2) = 1
    <3>1. 2 ^ 2 = 4
      OBVIOUS
    <3>2. (r.cmd \div 4) % 2 = 1 <=> r.cmd \in 12 .. 15
      BY <2>2
    <3> QED
      BY <3>1, <3>2 DEF Bit
  <2>4. j = Instruct(k, i) /\ i \in 8 .. 15
    BY <2>1, <2>2
  <2>5. j.cells = k.cells /\ j.cursor = k.cursor /\ j.on = (Bit(i, 2) = 1)
    <3> HIDE DEF i
    <3> QED
      BY <1>0, <1>1, <2>4, InstructText DEF i
  <2> DEFINE new == [s EXCEPT !.on = on]
  <2> HIDE DEF on
  <2>6. new.cells = s.cells /\ new.cursor = s.cursor /\ new.on = on
    BY DEF Screen
  <2>7. j.on = on
    BY <2>1, <2>3, <2>5 DEF on
  <2> HIDE DEF i
  <2> QED
    BY <1>0, <2>1, <2>5, <2>6, <2>7 DEF SameText
<1> QED
  BY <1>2, <1>3, <1>6, <1>7, <1>8, <1>9, RequestAssumption DEF Writes

(* The byte comes when the display is no longer busy, and the next one 17  *)
(* bytes later at the earliest.                                            *)
LEMMA RequestExecutes ==
  ASSUME PlainRequests, QuickClear, NEW r \in Request, Writes(r), NEW s \in Screen,
         NEW j \in Int, j <= 0
  PROVE  Executes(Half(Still(s), NoHalf)[j], Register(r), Written(r),
                  Half(Still(Apply(r, s)), NoHalf)[18])
<1> DEFINE rs == Register(r)
           i == Written(r)
           after == Apply(r, s)
<1>1. rs \in 0 .. 1 /\ i \in Byte /\ (rs = 0 => i \in InMode)
  BY PlainInMode, WrittenInMode
<1>2. /\ Half(Still(s), NoHalf)[j] = {k \in Showing(s, j) : k.half = NoHalf}
      /\ Half(Still(after), NoHalf)[18] = {k \in Showing(after, 18) : k.half = NoHalf}
  BY DEF Half, Still
<1>3. ASSUME NEW k \in Showing(s, j), k.half = NoHalf
      PROVE  Execute(k, rs, i) \in Showing(after, 18) /\ Execute(k, rs, i).half = NoHalf
  <2> DEFINE new == Execute(k, rs, i)
  <2>1. k \in Ready /\ k \in Controller /\ SameText(k, s) /\ k.busy = 0 /\ k \in Whole(Ready)
    BY <1>3, ClearTimeAssumption DEF Showing, Ready, Controller, Whole
  <2>2. new = IF rs = 1 THEN Store(k, i) ELSE Instruct(k, i)
    BY <1>1, <2>1, ExecuteCases
  <2>3. new \in Whole(Ready)
    BY <1>1, <2>1, ReadyExecutes DEF Executes
  <2>4. SameText(new, after)
    BY <2>1, <2>2, RequestText
  <2> HIDE DEF new, after
  <2>5. new \in Controller /\ new.half = NoHalf /\ new \in Ready
    BY <2>3 DEF Whole, Ready
  <2>6. new.busy <= 18
    BY <2>5, ClearTimeAssumption DEF QuickClear, Controller
  <2> QED
    BY <2>4, <2>5, <2>6 DEF Showing, new
<1> QED
  BY <1>2, <1>3 DEF Executes

----------------------------------------------------------------------------
(* The text that lcd_init brings about.                                    *)
Off == {k \in TwoLines : ~k.on}
Dark == [BlankScreen EXCEPT !.on = FALSE]

LEMMA OffFamily == Rests(Off, Off) /\ Mode(Always(Off))
<1>1. Rests(Off, Off)
  <2> SUFFICES ASSUME NEW k \in Off
               PROVE  [k EXCEPT !.busy = IF k.busy = 0 THEN 0 ELSE k.busy - 1] \in Off
    BY DEF Rests
  <2>1. k \in TwoLines /\ k \in Controller /\ ~k.on /\ k.busy = 0
    BY DEF Off, TwoLines, Narrow, Idle
  <2>2. [k EXCEPT !.busy = IF k.busy = 0 THEN 0 ELSE k.busy - 1] = k
    BY <2>1 DEF Controller
  <2> QED
    BY <2>2
<1>2. Off \subseteq Controller
      /\ \A k \in Off : ~k.eight /\ \A h \in 0 .. ReadHalf : [k EXCEPT !.half = h] \in Off
  <2>1. \A k \in Controller, h \in 0 .. ReadHalf :
          LET j == [k EXCEPT !.half = h]
          IN  /\ j \in Controller /\ j.eight = k.eight /\ j.twoLines = k.twoLines
              /\ j.busy = k.busy /\ j.on = k.on
    BY DEF Controller
  <2> QED
    BY <2>1 DEF Off, TwoLines, Narrow, Idle
<1> QED
  BY <1>1, <1>2, AlwaysMode

LEMMA OffExecutes ==
  ASSUME QuickClear
  PROVE  /\ Executes(Whole(TwoLines), 0, LCD_DISP_OFF, Whole(Off))
         /\ Executes(Whole(Off), 0, CLR, Half(Still(Dark), NoHalf)[18])
<1>1. ASSUME NEW k \in Whole(TwoLines)
      PROVE  Execute(k, 0, 8) \in Whole(Off)
  <2> DEFINE new == Execute(k, 0, 8)
  <2>1. new \in Whole(TwoLines)
    BY InitExecutes DEF Executes, LCD_DISP_OFF
  <2>2. k \in Controller /\ k.busy = 0 /\ 8 \in Byte /\ 8 \in 8 .. 15
    BY DEF Whole, TwoLines, Narrow, Idle, Byte
  <2>3. new = Instruct(k, 8)
    BY <2>2, ExecuteCases
  <2>4. Bit(8, 2) = 0
    <3>1. 2 ^ 2 = 4
      OBVIOUS
    <3> QED
      BY <3>1 DEF Bit
  <2> HIDE DEF new
  <2>5. new.on = (Bit(8, 2) = 1)
    BY <2>2, <2>3, InstructText
  <2>6. ~new.on
    <3>1. ~(Bit(8, 2) = 1)
      BY <2>4
    <3> QED
      BY <2>5, <3>1, Zenon
  <2>7. new \in Whole(Off)
    BY <2>1, <2>6 DEF Whole, Off
  <2> QED
    BY <2>7 DEF new
<1>2. ASSUME NEW k \in Whole(Off)
      PROVE  Execute(k, 0, 1) \in Half(Still(Dark), NoHalf)[18]
  <2> DEFINE new == Execute(k, 0, 1)
  <2>1. k \in Whole(TwoLines) /\ k \in Controller /\ k.busy = 0 /\ ~k.on /\ 1 \in Byte
    BY DEF Whole, Off, TwoLines, Narrow, Idle, Byte
  <2>2. new \in Whole(Ready)
    BY <2>1, InitExecutes DEF Executes, CLR
  <2>3. new = Instruct(k, 1)
    BY <2>1, ExecuteCases
  <2> HIDE DEF new
  <2>4. /\ new.cells = [a \in Address |-> Blank] /\ new.cursor = LCD_START_LINE1
        /\ new.on = k.on
    BY <2>1, <2>3, InstructText
  <2>5. k.on = FALSE /\ new \in Controller /\ new \in Ready /\ new.half = NoHalf
    BY <2>1, <2>2 DEF Controller, Whole, Ready
  <2>6. SameText(new, Dark)
    BY <2>4, <2>5 DEF SameText, Dark, BlankScreen
  <2>7. new.busy <= 18
    BY <2>5, ClearTimeAssumption DEF QuickClear, Controller
  <2>8. new \in Showing(Dark, 18)
    BY <2>5, <2>6, <2>7 DEF Showing
  <2> QED
    BY <2>5, <2>8 DEF Half, Still, new
<1> QED
  BY <1>1, <1>2 DEF Executes, LCD_DISP_OFF, CLR

LEMMA DarkExecutes ==
  ASSUME QuickClear, NEW j \in Int, j <= 0
  PROVE  /\ Executes(Half(Still(Dark), NoHalf)[j], 0, LCD_MODE_DEFAULT, Half(Still(Dark), NoHalf)[18])
         /\ Executes(Half(Still(Dark), NoHalf)[j], 0, LCD_DISP_ON_BLINK,
                     Half(Still(BlankScreen), NoHalf)[18])
<1>1. /\ Half(Still(Dark), NoHalf)[j] = {k \in Showing(Dark, j) : k.half = NoHalf}
      /\ Half(Still(Dark), NoHalf)[18] = {k \in Showing(Dark, 18) : k.half = NoHalf}
      /\ Half(Still(BlankScreen), NoHalf)[18] = {k \in Showing(BlankScreen, 18) : k.half = NoHalf}
  BY DEF Half, Still
<1>2. ASSUME NEW k \in Showing(Dark, j), k.half = NoHalf, NEW i \in {6, 13},
             NEW new, new = Execute(k, 0, i)
      PROVE  /\ new \in Ready /\ new.half = NoHalf /\ new.busy <= 18
             /\ k \in Controller /\ new = Instruct(k, i) /\ i \in Byte
             /\ SameText(k, Dark)
  <2>1. /\ k \in Controller /\ k.busy = 0 /\ k \in Whole(Ready) /\ SameText(k, Dark)
        /\ i \in InMode /\ i \in Byte
    BY <1>2, ClearTimeAssumption DEF Showing, Ready, Controller, Whole, InMode, Byte
  <2>2. new \in Whole(Ready) /\ new = Instruct(k, i)
    BY <1>2, <2>1, ReadyExecutes, ExecuteCases DEF Executes
  <2>3. new \in Ready /\ new \in Controller /\ new.half = NoHalf
    BY <2>2 DEF Whole, Ready
  <2>4. new.busy <= 18
    BY <2>3, ClearTimeAssumption DEF QuickClear, Controller
  <2> QED
    BY <2>1, <2>2, <2>3, <2>4
<1>3. ASSUME NEW k \in Showing(Dark, j), k.half = NoHalf, NEW new, new = Execute(k, 0, 6)
      PROVE  new \in Showing(Dark, 18) /\ new.half = NoHalf
  <2>1. /\ new \in Ready /\ new.half = NoHalf /\ new.busy <= 18
        /\ k \in Controller /\ new = Instruct(k, 6) /\ 6 \in Byte /\ 6 \in 4 .. 7
        /\ SameText(k, Dark)
    BY <1>2, <1>3
  <2>2. SameText(new, k)
    BY <2>1, InstructText
  <2> QED
    BY <2>1, <2>2 DEF Showing, SameText
<1>4. ASSUME NEW k \in Showing(Dark, j), k.half = NoHalf, NEW new, new = Execute(k, 0, 13)
      PROVE  new \in Showing(BlankScreen, 18) /\ new.half = NoHalf
  <2>1. /\ new \in Ready /\ new.half = NoHalf /\ new.busy <= 18
        /\ k \in Controller /\ new = Instruct(k, 13) /\ 13 \in Byte /\ 13 \in 8 .. 15
        /\ SameText(k, Dark)
    BY <1>2, <1>4
  <2>2. new.cells = k.cells /\ new.cursor = k.cursor /\ new.on = (Bit(13, 2) = 1)
    BY <2>1, InstructText
  <2>3. Bit(13, 2) = 1
    <3>1. 2 ^ 2 = 4
      OBVIOUS
    <3> QED
      BY <3>1 DEF Bit
  <2>4. SameText(new, BlankScreen)
    BY <2>1, <2>2, <2>3 DEF SameText, Dark, BlankScreen
  <2> QED
    BY <2>1, <2>4 DEF Showing
<1> QED
  BY <1>1, <1>3, <1>4 DEF Executes, LCD_MODE_DEFAULT, LCD_DISP_ON_BLINK

----------------------------------------------------------------------------
(* One byte takes the display from the family F to G, if it was to be busy *)
(* for 17 bytes at most when the call began; G then has 18.                *)
MovesOn(F, G, R) == \A i, j \in Int : Moves(F[i], G[j], R)

Follows(F, rs, byte, G) ==
  \A j \in Int : j <= 0 => Executes(Half(F, NoHalf)[j], rs, byte, Half(G, NoHalf)[18])

Leaves(S, d, new, F, R) ==
  new \in Settled /\ Reaches(S, new, Half(F, NoHalf)[17], R) /\ SameLight(d, new)

LEMMA HalfMoves ==
  ASSUME NEW F, NEW G, NEW R, MovesOn(F, G, R), NEW i \in Int, NEW j \in Int, NEW h
  PROVE  Moves(F[i], Half(G, h)[j], R)
<1>1. Half(G, h)[j] \subseteq G[j]
  BY DEF Half
<1> QED
  BY <1>1 DEF MovesOn, Moves, Relights

LEMMA WriteFollows ==
  ASSUME NEW d \in Settled, NEW byte \in Byte, NEW rs \in 0 .. 1, NEW S, NEW F, NEW G, NEW R,
         Mode(F), Calm(F, R), Mode(G), Calm(G, R), MovesOn(F, G, R),
         NEW j \in Int, j <= 7, Reaches(S, d, Half(F, NoHalf)[j], R), Follows(F, rs, byte, G)
  PROVE  Leaves(S, d, lcd_write(d, byte, rs), G, R)
<1> DEFINE H == Half(G, NoHalf)
<1>1. 18 \in Int /\ 18 - 1 = 17 /\ j - 6 \in Int /\ j - 7 \in Int /\ j - 7 <= 0
  OBVIOUS
<1>2. Calm(H, R)
  BY HalfCalm
<1>3. Moves(F[j - 6], H[18], R)
  BY <1>1, HalfMoves
<1>4. Executes(Half(F, NoHalf)[j - 7], rs, byte, H[18])
  BY <1>1 DEF Follows
<1> HIDE DEF H
<1>5. LET new == lcd_write(d, byte, rs)
      IN  new \in Settled /\ Reaches(S, new, H[18 - 1], R) /\ SameLight(d, new)
  BY <1>1, <1>2, <1>3, <1>4, WriteReaches
<1> QED
  BY <1>1, <1>5 DEF Leaves, H

LEMMA CommandFollows ==
  ASSUME NEW d \in Settled, NEW cmd \in Byte, NEW S, NEW F, NEW G, NEW R,
         Mode(F), Calm(F, R), Mode(G), Calm(G, R), MovesOn(F, G, R),
         NEW j \in Int, j <= 17, Reaches(S, d, Half(F, NoHalf)[j], R), Follows(F, 0, cmd, G)
  PROVE  Leaves(S, d, lcd_command(d, cmd), G, R)
<1> DEFINE waited == lcd_waitbusy(d)
           p == j - 10
<1>1. waited \in Settled /\ Reaches(S, waited, Half(F, NoHalf)[p], R) /\ SameLight(d, waited)
  BY WaitReaches
<1>2. p \in Int /\ p <= 7 /\ 0 \in 0 .. 1
  OBVIOUS
<1> HIDE DEF waited, p
<1>3. Leaves(S, waited, lcd_write(waited, cmd, 0), G, R)
  BY <1>1, <1>2, WriteFollows
<1> QED
  BY <1>1, <1>3 DEF Leaves, SameLight, lcd_command, waited

LEMMA CallReaches ==
  ASSUME NEW r \in Request, Writes(r), Written(r) \in Byte,
         NEW d \in Settled, NEW S, NEW F, NEW G, NEW R,
         Mode(F), Calm(F, R), Mode(G), Calm(G, R), MovesOn(F, G, R),
         Reaches(S, d, Half(F, NoHalf)[17], R), Follows(F, Register(r), Written(r), G)
  PROVE  Leaves(S, d, Call(d, r), G, R)
<1> DEFINE waited == lcd_waitbusy(d)
           again == lcd_waitbusy(waited)
<1>1. /\ 17 \in Int /\ 17 <= 17 /\ 17 - 10 = 7 /\ 7 \in Int /\ 7 <= 7 /\ 7 <= 17
      /\ 7 - 10 \in Int /\ 7 - 10 <= 7 /\ 1 \in 0 .. 1
  OBVIOUS
<1>2. /\ waited \in Settled /\ Reaches(S, waited, Half(F, NoHalf)[7], R)
      /\ SameLight(d, waited) /\ waited.data \in {0, 17}
  BY <1>1, WaitReaches
<1>3. lcd_waitbusy(d) = waited
  OBVIOUS
<1> HIDE DEF waited
<1>4. again \in Settled /\ Reaches(S, again, Half(F, NoHalf)[7 - 10], R) /\ SameLight(waited, again)
  BY <1>1, <1>2, WaitReaches
<1>5. lcd_waitbusy(waited) = again
  OBVIOUS
<1> HIDE DEF again
<1>6. CASE r.op \in {"lcd_clrscr", "lcd_home", "lcd_gotoxy", "lcd_command"}
  <2>1. Register(r) = 0 /\ Call(d, r) = lcd_command(d, Written(r))
    BY <1>6 DEF Register, Call, Written
  <2> QED
    BY <1>1, <2>1, CommandFollows
<1>7. CASE r.op = "lcd_putc" /\ r.c = NewLine
  <2>1. Register(r) = 0 /\ Written(r) = DDRAM + LCD_START_LINE2
    BY <1>7 DEF Register, Written
  <2>2. waited.data < LCD_START_LINE2
    BY <1>2 DEF LCD_START_LINE2
  <2>3. Call(d, r) = lcd_command(waited, Written(r))
    BY <1>3, <1>7, <2>1, <2>2 DEF Call, lcd_putc, lcd_newline
  <2>4. Leaves(S, waited, lcd_command(waited, Written(r)), G, R)
    BY <1>1, <1>2, <2>1, CommandFollows
  <2> QED
    BY <1>2, <2>3, <2>4 DEF Leaves, SameLight
<1>8. CASE r.op = "lcd_putc" /\ r.c # NewLine
  <2>1. Register(r) = 1 /\ Written(r) = r.c
    BY <1>8 DEF Register, Written
  <2>2. waited.data # LCD_START_LINE1 + LCD_DISP_LENGTH /\ waited.data # LCD_START_LINE2 + LCD_DISP_LENGTH
    BY <1>2 DEF LCD_START_LINE1, LCD_START_LINE2, LCD_DISP_LENGTH
  <2>3. Call(d, r) = lcd_write(again, r.c, 1)
    BY <1>3, <1>5, <1>8, <2>2 DEF Call, lcd_putc
  <2>4. Leaves(S, again, lcd_write(again, r.c, 1), G, R)
    BY <1>1, <1>4, <2>1, WriteFollows
  <2> QED
    BY <1>2, <1>4, <2>3, <2>4 DEF Leaves, SameLight
<1>9. CASE r.op = "lcd_data"
  <2>1. Register(r) = 1 /\ Written(r) = r.c
    BY <1>9 DEF Register, Written
  <2>2. Call(d, r) = lcd_write(waited, r.c, 1)
    BY <1>3, <1>9 DEF Call
  <2>3. Leaves(S, waited, lcd_write(waited, r.c, 1), G, R)
    BY <1>1, <1>2, <2>1, WriteFollows
  <2> QED
    BY <1>2, <2>2, <2>3 DEF Leaves, SameLight
<1> QED
  BY <1>6, <1>7, <1>8, <1>9, RequestAssumption DEF Writes

----------------------------------------------------------------------------
(* lcd_init configures the display by way of K and F and leaves it in G.   *)
Anything == Point \X Point

LEMMA AnythingMoves == \A K, L : Moves(K, L, Anything)
BY DEF Moves, Relights, Anything

Family(F) == Mode(F) /\ \A j \in Int : Rests(F[j], F[j - 1])

Configures(K, F, G) ==
  /\ Family(Always(K)) /\ Family(F) /\ Family(G)
  /\ Executes(Whole(TwoLines), 0, LCD_DISP_OFF, Whole(K))
  /\ Executes(Whole(K), 0, CLR, Half(F, NoHalf)[18])
  /\ Follows(F, 0, LCD_MODE_DEFAULT, F)
  /\ Follows(F, 0, LCD_DISP_ON_BLINK, G)

LEMMA WholeHalf == \A K : \A j \in Int : Half(Always(K), NoHalf)[j] = Whole(K)
BY DEF Half, Always, Whole

LEMMA AnythingFollows ==
  ASSUME NEW d \in Settled, NEW cmd \in Byte, NEW S, NEW F, NEW G, Family(F), Family(G),
         Reaches(S, d, Half(F, NoHalf)[17], Anything), Follows(F, 0, cmd, G)
  PROVE  Leaves(S, d, lcd_command(d, cmd), G, Anything)
<1>1. Mode(F) /\ Calm(F, Anything) /\ Mode(G) /\ Calm(G, Anything) /\ MovesOn(F, G, Anything)
  BY AnythingMoves DEF Family, Calm, MovesOn
<1>2. 17 \in Int /\ 17 <= 17
  OBVIOUS
<1> QED
  BY <1>1, <1>2, CommandFollows

LEMMA ConfigureReaches ==
  ASSUME NEW K, NEW F, NEW G, Configures(K, F, G),
         NEW d \in Settled, NEW S, Reaches(S, d, Whole(Narrow), Anything)
  PROVE  Leaves(S, d, Configure(d), G, Anything)
<1> DEFINE function == lcd_command(d, LCD_FUNCTION_4BIT_2LINES)
           off == lcd_command(function, LCD_DISP_OFF)
           clear == lcd_command(off, CLR)
           mode == lcd_command(clear, LCD_MODE_DEFAULT)
           new == lcd_command(mode, LCD_DISP_ON_BLINK)
<1>1. Configure(d) = new
  BY DEF Configure
<1>2. /\ LCD_FUNCTION_4BIT_2LINES \in Byte /\ LCD_DISP_OFF \in Byte /\ CLR \in Byte
      /\ LCD_MODE_DEFAULT \in Byte /\ LCD_DISP_ON_BLINK \in Byte
  BY DEF LCD_FUNCTION_4BIT_2LINES, LCD_DISP_OFF, CLR, LCD_MODE_DEFAULT, LCD_DISP_ON_BLINK, Byte
<1>3. Family(Always(Narrow)) /\ Family(Always(TwoLines))
  <2>1. \A L : \A j \in Int : Always(L)[j] = L /\ Always(L)[j - 1] = L
    BY DEF Always
  <2> QED
    BY <2>1, Modes, Rested DEF Family
<1>4. /\ Follows(Always(Narrow), 0, LCD_FUNCTION_4BIT_2LINES, Always(TwoLines))
      /\ Follows(Always(TwoLines), 0, LCD_DISP_OFF, Always(K))
      /\ Follows(Always(K), 0, CLR, F)
  BY WholeHalf, InitExecutes DEF Follows, Configures
<1>5. Reaches(S, d, Half(Always(Narrow), NoHalf)[17], Anything)
  BY WholeHalf
<1>6. Leaves(S, d, function, Always(TwoLines), Anything)
  BY <1>2, <1>3, <1>4, <1>5, AnythingFollows
<1> HIDE DEF function
<1>7. Leaves(S, function, off, Always(K), Anything)
  BY <1>2, <1>3, <1>4, <1>6, AnythingFollows DEF Leaves, Configures
<1> HIDE DEF off
<1>8. Leaves(S, off, clear, F, Anything)
  BY <1>2, <1>4, <1>7, AnythingFollows DEF Leaves, Configures
<1> HIDE DEF clear
<1>9. Leaves(S, clear, mode, F, Anything)
  BY <1>2, <1>8, AnythingFollows DEF Leaves, Configures
<1> HIDE DEF mode
<1>10. Leaves(S, mode, new, G, Anything)
  BY <1>2, <1>9, AnythingFollows DEF Leaves, Configures
<1> HIDE DEF new
<1> QED
  BY <1>1, <1>6, <1>7, <1>8, <1>9, <1>10 DEF Leaves, SameLight

----------------------------------------------------------------------------
(* lcd_init, from whatever there is on the pins and in the display.        *)
LEMMA DelayReaches ==
  ASSUME NEW d \in Settled, NEW S, NEW K, NEW L, NEW R, Moves(K, L, R), Reaches(S, d, K, R),
         \A k \in K : k \in Controller => [k EXCEPT !.busy = 0] \in L
  PROVE  LET new == Wait(d)
         IN  new \in Settled /\ new.pinstatus = d.pinstatus /\ Reaches(S, new, L, R)
<1> DEFINE new == Wait(d)
           T == On(d.pinstatus, K)
           U == On(d.pinstatus, L)
<1>1. /\ new \in InCall /\ new.pinstatus = d.pinstatus /\ new.dataport = d.dataport
      /\ new.out = Append(d.out, LongDelay)
  <2>1. new \in InCall
    BY WaitType DEF Settled
  <2> QED
    BY <2>1 DEF Wait, Settled, InCall
<1>2. d.out \in Seq(OnBus) /\ LongDelay \in OnBus
  BY DEF Settled, InCall, OnBus
<1>3. Leads(S, d.out, T, R)
  BY DEF Reaches
<1>4. \A a \in T, z \in Point :
        a \in Point /\ Steps(a, LongDelay, z) => z \in U /\ <<a, z>> \in R
  <2> SUFFICES ASSUME NEW a \in T, NEW z \in Point, a \in Point, Steps(a, LongDelay, z)
               PROVE  z \in U /\ <<a, z>> \in R
    OBVIOUS
  <2>1. a.display \in K /\ z.display \in L /\ a.pins = d.pinstatus /\ z.pins = d.pinstatus
    BY DEF On, Steps, Point
  <2> QED
    BY <2>1 DEF Moves, Relights, On
<1> HIDE DEF T, U
<1>5. Leads(S, Append(d.out, LongDelay), U, R)
  BY <1>2, <1>3, <1>4, LeadsFurther
<1> HIDE DEF new
<1>6. new \in Settled /\ Reaches(S, new, L, R)
  BY <1>1, <1>5 DEF Settled, Reaches, U
<1> QED
  BY <1>1, <1>6 DEF new

(* The display has woken to the mode of 8 bits or, where it was in the     *)
(* mode of 4 bits, its half is one of h.                                   *)
Waking(h) == {k \in Controller : IF k.eight THEN k.half = NoHalf ELSE k.half \in h}

LEMMA Wakes ==
  \A h : Rests(Waking(h), Waking(h)) /\ Rests(Idle \cap Waking(h), Idle \cap Waking(h))
BY RestedFields DEF Rests, Waking, Idle

LEMMA Completes ==
  ASSUME NEW k \in Idle, NEW i \in Byte
  PROVE  LET j == Execute([k EXCEPT !.half = NoHalf], 0, i)
         IN  /\ j \in Controller /\ j.half = NoHalf
             /\ i \in 48 .. 63 => j.eight /\ j.busy = 0
             /\ i \in 32 .. 47 => ~j.eight /\ j.busy = 0
<1> DEFINE whole == [k EXCEPT !.half = NoHalf]
           j == Instruct(whole, i)
<1>1. whole \in Controller /\ whole.half = NoHalf /\ whole.busy = 0
  BY DEF Idle, Controller, NoHalf, ReadHalf
<1> HIDE DEF whole
<1>2. Execute(whole, 0, i) = j /\ j \in Controller /\ j.half = NoHalf
  BY <1>1, ExecuteCases, InstructFields, InstructType
<1>3. i \in 32 .. 63 => j.busy = 0 /\ (j.eight <=> Bit(i, 4) = 1)
  <2>1. i \in 32 .. 63 => i \notin 1 .. 3
    OBVIOUS
  <2> QED
    BY <1>1, <2>1, InstructFields
<1>4. (i \in 48 .. 63 => Bit(i, 4) = 1) /\ (i \in 32 .. 47 => Bit(i, 4) = 0)
  <2>1. 2 ^ 4 = 16
    OBVIOUS
  <2>2. (i \in 48 .. 63 => (i \div 16) % 2 = 1) /\ (i \in 32 .. 47 => (i \div 16) % 2 = 0)
    OBVIOUS
  <2> QED
    BY <2>1, <2>2 DEF Bit
<1>5. (i \in 48 .. 63 => i \in 32 .. 63) /\ (i \in 32 .. 47 => i \in 32 .. 63)
  OBVIOUS
<1> HIDE DEF j
<1>6. (i \in 48 .. 63 => j.eight /\ j.busy = 0) /\ (i \in 32 .. 47 => ~j.eight /\ j.busy = 0)
  BY <1>3, <1>4, <1>5
<1> QED
  BY <1>2, <1>6 DEF whole

(* Three times 3, and the display takes 8 bits: the first may complete any *)
(* byte, the second begins one at worst, which the third then completes.   *)
LEMMA Pulses ==
  /\ Takes(Idle, 3, 0, 0, Waking({3, NoHalf}))
  /\ Takes(Idle \cap Waking({3, NoHalf}), 3, 0, 0, Idle \cap Waking({3}))
  /\ Takes(Idle \cap Waking({3}), 3, 0, 0, Idle \cap Waking({}))
  /\ Takes(Idle \cap Waking({}), 2, 0, 0, Whole(Narrow))
<1> DEFINE completed(k, high, low) == Execute([k EXCEPT !.half = NoHalf], 0, 16 * high + low)
<1>1. \A high, low \in 0 .. 15 : 16 * high + low \in Byte
  BY DEF Byte
<1>2. ASSUME NEW k \in Idle, NEW high \in 0 .. 15, NEW low \in 0 .. 15
      PROVE  /\ completed(k, high, low) \in Controller /\ completed(k, high, low).half = NoHalf
             /\ high = 3 => completed(k, high, low) \in Idle /\ completed(k, high, low).eight
             /\ high = 2 => completed(k, high, low) \in Whole(Narrow)
  <2> DEFINE i == 16 * high + low
  <2>1. i \in Byte /\ (high = 3 => i \in 48 .. 63) /\ (high = 2 => i \in 32 .. 47)
    BY <1>1
  <2> HIDE DEF i
  <2> DEFINE j == Execute([k EXCEPT !.half = NoHalf], 0, i)
  <2>2. /\ j \in Controller /\ j.half = NoHalf
        /\ i \in 48 .. 63 => j.eight /\ j.busy = 0
        /\ i \in 32 .. 47 => ~j.eight /\ j.busy = 0
    BY <2>1, Completes
  <2>3. completed(k, high, low) = j
    BY DEF i
  <2> HIDE DEF j, completed
  <2> QED
    BY <2>1, <2>2, <2>3 DEF Whole, Narrow, Idle
<1>3. 3 \in 0 .. 15 /\ 2 \in 0 .. 15 /\ 3 # NoHalf /\ 3 # ReadHalf /\ NoHalf # ReadHalf
      /\ 3 \in 0 .. ReadHalf /\ 0 # 1
  BY DEF NoHalf, ReadHalf
<1>4. ASSUME NEW k \in Idle, k.eight, NEW n \in 0 .. 15
      PROVE  Taken(k, n, 0, 0) = {completed(k, n, low) : low \in Undriven}
  BY <1>3, <1>4 DEF Taken
<1>5. ASSUME NEW k \in Idle, ~k.eight, k.half = NoHalf
      PROVE  Taken(k, 3, 0, 0) = {[k EXCEPT !.half = 3]}
  BY <1>3, <1>5 DEF Taken
<1>6. ASSUME NEW k \in Idle, ~k.eight, k.half # NoHalf
      PROVE  Taken(k, 3, 0, 0) = {completed(k, high, 3) :
                                    high \in IF k.half = ReadHalf THEN Undriven ELSE {k.half}}
  BY <1>3, <1>6 DEF Taken
<1>7. \A k \in Idle : /\ k \in Controller /\ k.half \in 0 .. ReadHalf
                      /\ k.half # NoHalf /\ k.half # ReadHalf => k.half \in 0 .. 15
  BY DEF Idle, Controller, NoHalf, ReadHalf
<1>8. \A k \in Idle : [k EXCEPT !.half = 3] \in Idle /\ [k EXCEPT !.half = 3].half = 3
                      /\ [k EXCEPT !.half = 3].eight = k.eight
  BY <1>3 DEF Idle, Controller
<1> HIDE DEF completed
<1>9. ASSUME NEW k \in Idle, k.eight
      PROVE  Taken(k, 3, 0, 0) \subseteq Idle \cap Waking({})
  <2>1. \A low \in Undriven : completed(k, 3, low) \in Idle \cap Waking({})
    BY <1>2, <1>3, UndrivenAssumption DEF Waking
  <2> QED
    BY <1>3, <1>4, <1>9, <2>1
<1>10. ASSUME NEW k \in Idle, ~k.eight, k.half = NoHalf
       PROVE  Taken(k, 3, 0, 0) \subseteq Idle \cap Waking({3})
  BY <1>5, <1>7, <1>8, <1>10 DEF Waking
<1>11. ASSUME NEW k \in Idle, ~k.eight, k.half = 3
       PROVE  Taken(k, 3, 0, 0) \subseteq Idle \cap Waking({})
  <2>1. Taken(k, 3, 0, 0) = {completed(k, high, 3) : high \in {3}}
    BY <1>3, <1>6, <1>11
  <2>2. completed(k, 3, 3) \in Idle \cap Waking({})
    BY <1>2, <1>3 DEF Waking
  <2> QED
    BY <2>1, <2>2
<1>12. ASSUME NEW k \in Idle, ~k.eight, k.half # NoHalf
       PROVE  Taken(k, 3, 0, 0) \subseteq Waking({NoHalf})
  <2> DEFINE halves == IF k.half = ReadHalf THEN Undriven ELSE {k.half}
  <2>1. halves \subseteq 0 .. 15
    BY <1>7, <1>12, UndrivenAssumption
  <2>2. Taken(k, 3, 0, 0) = {completed(k, high, 3) : high \in halves}
    BY <1>6, <1>12
  <2> HIDE DEF halves
  <2>3. \A high \in halves : completed(k, high, 3) \in Waking({NoHalf})
    BY <1>2, <1>3, <2>1 DEF Waking
  <2> QED
    BY <2>2, <2>3
<1>13. Waking({3}) \subseteq Waking({3, NoHalf}) /\ Waking({}) \subseteq Waking({3})
       /\ Waking({NoHalf}) \subseteq Waking({3, NoHalf})
  BY DEF Waking
<1>14. Takes(Idle, 3, 0, 0, Waking({3, NoHalf}))
  BY <1>9, <1>10, <1>12, <1>13 DEF Takes
<1>15. Takes(Idle \cap Waking({3, NoHalf}), 3, 0, 0, Idle \cap Waking({3}))
  <2> SUFFICES ASSUME NEW k \in Idle, k \in Waking({3, NoHalf})
               PROVE  Taken(k, 3, 0, 0) \subseteq Idle \cap Waking({3})
    BY DEF Takes
  <2>1. k.eight \/ (~k.eight /\ k.half = 3) \/ (~k.eight /\ k.half = NoHalf)
    BY DEF Waking
  <2> QED
    BY <1>9, <1>10, <1>11, <1>13, <2>1
<1>16. Takes(Idle \cap Waking({3}), 3, 0, 0, Idle \cap Waking({}))
  <2> SUFFICES ASSUME NEW k \in Idle, k \in Waking({3})
               PROVE  Taken(k, 3, 0, 0) \subseteq Idle \cap Waking({})
    BY DEF Takes
  <2>1. k.eight \/ (~k.eight /\ k.half = 3)
    BY DEF Waking
  <2> QED
    BY <1>9, <1>11, <2>1
<1>17. Takes(Idle \cap Waking({}), 2, 0, 0, Whole(Narrow))
  <2> SUFFICES ASSUME NEW k \in Idle, k \in Waking({})
               PROVE  Taken(k, 2, 0, 0) \subseteq Whole(Narrow)
    BY DEF Takes
  <2>1. k.eight
    BY DEF Waking
  <2>2. \A low \in Undriven : completed(k, 2, low) \in Whole(Narrow)
    BY <1>2, <1>3, UndrivenAssumption
  <2> QED
    BY <1>3, <1>4, <2>1, <2>2
<1> QED
  BY <1>14, <1>15, <1>16, <1>17

(* The pins go low and the first delay passes.                             *)
LEMMA ResetReaches ==
  ASSUME NEW d \in InCall, d.out = <<>>, NEW a \in Point
  PROVE  LET new == Reset(d)
         IN  new \in Settled /\ Shows(new, 0, 0, 0, 0) /\ Reaches({a}, new, Idle, Anything)
<1> DEFINE S == {a}
           forgot == [d EXCEPT !.pinstatus = 0]
           cleared == [forgot EXCEPT !.dataport = 0]
           low == pcf8574_setoutput(cleared, 0)
<1>0. 0 \in Byte /\ 0 \in OnBus /\ 0 # LongDelay
  BY DEF Byte, OnBus, LongDelay
<1>1. Reset(d) = Wait(low)
  BY DEF Reset
<1>2. forgot \in InCall /\ forgot.out = <<>> /\ forgot.pinstatus = 0
  BY <1>0 DEF InCall
<1> HIDE DEF forgot
<1>3. cleared \in InCall /\ cleared.out = <<>> /\ cleared.pinstatus = 0 /\ cleared.dataport = 0
  BY <1>0, <1>2 DEF InCall
<1> HIDE DEF cleared
<1>4. low \in InCall
  BY <1>0, <1>3, SetOutput, SentInCall
<1>5. low.pinstatus = 0 /\ low.dataport = 0 /\ low.out = Append(<<>>, 0)
  BY <1>3 DEF InCall, pcf8574_setoutput
<1> HIDE DEF low
<1>6. Pins(0, 0, 0, 0, 0) = 0
  BY DEF Pins
<1>7. Bit(0, LCD_E_PIN) = 0
  <2>1. Bit(Pins(0, 0, 0, 0, 0), LCD_E_PIN) = 0
    BY PinsRead
  <2> QED
    BY <1>6, <2>1
<1>8. low \in Settled
  BY <1>4, <1>5, <1>7 DEF Settled
<1>9. Reaches(S, low, Controller, Anything)
  <2>1. Leads(S, <<>>, S, Anything)
    BY LeadsStill
  <2> DEFINE U == On(0, Controller)
  <2>2. \A p \in S, z \in Point : p \in Point /\ Steps(p, 0, z) => z \in U /\ <<p, z>> \in Anything
    BY <1>0 DEF Steps, Point, On, Anything
  <2> HIDE DEF U, S
  <2>3. <<>> \in Seq(OnBus)
    OBVIOUS
  <2>4. Leads(S, Append(<<>>, 0), U, Anything)
    BY <1>0, <2>1, <2>2, <2>3, LeadsFurther
  <2> QED
    BY <1>5, <2>4 DEF Reaches, U
<1>10. \A k \in Controller : [k EXCEPT !.busy = 0] \in Idle
  <2>1. 0 \in 0 .. ClearTime
    BY ClearTimeAssumption
  <2> QED
    BY <2>1 DEF Controller, Idle
<1> HIDE DEF S
<1>11. LET new == Wait(low) IN new \in Settled /\ new.pinstatus = 0 /\ Reaches(S, new, Idle, Anything)
  BY <1>5, <1>8, <1>9, <1>10, AnythingMoves, DelayReaches
<1> QED
  BY <1>1, <1>6, <1>11 DEF Shows, S

(* Nothing changes but by the three pulses of 3 and the one of 2.          *)
LEMMA RestingFamily ==
  ASSUME NEW K, Rests(K, K)
  PROVE  Calm(Always(K), Anything) /\ \A j \in Int : Always(K)[j] = K
<1>1. \A j \in Int : Always(K)[j] = K
  BY DEF Always
<1> QED
  BY <1>1, AnythingMoves, AlwaysCalm

LEMMA SetsNibble ==
  ASSUME NEW d \in Settled, NEW n \in 0 .. 15, NEW m \in 0 .. 15, Shows(d, m, 0, 0, 0),
         NEW S, NEW K, Rests(K, K), Reaches(S, d, K, Anything)
  PROVE  LET new == SendNibble(d, n)
         IN  new \in Settled /\ Reaches(S, new, K, Anything) /\ Shows(new, n, 0, 0, 0)
<1> DEFINE F == Always(K)
<1>1. Calm(F, Anything) /\ F[1] = K /\ F[1 - 1] = K /\ 1 \in Int /\ 0 \in 0 .. 1
  BY RestingFamily
<1> HIDE DEF F
<1>2. Reaches(S, d, F[1], Anything)
  BY <1>1
<1>3. LET new == SendNibble(d, n)
      IN  new \in Settled /\ Reaches(S, new, F[1 - 1], Anything) /\ Shows(new, n, 0, 0, 0)
  BY <1>1, <1>2, NibbleReaches
<1> QED
  BY <1>1, <1>3

LEMMA Pulse ==
  ASSUME NEW d \in Settled, NEW n \in 0 .. 15, Shows(d, n, 0, 0, 0),
         NEW S, NEW K, Rests(K, K), Reaches(S, d, K, Anything), NEW L, Takes(K, n, 0, 0, L)
  PROVE  LET new == toggle_e(d)
         IN  new \in Settled /\ Reaches(S, new, L, Anything) /\ Shows(new, n, 0, 0, 0)
<1> DEFINE F == Always(K)
<1>1. Calm(F, Anything) /\ F[1] = K /\ F[1 - 1] = K /\ F[1 - 2] = K /\ 1 \in Int /\ 0 \in 0 .. 1
  BY RestingFamily
<1> HIDE DEF F
<1>2. Moves(F[1 - 1], L, Anything) /\ Takes(F[1 - 2], n, 0, 0, L)
  BY <1>1, AnythingMoves
<1> QED
  BY <1>1, <1>2, ToggleReaches

(* The display is left in G, and dark.                                     *)
LEMMA InitReaches ==
  ASSUME NEW d \in InCall, d.out = <<>>, NEW a \in Point, NEW K, NEW F, NEW G, Configures(K, F, G)
  PROVE  LET new == lcd_init(d)
         IN  /\ new \in Settled /\ Reaches({a}, new, Half(G, NoHalf)[17], Anything)
             /\ Light(new.pinstatus) = 0
<1> DEFINE S == {a}
           reset == Reset(d)
           sets == SendNibble(reset, 3)
           pulse == toggle_e(sets)
           first == Wait(pulse)
           second == toggle_e(first)
           third == toggle_e(second)
           sets2 == SendNibble(third, 2)
           fourth == toggle_e(sets2)
<1>1. lcd_init(d) = Configure(fourth)
  BY DEF lcd_init
<1>2. /\ 0 \in 0 .. 15 /\ 3 \in 0 .. 15 /\ 2 \in 0 .. 15 /\ 0 \in 0 .. 1
      /\ Rests(Idle, Idle) /\ \A h : Rests(Idle \cap Waking(h), Idle \cap Waking(h))
  BY Rested, Wakes
<1>3. reset \in Settled /\ Shows(reset, 0, 0, 0, 0) /\ Reaches(S, reset, Idle, Anything)
  BY ResetReaches
<1> HIDE DEF S, reset
<1>4. sets \in Settled /\ Reaches(S, sets, Idle, Anything) /\ Shows(sets, 3, 0, 0, 0)
  BY <1>2, <1>3, SetsNibble
<1> HIDE DEF sets
<1>5. /\ pulse \in Settled /\ Reaches(S, pulse, Waking({3, NoHalf}), Anything)
      /\ Shows(pulse, 3, 0, 0, 0)
  BY <1>2, <1>4, Pulses, Pulse
<1> HIDE DEF pulse
<1>6. /\ first \in Settled /\ Reaches(S, first, Idle \cap Waking({3, NoHalf}), Anything)
      /\ Shows(first, 3, 0, 0, 0)
  <2>1. \A k \in Waking({3, NoHalf}) :
          k \in Controller => [k EXCEPT !.busy = 0] \in Idle \cap Waking({3, NoHalf})
    <3>1. 0 \in 0 .. ClearTime
      BY ClearTimeAssumption
    <3>2. \A k \in Controller :
            LET j == [k EXCEPT !.busy = 0]
            IN  j \in Controller /\ j.busy = 0 /\ j.eight = k.eight /\ j.half = k.half
      BY <3>1 DEF Controller
    <3> QED
      BY <3>2 DEF Idle, Waking
  <2>2. /\ first \in Settled /\ Reaches(S, first, Idle \cap Waking({3, NoHalf}), Anything)
        /\ first.pinstatus = pulse.pinstatus
    BY <1>5, <2>1, AnythingMoves, DelayReaches
  <2> QED
    BY <1>5, <2>2 DEF Shows
<1> HIDE DEF first
<1>7. /\ second \in Settled /\ Reaches(S, second, Idle \cap Waking({3}), Anything)
      /\ Shows(second, 3, 0, 0, 0)
  BY <1>2, <1>6, Pulses, Pulse
<1> HIDE DEF second
<1>8. /\ third \in Settled /\ Reaches(S, third, Idle \cap Waking({}), Anything)
      /\ Shows(third, 3, 0, 0, 0)
  BY <1>2, <1>7, Pulses, Pulse
<1> HIDE DEF third
<1>9. /\ sets2 \in Settled /\ Reaches(S, sets2, Idle \cap Waking({}), Anything)
      /\ Shows(sets2, 2, 0, 0, 0)
  BY <1>2, <1>8, SetsNibble
<1> HIDE DEF sets2
<1>10. /\ fourth \in Settled /\ Reaches(S, fourth, Whole(Narrow), Anything)
       /\ Shows(fourth, 2, 0, 0, 0)
  BY <1>2, <1>9, Pulses, Pulse
<1> HIDE DEF fourth
<1>11. Leaves(S, fourth, Configure(fourth), G, Anything)
  BY <1>10, ConfigureReaches
<1>12. Light(fourth.pinstatus) = 0
  BY <1>2, <1>10, PinsRead DEF Shows, Light
<1> QED
  BY <1>1, <1>11, <1>12 DEF Leaves, SameLight, S

----------------------------------------------------------------------------
(* The two requests that write nothing to the display.                     *)
LEMMA LedReaches ==
  ASSUME NEW d \in Settled, NEW onoff, NEW v, v = (IF onoff # 0 THEN 0 ELSE 1),
         NEW S, NEW K, NEW L, NEW R, Rests(K, L), Reaches(S, d, K, R),
         Relights(K, L, Light(d.pinstatus), v, R)
  PROVE  LET new == lcd_led(d, onoff)
         IN  new \in Settled /\ Reaches(S, new, L, R) /\ Light(new.pinstatus) = v
<1>1. PICK n \in 0 .. 15, l, w, r \in 0 .. 1 : Shows(d, n, l, w, r)
  BY SettledPins
<1> DEFINE port == Pins(n, v, 0, w, r)
           changed == [d EXCEPT !.dataport = port]
           new == pcf8574_setoutput(changed, port)
<1>2. v \in 0 .. 1 /\ 0 \in 0 .. 1
  OBVIOUS
<1>3. port \in Byte /\ Bit(port, LCD_E_PIN) = 0 /\ Light(port) = v
  BY <1>2, PinsRead DEF Light
<1>4. WithPin(d.dataport, LCD_LED_PIN, v) = port
  BY <1>1, <1>2, PinsSet DEF Shows, Settled
<1> HIDE DEF port
<1>5. lcd_led(d, onoff) = new
  BY <1>4 DEF lcd_led
<1>6. changed \in InCall /\ changed.out = d.out /\ changed.pinstatus = d.pinstatus
      /\ changed.dataport = port
  BY <1>3 DEF Settled, InCall
<1> HIDE DEF changed
<1>7. Bit(changed.pinstatus, LCD_E_PIN) = 0 /\ Reaches(S, changed, K, R)
      /\ Relights(K, L, Light(changed.pinstatus), Light(port), R)
  BY <1>3, <1>6 DEF Settled, Reaches
<1>8. \A k \in K : k \in Controller => Driven(k, changed.pinstatus, port) \subseteq L
  BY <1>7 DEF Driven, Rests
<1>9. Reaches(S, new, L, R)
  BY <1>3, <1>6, <1>7, <1>8, OutputReaches
<1>10. new \in InCall /\ new.pinstatus = port /\ new.dataport = port
  <2>1. new \in InCall
    BY <1>3, <1>6, SetOutput, SentInCall
  <2> QED
    BY <1>6, <2>1 DEF InCall, pcf8574_setoutput
<1> HIDE DEF new
<1>11. new \in Settled /\ Light(new.pinstatus) = v
  BY <1>3, <1>10 DEF Settled
<1> QED
  BY <1>5, <1>9, <1>11

----------------------------------------------------------------------------
(* In the mode of lcd_init: any request that keeps it, however long        *)
(* clearing takes.                                                         *)
InReady == {step \in Point \X Point : step[2].display \in Ready}

LEMMA ReadyFamily ==
  /\ Family(Always(Ready)) /\ Calm(Always(Ready), InReady)
  /\ MovesOn(Always(Ready), Always(Ready), InReady)
  /\ \A j \in Int : Half(Always(Ready), NoHalf)[j] = Whole(Ready)
  /\ \A u, v : Relights(Whole(Ready), Whole(Ready), u, v, InReady)
<1>1. \A u, v : /\ Relights(Ready, Ready, u, v, InReady)
                /\ Relights(Whole(Ready), Whole(Ready), u, v, InReady)
  BY DEF Relights, InReady, Whole
<1>2. \A j \in Int : Always(Ready)[j] = Ready /\ Always(Ready)[j - 1] = Ready
  BY DEF Always
<1>3. Moves(Ready, Ready, InReady)
  BY <1>1 DEF Moves
<1> QED
  BY <1>1, <1>2, <1>3, Rested, Modes, WholeHalf DEF Family, Calm, MovesOn

LEMMA ReadyConfigures == Configures(TwoLines, Always(Ready), Always(Ready))
<1>1. Family(Always(TwoLines))
  <2>1. \A j \in Int : Always(TwoLines)[j] = TwoLines /\ Always(TwoLines)[j - 1] = TwoLines
    BY DEF Always
  <2> QED
    BY <2>1, Modes, Rested DEF Family
<1>2. LCD_MODE_DEFAULT \in InMode /\ LCD_DISP_ON_BLINK \in InMode
  BY DEF LCD_MODE_DEFAULT, LCD_DISP_ON_BLINK, InMode, Byte
<1>3. /\ Follows(Always(Ready), 0, LCD_MODE_DEFAULT, Always(Ready))
      /\ Follows(Always(Ready), 0, LCD_DISP_ON_BLINK, Always(Ready))
  BY <1>2, ReadyFamily, ReadyExecutes DEF Follows
<1> QED
  BY <1>1, <1>3, ReadyFamily, InitExecutes DEF Configures

InStep(S, d) == d \in Settled /\ Reaches(S, d, Whole(Ready), InReady)

LEMMA WholeRests == \A K : Rests(K, K) /\ K \subseteq Controller => Rests(Whole(K), Whole(K))
BY RestedFields DEF Rests, Whole

LEMMA ReadyCall ==
  ASSUME CommandsInMode, NEW S, NEW d, InStep(S, d), NEW r \in Request
  PROVE  InStep(S, Call(d, r))
<1> DEFINE F == Always(Ready)
<1>1. /\ Mode(F) /\ Calm(F, InReady) /\ MovesOn(F, F, InReady)
      /\ \A j \in Int : Half(F, NoHalf)[j] = Whole(Ready)
  BY ReadyFamily DEF Family
<1> HIDE DEF F
<1>2. 17 \in Int /\ 17 - 10 \in Int
  OBVIOUS
<1>3. d \in Settled /\ Reaches(S, d, Half(F, NoHalf)[17], InReady)
  BY <1>1, <1>2 DEF InStep
<1>4. CASE Writes(r)
  <2>1. /\ Register(r) \in 0 .. 1 /\ Written(r) \in Byte
        /\ Register(r) = 0 => Written(r) \in InMode
    BY <1>4, WrittenInMode
  <2>2. Executes(Whole(Ready), Register(r), Written(r), Whole(Ready))
    BY <2>1, ReadyExecutes
  <2>3. Follows(F, Register(r), Written(r), F)
    BY <1>1, <2>2 DEF Follows
  <2>4. Leaves(S, d, Call(d, r), F, InReady)
    BY <1>1, <1>3, <1>4, <2>1, <2>3, CallReaches
  <2> QED
    BY <1>1, <1>2, <2>4 DEF Leaves, InStep
<1>5. CASE r.op = "lcd_led"
  <2> DEFINE v == IF r.onoff # 0 THEN 0 ELSE 1
  <2>1. Rests(Whole(Ready), Whole(Ready))
    BY Rested, WholeRests DEF Ready
  <2>2. Relights(Whole(Ready), Whole(Ready), Light(d.pinstatus), v, InReady)
    BY ReadyFamily
  <2>3. d \in Settled /\ Reaches(S, d, Whole(Ready), InReady)
    BY DEF InStep
  <2>4. LET new == lcd_led(d, r.onoff)
        IN  new \in Settled /\ Reaches(S, new, Whole(Ready), InReady) /\ Light(new.pinstatus) = v
    BY <2>1, <2>2, <2>3, LedReaches
  <2>5. Call(d, r) = lcd_led(d, r.onoff)
    BY <1>5 DEF Call
  <2> QED
    BY <2>4, <2>5 DEF InStep
<1>6. CASE r.op = "lcd_getxy"
  <2>1. LET new == lcd_waitbusy(d)
        IN  new \in Settled /\ Reaches(S, new, Half(F, NoHalf)[17 - 10], InReady)
    BY <1>1, <1>2, <1>3, WaitReaches
  <2>2. Call(d, r) = lcd_waitbusy(d)
    BY <1>6 DEF Call
  <2> QED
    BY <1>1, <1>2, <2>1, <2>2 DEF InStep
<1> QED
  BY <1>4, <1>5, <1>6 DEF Writes

----------------------------------------------------------------------------
(* The invariant: dataport is what is cached, and what remains on the bus  *)
(* leads to the mode of lcd_init with no half pending; from the end of     *)
(* lcd_init on, through that mode only.                                    *)
Here == [pins |-> pins, display |-> controller]

At(K) == {a \in Point : a.display \in K}

Ports == dataport = pinstatus /\ Bit(pinstatus, LCD_E_PIN) = 0

Steady ==
  /\ Ports
  /\ known = "soon" => Leads({Here}, bus, At(Whole(Ready)), Anything)
  /\ known = "yes" => controller \in Ready /\ Leads({Here}, bus, At(Whole(Ready)), InReady)

ModeInv == IInv /\ Steady

LEMMA HereType == TypeOK => Here \in Point /\ bus \in Seq(OnBus)
BY DEF TypeOK, Here, Point, OnBus

LEMMA LowE == Bit(0, LCD_E_PIN) = 0
<1>1. Pins(0, 0, 0, 0, 0) = 0
  BY DEF Pins
<1>2. Bit(Pins(0, 0, 0, 0, 0), LCD_E_PIN) = 0
  BY PinsRead
<1> QED
  BY <1>1, <1>2

LEMMA ReachesAt ==
  ASSUME NEW S, NEW d, NEW K, NEW R, Reaches(S, d, K, R)
  PROVE  Leads(S, d.out, At(K), R)
<1>1. On(d.pinstatus, K) \subseteq At(K)
  BY DEF On, At
<1> QED
  BY <1>1, LeadsWeaker DEF Reaches

(* Between calls the driver knows where the display is.                    *)
LEMMA DriverReaches ==
  ASSUME IInv, Ports, bus = <<>>, NEW K, known = "yes" => controller \in K,
         NEW S, S = (IF known = "yes" THEN {Here} ELSE {}), NEW R
  PROVE  Driver \in Settled /\ Reaches(S, Driver, K, R)
<1>1. /\ Driver \in InCall /\ Driver.out = <<>> /\ Here \in Point
      /\ Driver.pinstatus = pinstatus /\ Driver.dataport = dataport
  BY DriverType, HereType DEF IInv, Driver
<1>2. Driver \in Settled
  BY <1>1 DEF Settled, Ports
<1>3. S \subseteq On(pinstatus, K)
  <2>1. known = "yes" => pins = pinstatus
    BY DEF IInv, Cached
  <2>2. known = "yes" => Here \in On(pinstatus, K)
    BY <1>1, <2>1 DEF On, Here
  <2> QED
    BY <2>2
<1>4. Leads(S, <<>>, S, R)
  BY LeadsStill
<1>5. Leads(S, <<>>, On(pinstatus, K), R)
  BY <1>3, <1>4, LeadsWeaker
<1> QED
  BY <1>1, <1>2, <1>5 DEF Reaches

LEMMA InitialiseReaches ==
  ASSUME IInv, Ports, Initialise, NEW K, NEW F, NEW G, Configures(K, F, G)
  PROVE  /\ Ports' /\ known' = "soon" /\ Here' = Here
         /\ Leads({Here}, bus', {a \in At(Half(G, NoHalf)[17]) : Light(a.pins) = 0}, Anything)
<1> DEFINE d == lcd_init(Driver)
           L == Half(G, NoHalf)[17]
<1>1. /\ Calls(d) /\ known' = "soon"
      /\ Driver \in InCall /\ Driver.out = <<>> /\ Here \in Point
  BY DriverType, HereType DEF Initialise, IInv, Driver
<1>2. d \in Settled /\ Reaches({Here}, d, L, Anything) /\ Light(d.pinstatus) = 0
  BY <1>1, InitReaches
<1> HIDE DEF d, L
<1>3. dataport' = d.dataport /\ pinstatus' = d.pinstatus /\ bus' = d.out /\ Here' = Here
  BY <1>1 DEF Calls, Here
<1>4. On(d.pinstatus, L) \subseteq {a \in At(L) : Light(a.pins) = 0}
  BY <1>2 DEF On, At
<1>5. Leads({Here}, d.out, {a \in At(L) : Light(a.pins) = 0}, Anything)
  BY <1>2, <1>4, LeadsWeaker DEF Reaches
<1> QED
  BY <1>1, <1>2, <1>3, <1>5 DEF Ports, Settled, L

(* A byte is sent, or the display has time.  When lcd_init is over what    *)
(* was to be reached has been.                                             *)
Sends ==
  /\ bus # <<>> /\ bus' = Tail(bus) /\ UNCHANGED <<dataport, pinstatus>>
  /\ Steps(Here, Head(bus), Here')
  /\ \/ known' = known
     \/ known = "soon" /\ known' = "yes" /\ bus' = <<>>

LEMMA TransmitSends ==
  ASSUME IInv, Transmit
  PROVE  Sends /\ (Ends <=> bus' = <<>>)
<1>1. /\ bus # <<>> /\ Head(bus) # LongDelay
      /\ bus' = Tail(bus) /\ pins' = Head(bus)
      /\ controller' \in Driven(controller, pins, Head(bus))
      /\ known' = IF Ends /\ known = "soon" THEN "yes" ELSE known
      /\ UNCHANGED <<dataport, pinstatus>>
  BY DEF Transmit, driverVars
<1>2. Steps(Here, Head(bus), Here')
  BY <1>1 DEF Steps, Here
<1>3. Ends <=> Tail(bus) = <<>>
  <2> DEFINE rest == Tail(bus)
  <2>1. bus \in Seq(OnBus) /\ rest \in Seq(OnBus)
    BY <1>1, HereType, BusStep DEF IInv, OnBus
  <2>2. Len(rest) = Len(bus) - 1 /\ Len(bus) \in Nat
    BY <1>1, <2>1
  <2> HIDE DEF rest
  <2>3. rest = <<>> <=> Len(rest) = 0
    BY <2>1
  <2>4. Len(bus) = 1 <=> rest = <<>>
    BY <2>2, <2>3
  <2> QED
    BY <2>4 DEF rest, Ends
<1> QED
  BY <1>1, <1>2, <1>3 DEF Sends

LEMMA DelaySends ==
  ASSUME IInv, Delay
  PROVE  Sends /\ known' = known
<1>1. /\ bus # <<>> /\ Head(bus) = LongDelay /\ bus' = Tail(bus)
      /\ controller' = [controller EXCEPT !.busy = 0]
      /\ UNCHANGED <<dataport, pinstatus, pins, known>>
  BY DEF Delay, driverVars
<1>2. Steps(Here, Head(bus), Here')
  BY <1>1 DEF Steps, Here
<1> QED
  BY <1>1, <1>2 DEF Sends

LEMMA SendLeads ==
  ASSUME IInv, IInv', Sends, NEW T, NEW R, Leads({Here}, bus, T, R)
  PROVE  /\ <<Here, Here'>> \in R /\ Leads({Here'}, bus', T, R)
         /\ bus' = <<>> => Here' \in T
<1> DEFINE z == Here'
<1>1. bus \in Seq(OnBus) /\ bus # <<>> /\ Here \in Point /\ z \in Point /\ bus' = Tail(bus)
      /\ Steps(Here, Head(bus), z)
  <2>1. z \in Point
    BY DEF IInv, TypeOK, Here, Point
  <2> QED
    BY <2>1, HereType DEF IInv, Sends
<1> HIDE DEF z
<1>2. <<Here, z>> \in R /\ Leads({z}, Tail(bus), T, R)
  BY <1>1, LeadsOn
<1>3. Tail(bus) = <<>> => z \in T
  <2> SUFFICES ASSUME Tail(bus) = <<>> PROVE z \in T
    OBVIOUS
  <2>1. Leads({z}, <<>>, T, R) /\ z \in {z} /\ z \in Point
    BY <1>1, <1>2
  <2> QED
    BY <2>1, LeadsNowhere
<1> QED
  BY <1>1, <1>2, <1>3 DEF z

LEMMA StartMode == (Init => ModeInv) /\ (Restart => Steady')
<1>1. Init => ModeInv
  BY InitIInv, LowE DEF Init, ModeInv, Steady, Ports
<1>2. Restart => Steady'
  BY LowE DEF Restart, Steady, Ports
<1> QED
  BY <1>1, <1>2

LEMMA InitialiseMode ==
  ASSUME ModeInv, Initialise
  PROVE  Steady'
<1> DEFINE F == Always(Ready)
           T == {a \in At(Half(F, NoHalf)[17]) : Light(a.pins) = 0}
<1>1. Ports' /\ known' = "soon" /\ Here' = Here /\ Leads({Here}, bus', T, Anything)
  BY ReadyConfigures, InitialiseReaches DEF ModeInv, Steady
<1>2. T \subseteq At(Whole(Ready))
  <2>1. Half(F, NoHalf)[17] = Whole(Ready)
    BY ReadyFamily
  <2> QED
    BY <2>1
<1> HIDE DEF T
<1>3. Leads({Here}, bus', At(Whole(Ready)), Anything)
  BY <1>1, <1>2, LeadsWeaker
<1>4. Leads({Here'}, bus', At(Whole(Ready)), Anything)
  BY <1>1, <1>3
<1> QED
  BY <1>1, <1>4 DEF Steady, At

LEMMA AskMode ==
  ASSUME CommandsInMode, ModeInv, NEW r \in Request, Ask(r)
  PROVE  Steady'
<1> DEFINE d == Call(Driver, r)
           S == IF known = "yes" THEN {Here} ELSE {}
<1>1. Calls(d) /\ known' = known /\ known # "soon" /\ bus = <<>> /\ IInv /\ Ports
  BY DEF Ask, Calls, ModeInv, Steady
<1>2. known = "yes" => controller \in Whole(Ready)
  <2> SUFFICES ASSUME known = "yes" PROVE controller \in Whole(Ready)
    OBVIOUS
  <2>1. Leads({Here}, <<>>, At(Whole(Ready)), InReady) /\ Here \in Point /\ Here \in {Here}
    BY <1>1, HereType DEF ModeInv, Steady, IInv
  <2>2. Here \in At(Whole(Ready))
    BY <2>1, LeadsNowhere
  <2> QED
    BY <2>2 DEF Here, At
<1>3. Driver \in Settled /\ Reaches(S, Driver, Whole(Ready), InReady)
  BY <1>1, <1>2, DriverReaches
<1>4. d \in Settled /\ Reaches(S, d, Whole(Ready), InReady)
  BY <1>3, ReadyCall DEF InStep
<1>5. Leads(S, d.out, At(Whole(Ready)), InReady)
  BY <1>4, ReachesAt
<1> HIDE DEF d
<1>6. /\ dataport' = d.dataport /\ pinstatus' = d.pinstatus /\ bus' = d.out
      /\ Here' = Here /\ controller' = controller
  BY <1>1 DEF Calls, Here
<1>7. Ports'
  BY <1>4, <1>6 DEF Ports, Settled
<1>8. known = "yes" => controller' \in Ready /\ Leads({Here'}, bus', At(Whole(Ready)), InReady)
  BY <1>2, <1>5, <1>6 DEF Whole
<1> QED
  BY <1>1, <1>7, <1>8 DEF Steady, At

LEMMA SendMode ==
  ASSUME ModeInv, IInv', Sends
  PROVE  Steady'
<1>1. Ports'
  BY DEF ModeInv, Steady, Ports, Sends
<1>2. CASE known' = known /\ known = "soon"
  <2>1. Leads({Here'}, bus', At(Whole(Ready)), Anything)
    BY <1>2, SendLeads DEF ModeInv, Steady
  <2> QED
    BY <1>1, <1>2, <2>1 DEF Steady, At
<1>3. CASE known' = known /\ known = "yes"
  <2>1. <<Here, Here'>> \in InReady /\ Leads({Here'}, bus', At(Whole(Ready)), InReady)
    BY <1>3, SendLeads DEF ModeInv, Steady
  <2>2. controller' \in Ready
    BY <2>1 DEF InReady, Here
  <2> QED
    BY <1>1, <1>3, <2>1, <2>2 DEF Steady, At
<1>4. CASE known = "soon" /\ known' = "yes" /\ bus' = <<>>
  <2> DEFINE z == Here'
             T == At(Whole(Ready))
  <2>1. z \in T
    BY <1>4, SendLeads DEF ModeInv, Steady
  <2>2. z.display \in Ready /\ z.display = controller'
    BY <2>1 DEF At, Whole, Here
  <2> HIDE DEF z, T
  <2>3. {z} \subseteq T
    BY <2>1
  <2>4. Leads({z}, <<>>, {z}, InReady)
    BY LeadsStill
  <2>5. Leads({z}, <<>>, T, InReady)
    BY <2>3, <2>4, LeadsWeaker
  <2> QED
    BY <1>1, <1>4, <2>2, <2>5 DEF Steady, At, T, z
<1>5. CASE known' = known /\ known \notin {"yes", "soon"}
  BY <1>1, <1>5 DEF Steady
<1> QED
  BY <1>2, <1>3, <1>4, <1>5 DEF Sends

LEMMA NextMode ==
  ASSUME CommandsInMode
  PROVE  ModeInv /\ [Next]_vars => ModeInv'
<1> SUFFICES ASSUME ModeInv, [Next]_vars PROVE ModeInv'
  OBVIOUS
<1>1. IInv' /\ IInv
  BY NextIInv DEF ModeInv
<1>2. CASE UNCHANGED vars
  <2>1. UNCHANGED <<dataport, pinstatus, bus, known, controller>> /\ Here' = Here
    BY <1>2 DEF vars, driverVars, Here
  <2> QED
    BY <1>1, <2>1 DEF ModeInv, Steady, At, Ports
<1>3. CASE Initialise
  BY <1>1, <1>3, InitialiseMode DEF ModeInv
<1>4. CASE \E r \in Request : Ask(r)
  BY <1>1, <1>4, AskMode DEF ModeInv
<1>5. CASE Transmit
  BY <1>1, <1>5, TransmitSends, SendMode DEF ModeInv
<1>6. CASE Miss
  BY <1>1, <1>6 DEF Miss, driverVars, ModeInv, Steady, Ports
<1>7. CASE Delay
  BY <1>1, <1>7, DelaySends, SendMode DEF ModeInv
<1>8. CASE Restart
  BY <1>1, <1>8, StartMode DEF ModeInv
<1> QED
  BY <1>2, <1>3, <1>4, <1>5, <1>6, <1>7, <1>8 DEF Next

(* In whatever state and half way through whatever byte lcd_init finds the *)
(* display, it brings it to the mode of 4 bits with two lines, in step     *)
(* with the driver, and no call takes it out of that again: for every      *)
(* request, every time that clearing takes and whatever undriven pins      *)
(* read, unless lcd_command is asked to change the mode.                   *)
THEOREM StaysInStep ==
  ASSUME CommandsInMode
  PROVE  Spec => []InStepOnceInitialised
<1>1. ModeInv => InStepOnceInitialised
  <2> SUFFICES ASSUME ModeInv, known = "yes"
               PROVE  controller \in Ready /\ (bus = <<>> => controller.half = NoHalf)
    BY DEF InStepOnceInitialised, Ready
  <2>1. /\ controller \in Ready /\ Leads({Here}, bus, At(Whole(Ready)), InReady)
        /\ Here \in Point /\ Here \in {Here}
    BY HereType DEF ModeInv, Steady, IInv
  <2>2. bus = <<>> => Here \in At(Whole(Ready))
    <3> SUFFICES ASSUME bus = <<>> PROVE Here \in At(Whole(Ready))
      OBVIOUS
    <3>1. Leads({Here}, <<>>, At(Whole(Ready)), InReady)
      BY <2>1
    <3> QED
      BY <2>1, <3>1, LeadsNowhere
  <2> QED
    BY <2>1, <2>2 DEF Here, At, Whole
<1>2. ModeInv /\ [Next]_vars => ModeInv'
  BY NextMode
<1> QED
  BY StartMode, <1>1, <1>2, PTL DEF Spec

----------------------------------------------------------------------------
(* What the display shows at a point.  On the way from s0 to s1 it shows   *)
(* one or the other, and having shown s1 goes on to.                       *)
Face(a) ==
  [cells |-> a.display.cells, cursor |-> a.display.cursor, on |-> a.display.on,
   light |-> Light(a.pins) = 1]

Changes(s0, s1) ==
  {step \in Point \X Point :
     Face(step[1]) \in {s0, s1} => Face(step[2]) \in {Face(step[1]), s1}}

LEMMA FaceIs ==
  ASSUME NEW a \in Point, NEW s \in Screen
  PROVE  /\ Face(a) \in Screen
         /\ Face(a) = s <=> SameText(a.display, s) /\ (s.light <=> Light(a.pins) = 1)
<1> DEFINE k == a.display
           lit == Light(a.pins) = 1
           f == Face(a)
<1>1. k.cells \in [Address -> Byte] /\ k.cursor \in Address /\ k.on \in BOOLEAN
  BY DEF Point, Controller
<1>2. f = [cells |-> k.cells, cursor |-> k.cursor, on |-> k.on, light |-> lit]
  BY DEF Face
<1>3. lit \in BOOLEAN
  OBVIOUS
<1>4. s = [cells |-> s.cells, cursor |-> s.cursor, on |-> s.on, light |-> s.light]
      /\ s.light \in BOOLEAN
  BY DEF Screen
<1> HIDE DEF lit, k, f
<1>5. f \in Screen
  BY <1>1, <1>2, <1>3 DEF Screen
<1>6. f.cells = k.cells /\ f.cursor = k.cursor /\ f.on = k.on /\ f.light = lit
  BY <1>2
<1>7. f = s => SameText(k, s) /\ s.light = lit
  BY <1>6 DEF SameText
<1>8. SameText(k, s) /\ s.light = lit => f = s
  BY <1>2, <1>4 DEF SameText
<1>9. s.light = lit <=> (s.light <=> lit)
  BY <1>3, <1>4, Zenon
<1> QED
  BY <1>5, <1>7, <1>8, <1>9 DEF f, k, lit

LEMMA SameFace ==
  ASSUME NEW a \in Point, NEW z \in Point, SameText(z.display, a.display),
         Light(z.pins) = Light(a.pins)
  PROVE  Face(z) = Face(a)
BY DEF Face, SameText

(* Requests but lcd_led leave the light as it is.                          *)
LEMMA ChangesMoves ==
  ASSUME NEW s0 \in Screen, NEW s1 \in Screen, s0.light = s1.light
  PROVE  LET R == Changes(s0, s1)
         IN  /\ Calm(Still(s0), R) /\ Calm(Still(s1), R)
             /\ MovesOn(Still(s0), Still(s1), R)
<1> DEFINE R == Changes(s0, s1)
<1>1. ASSUME NEW s, NEW i \in Int, NEW j \in Int
      PROVE  Moves(Showing(s, i), Showing(s, j), R)
  <2> SUFFICES ASSUME NEW a \in Point, NEW z \in Point, Light(z.pins) = Light(a.pins),
                      a.display \in Showing(s, i), z.display \in Showing(s, j)
               PROVE  <<a, z>> \in R
    BY DEF Moves, Relights
  <2>1. SameText(z.display, a.display)
    BY DEF Showing, SameText
  <2>2. Face(z) = Face(a)
    BY <2>1, SameFace
  <2> QED
    BY <2>2 DEF Changes
<1>2. ASSUME NEW i \in Int, NEW j \in Int
      PROVE  Moves(Showing(s0, i), Showing(s1, j), R)
  <2> SUFFICES ASSUME NEW a \in Point, NEW z \in Point, Light(z.pins) = Light(a.pins),
                      a.display \in Showing(s0, i), z.display \in Showing(s1, j),
                      Face(a) \in {s0, s1}
               PROVE  Face(z) = s1
    BY DEF Moves, Relights, Changes
  <2>1. SameText(z.display, s1)
    BY DEF Showing
  <2>2. s1.light <=> Light(a.pins) = 1
    <3>1. CASE Face(a) = s0
      BY <3>1, FaceIs
    <3>2. CASE Face(a) = s1
      BY <3>2, FaceIs
    <3> QED
      BY <3>1, <3>2
  <2>3. s1.light <=> Light(z.pins) = 1
    BY <2>2
  <2> QED
    BY <2>1, <2>3, FaceIs
<1>3. \A s, j : j \in Int => Still(s)[j] = Showing(s, j) /\ Still(s)[j - 1] = Showing(s, j - 1)
  BY DEF Still
<1> HIDE DEF R
<1>4. \A s : \A j \in Int : Rests(Still(s)[j], Still(s)[j - 1])
  BY StillFamily
<1>5. \A s : Calm(Still(s), R)
  <2> SUFFICES ASSUME NEW s, NEW j \in Int PROVE Moves(Still(s)[j], Still(s)[j - 1], R)
    BY <1>4 DEF Calm
  <2>1. j - 1 \in Int
    OBVIOUS
  <2> QED
    BY ZenonT(20), <1>1, <1>3, <2>1
<1>6. MovesOn(Still(s0), Still(s1), R)
  BY <1>2, <1>3 DEF MovesOn
<1> QED
  BY <1>5, <1>6 DEF R

(* lcd_led leaves the text.                                                *)
LEMMA ChangesLight ==
  ASSUME NEW s0 \in Screen, NEW v \in 0 .. 1, NEW s1, s1 = [s0 EXCEPT !.light = (v = 1)],
         NEW i \in Int, NEW j \in Int, NEW u
  PROVE  Relights(Half(Still(s0), NoHalf)[i], Half(Still(s1), NoHalf)[j], u, v, Changes(s0, s1))
<1>1. s1 \in Screen /\ s1.light = (v = 1)
  <2> DEFINE lit == v = 1
  <2>1. lit \in BOOLEAN /\ s1 = [s0 EXCEPT !.light = lit]
    OBVIOUS
  <2> HIDE DEF lit
  <2>2. s1 \in Screen /\ s1.light = lit
    BY <2>1 DEF Screen
  <2> QED
    BY <2>2 DEF lit
<1> SUFFICES ASSUME NEW a \in Point, NEW z \in Point, Light(z.pins) = v,
                    z.display \in Half(Still(s1), NoHalf)[j]
             PROVE  Face(z) = s1
  BY DEF Relights, Changes
<1>2. SameText(z.display, s1)
  BY DEF Half, Still, Showing
<1>3. s1.light <=> Light(z.pins) = 1
  BY <1>1
<1> QED
  BY <1>1, <1>2, <1>3, FaceIs

----------------------------------------------------------------------------
(* Where a call that ends with the screen s leaves the display.            *)
Ended(s) == {a \in Point : a.display \in Half(Still(s), NoHalf)[17] /\ Face(a) = s}

(* The invariant: the call in hand takes the screen from s0 to s1, which   *)
(* it has as soon as the request is done, and what remains on the bus of   *)
(* lcd_init leaves it blank.                                               *)
Turns(s0, s1) ==
  /\ Leads({Here}, bus, Ended(s1), Changes(s0, s1))
  /\ IF request = NoRequest THEN Shown = s1 ELSE Shown = s0 /\ s1 = Apply(request, s0)

ScreenInv ==
  /\ IInv /\ Ports
  /\ known # "yes" \/ bus = <<>> => request = NoRequest
  /\ known = "soon" => Leads({Here}, bus, Ended(BlankScreen), Anything)
  /\ known = "yes" => \E s0, s1 \in Screen : Turns(s0, s1)

LEMMA ShownFace == Shown = Face(Here)
BY DEF Shown, Face, Here, Light

LEMMA BlankIsScreen == BlankScreen \in Screen
BY DEF BlankScreen, Screen, Address, Blank, Byte, LCD_START_LINE1, LCD_START_LINE2, LineLength

LEMMA ApplyType ==
  ASSUME PlainRequests, NEW r \in Request, NEW s \in Screen
  PROVE  /\ Apply(r, s) \in Screen
         /\ r.op # "lcd_led" => Apply(r, s).light = s.light
<1>1. /\ s.cells \in [Address -> Byte] /\ s.cursor \in Address /\ s.on \in BOOLEAN
      /\ LCD_START_LINE1 \in Address /\ LCD_START_LINE2 \in Address /\ Blank \in Byte
  <2>1. s.cells \in [Address -> Byte] /\ s.cursor \in Address /\ s.on \in BOOLEAN
    BY DEF Screen
  <2>2. LCD_START_LINE1 \in Address /\ LCD_START_LINE2 \in Address
    BY DEF Address, LCD_START_LINE1, LCD_START_LINE2, LineLength
  <2>3. Blank \in Byte
    BY DEF Blank, Byte
  <2> QED
    BY <2>1, <2>2, <2>3
<1>2. \A a \in Address : MoveTo(s, a) \in Screen /\ MoveTo(s, a).light = s.light
  BY DEF MoveTo, Screen
<1>3. \A c \in Byte : Show(s, c) \in Screen /\ Show(s, c).light = s.light
  <2> SUFFICES ASSUME NEW c \in Byte PROVE Show(s, c) \in Screen /\ Show(s, c).light = s.light
    OBVIOUS
  <2> DEFINE next == NextAddress(s.cursor)
             cells == [s.cells EXCEPT ![s.cursor] = c]
  <2>1. next \in Address /\ cells \in [Address -> Byte]
    BY <1>1, NextAddressType
  <2>2. Show(s, c) = [s EXCEPT !.cells = cells, !.cursor = next]
    BY DEF Show
  <2> HIDE DEF next, cells
  <2> QED
    BY <2>1, <2>2 DEF Screen
<1>4. Clear(s) \in Screen /\ Clear(s).light = s.light
  <2> DEFINE empty == [a \in Address |-> Blank]
  <2>1. empty \in [Address -> Byte]
    BY <1>1
  <2>2. Clear(s) = [s EXCEPT !.cells = empty, !.cursor = LCD_START_LINE1]
    BY DEF Clear
  <2> HIDE DEF empty
  <2> QED
    BY <1>1, <2>1, <2>2 DEF Screen
<1>5. CASE r.op = "lcd_clrscr"
  BY <1>4, <1>5 DEF Apply
<1>6. CASE r.op = "lcd_home"
  BY <1>1, <1>2, <1>6 DEF Apply
<1>7. CASE r.op = "lcd_gotoxy"
  BY <1>2, <1>7 DEF Apply, PlainRequests
<1>8. CASE r.op \in {"lcd_putc", "lcd_data"}
  BY <1>1, <1>2, <1>3, <1>8, RequestAssumption DEF Apply
<1>9. CASE r.op = "lcd_led"
  <2> DEFINE lit == r.onoff = 0
  <2>1. Apply(r, s) = [s EXCEPT !.light = lit] /\ lit \in BOOLEAN
    BY <1>9 DEF Apply
  <2> HIDE DEF lit
  <2> QED
    BY <1>9, <2>1 DEF Screen
<1>10. CASE r.op = "lcd_command"
  <2> DEFINE on == r.cmd \in 12 .. 15
  <2>1. Apply(r, s) = [s EXCEPT !.on = on] /\ on \in BOOLEAN
    BY <1>10 DEF Apply
  <2> HIDE DEF on
  <2> QED
    BY <2>1 DEF Screen
<1>11. CASE r.op = "lcd_getxy"
  BY <1>11 DEF Apply
<1> QED
  BY <1>5, <1>6, <1>7, <1>8, <1>9, <1>10, <1>11, RequestAssumption

LEMMA EndedAt ==
  ASSUME NEW s \in Screen, NEW p, Light(p) = 1 <=> s.light
  PROVE  On(p, Half(Still(s), NoHalf)[17]) \subseteq Ended(s)
<1> SUFFICES ASSUME NEW a \in Point, a.pins = p, a.display \in Half(Still(s), NoHalf)[17]
             PROVE  Face(a) = s
  BY DEF On, Ended
<1>1. SameText(a.display, s)
  BY DEF Half, Still, Showing
<1> QED
  BY <1>1, FaceIs

(* A call with the request r, from where the last one left the display.    *)
LEMMA CallTurns ==
  ASSUME PlainRequests, QuickClear, NEW r \in Request, NEW s0 \in Screen, NEW s1, s1 = Apply(r, s0),
         NEW d \in Settled, NEW S, Light(d.pinstatus) = 1 <=> s0.light,
         Reaches(S, d, Half(Still(s0), NoHalf)[17], Changes(s0, s1))
  PROVE  Call(d, r) \in Settled /\ Leads(S, Call(d, r).out, Ended(s1), Changes(s0, s1))
<1> DEFINE R == Changes(s0, s1)
           new == Call(d, r)
<1>1. s1 \in Screen /\ (r.op # "lcd_led" => s1.light = s0.light)
  BY ApplyType
<1>2. ASSUME new \in Settled, Reaches(S, new, Half(Still(s1), NoHalf)[17], R),
             Light(new.pinstatus) = 1 <=> s1.light
      PROVE  Leads(S, new.out, Ended(s1), R)
  <2>1. On(new.pinstatus, Half(Still(s1), NoHalf)[17]) \subseteq Ended(s1)
    BY <1>1, <1>2, EndedAt
  <2> QED
    BY <1>2, <2>1, LeadsWeaker DEF Reaches
<1>3. CASE Writes(r)
  <2>1. Written(r) \in Byte
    BY <1>3, PlainInMode, WrittenInMode
  <2>2. Follows(Still(s0), Register(r), Written(r), Still(s1))
    BY <1>3, RequestExecutes DEF Follows
  <2>3. s0.light = s1.light
    BY <1>1, <1>3 DEF Writes
  <2>4. /\ Mode(Still(s0)) /\ Mode(Still(s1)) /\ Calm(Still(s0), R) /\ Calm(Still(s1), R)
        /\ MovesOn(Still(s0), Still(s1), R)
    BY <1>1, <2>3, StillFamily, ChangesMoves
  <2>5. Leaves(S, d, new, Still(s1), R)
    BY <1>3, <2>1, <2>2, <2>4, CallReaches
  <2> HIDE DEF new, R
  <2>6. Light(new.pinstatus) = 1 <=> s1.light
    BY <2>3, <2>5 DEF Leaves, SameLight
  <2> QED
    BY <1>2, <2>5, <2>6 DEF Leaves, new, R
<1>4. CASE r.op = "lcd_led"
  <2> DEFINE v == IF r.onoff # 0 THEN 0 ELSE 1
             lit == v = 1
             K == Half(Still(s0), NoHalf)[17]
             L == Half(Still(s1), NoHalf)[17]
  <2>1. s1 = [s0 EXCEPT !.light = lit] /\ v \in 0 .. 1
    <3>1. s1 = [s0 EXCEPT !.light = (r.onoff = 0)]
      BY <1>4 DEF Apply
    <3>2. (r.onoff = 0) = lit
      OBVIOUS
    <3> QED
      BY <3>1, <3>2
  <2>2. new = lcd_led(d, r.onoff)
    BY <1>4 DEF Call
  <2>3. SameText(s1, s0) /\ s1.light = lit
    <3>1. lit \in BOOLEAN
      OBVIOUS
    <3> HIDE DEF lit
    <3> QED
      BY <2>1, <3>1 DEF Screen, SameText
  <2>4. Relights(K, L, Light(d.pinstatus), v, R)
    BY <2>1, ChangesLight
  <2>5. Rests(K, L)
    <3>0. /\ K = {k \in Showing(s0, 17) : k.half = NoHalf}
          /\ L = {k \in Showing(s1, 17) : k.half = NoHalf}
      BY DEF Half, Still
    <3> HIDE DEF K, L
    <3> SUFFICES ASSUME NEW k \in Showing(s0, 17), k.half = NoHalf
                 PROVE  LET j == [k EXCEPT !.busy = IF k.busy = 0 THEN 0 ELSE k.busy - 1]
                        IN  j \in Showing(s1, 17) /\ j.half = NoHalf
      BY <3>0 DEF Rests
    <3> DEFINE j == [k EXCEPT !.busy = IF k.busy = 0 THEN 0 ELSE k.busy - 1]
    <3>1. 17 \in Int /\ j \in Showing(s0, 17 - 1) /\ k \in Controller
      BY ShowingRests DEF Showing, Ready
    <3>2. j.half = NoHalf
      BY <3>1 DEF Controller
    <3> HIDE DEF j
    <3>3. j \in Ready /\ SameText(j, s1) /\ j.busy \in Nat
      BY <2>3, <3>1, ClearTimeAssumption DEF Showing, SameText, Ready, Controller
    <3>4. j.busy = 0 \/ j.busy <= 17
      BY <3>1, <3>3 DEF Showing
    <3>5. j \in Showing(s1, 17)
      BY <3>3, <3>4 DEF Showing
    <3> QED
      BY <3>2, <3>5 DEF j
  <2> HIDE DEF K, L, R
  <2>6. LET put == lcd_led(d, r.onoff)
        IN  put \in Settled /\ Reaches(S, put, L, R) /\ Light(put.pinstatus) = v
    BY <2>4, <2>5, LedReaches DEF K, R
  <2> HIDE DEF new
  <2>7. new \in Settled /\ Reaches(S, new, L, R) /\ Light(new.pinstatus) = v
    BY <2>2, <2>6
  <2>8. Light(new.pinstatus) = 1 <=> s1.light
    BY <2>3, <2>7
  <2> QED
    BY <1>2, <2>7, <2>8 DEF new, L, R
<1>5. CASE r.op = "lcd_getxy"
  <2>1. s1 = s0 /\ s0.light = s1.light /\ new = lcd_waitbusy(d)
    BY <1>5 DEF Apply, Call
  <2>2. Mode(Still(s0)) /\ Calm(Still(s0), R) /\ 17 \in Int /\ 17 - 10 = 7
    BY <1>1, <2>1, StillFamily, ChangesMoves
  <2> HIDE DEF R
  <2>3. LET waited == lcd_waitbusy(d)
        IN  /\ waited \in Settled /\ Reaches(S, waited, Half(Still(s0), NoHalf)[17 - 10], R)
            /\ SameLight(d, waited)
    BY <2>2, WaitReaches DEF R
  <2>4. Half(Still(s0), NoHalf)[7] \subseteq Half(Still(s0), NoHalf)[17]
    BY ClearTimeAssumption DEF Half, Still, Showing, Ready, Controller
  <2> HIDE DEF new
  <2>5. new \in Settled /\ Reaches(S, new, Half(Still(s0), NoHalf)[7], R) /\ SameLight(d, new)
    BY <2>1, <2>2, <2>3
  <2>6. On(new.pinstatus, Half(Still(s0), NoHalf)[7]) \subseteq On(new.pinstatus, Half(Still(s0), NoHalf)[17])
    BY <2>4 DEF On
  <2>7. Reaches(S, new, Half(Still(s1), NoHalf)[17], R)
    BY <2>1, <2>5, <2>6, LeadsWeaker DEF Reaches
  <2>8. Light(new.pinstatus) = 1 <=> s1.light
    BY <2>1, <2>5 DEF SameLight
  <2> QED
    BY <1>2, <2>5, <2>7, <2>8 DEF new, R
<1> QED
  BY <1>2, <1>3, <1>4, <1>5 DEF Writes, Leaves

LEMMA BlankConfigures ==
  ASSUME QuickClear
  PROVE  Configures(Off, Still(Dark), Still(BlankScreen))
<1>1. Family(Always(Off))
  <2>1. \A j \in Int : Always(Off)[j] = Off /\ Always(Off)[j - 1] = Off
    BY DEF Always
  <2> QED
    BY <2>1, OffFamily DEF Family
<1>2. Family(Still(Dark)) /\ Family(Still(BlankScreen))
  BY StillFamily DEF Family
<1>3. /\ Follows(Still(Dark), 0, LCD_MODE_DEFAULT, Still(Dark))
      /\ Follows(Still(Dark), 0, LCD_DISP_ON_BLINK, Still(BlankScreen))
  BY DarkExecutes DEF Follows
<1> QED
  BY <1>1, <1>2, <1>3, OffExecutes DEF Configures

LEMMA InitialiseScreen ==
  ASSUME QuickClear, ScreenInv, IInv', Initialise
  PROVE  ScreenInv'
<1> DEFINE L == Half(Still(BlankScreen), NoHalf)[17]
           T == {a \in At(L) : Light(a.pins) = 0}
<1>1. Ports' /\ known' = "soon" /\ Here' = Here /\ Leads({Here}, bus', T, Anything)
  BY BlankConfigures, InitialiseReaches DEF ScreenInv
<1>2. request' = NoRequest
  BY DEF Initialise, Calls, ScreenInv
<1>3. T \subseteq Ended(BlankScreen)
  <2> SUFFICES ASSUME NEW a \in Point, a.display \in L, Light(a.pins) = 0
               PROVE  Face(a) = BlankScreen
    BY DEF Ended, At
  <2>1. SameText(a.display, BlankScreen)
    BY DEF Half, Still, Showing
  <2>2. BlankScreen.light <=> Light(a.pins) = 1
    BY DEF BlankScreen
  <2> QED
    BY <2>1, <2>2, BlankIsScreen, FaceIs
<1> HIDE DEF T
<1>4. Leads({Here}, bus', Ended(BlankScreen), Anything)
  BY <1>1, <1>3, LeadsWeaker
<1>5. Leads({Here'}, bus', Ended(BlankScreen), Anything)
  BY <1>1, <1>4
<1> QED
  BY <1>1, <1>2, <1>5 DEF ScreenInv, Ended, Point

(* Between calls the display shows the screen that the last one ended with. *)
LEMMA RestsEnded ==
  ASSUME ScreenInv, known = "yes", bus = <<>>
  PROVE  Shown \in Screen /\ Here \in Ended(Shown)
<1>1. PICK s, t \in Screen : Turns(s, t)
  BY DEF ScreenInv
<1>2. Leads({Here}, <<>>, Ended(t), Changes(s, t)) /\ Here \in {Here} /\ Shown = t /\ Here \in Point
  BY <1>1, HereType DEF Turns, ScreenInv, IInv
<1>3. Here \in Ended(t)
  BY <1>2, LeadsNowhere
<1> QED
  BY <1>2, <1>3

LEMMA AskKnown ==
  ASSUME PlainRequests, QuickClear, NoRequest \notin Request,
         ScreenInv, NEW r \in Request, Ask(r), known = "yes",
         NEW CONSTANT s0 \in Screen, s0 = Shown, NEW CONSTANT s1 \in Screen, s1 = Apply(r, s0)
  PROVE  Ports' /\ Turns(s0, s1)'
<1> DEFINE d == Call(Driver, r)
           S == IF known = "yes" THEN {Here} ELSE {}
           K == Half(Still(s0), NoHalf)[17]
           R == Changes(s0, s1)
<1>1. /\ Calls(d) /\ known' = known /\ bus = <<>> /\ IInv /\ Ports /\ request' = r
  BY DEF Ask, Calls, ScreenInv
<1>2. /\ dataport' = d.dataport /\ pinstatus' = d.pinstatus /\ bus' = d.out
      /\ Here' = Here /\ Shown' = Shown
  BY <1>1 DEF Calls, Here, Shown
<1>3. Here \in Ended(s0) /\ Here \in Point /\ s0 = Face(Here)
  BY <1>1, RestsEnded, HereType, ShownFace DEF IInv
<1>4. controller \in K /\ (Light(pins) = 1 <=> s0.light)
  <2>1. Here.display \in K
    BY <1>3 DEF Ended
  <2>2. s0.light <=> Light(Here.pins) = 1
    BY <1>3, FaceIs
  <2> QED
    BY <2>1, <2>2 DEF Here
<1> HIDE DEF K, R, d
<1>5. Driver \in Settled /\ Reaches(S, Driver, K, R)
  BY <1>1, <1>4, DriverReaches
<1>6. Light(Driver.pinstatus) = 1 <=> s0.light
  <2>1. pins = pinstatus
    BY <1>1 DEF IInv, Cached
  <2> QED
    BY <1>4, <2>1 DEF Driver
<1>7. d \in Settled /\ Leads(S, d.out, Ended(s1), R)
  BY <1>5, <1>6, CallTurns DEF K, R, d
<1>8. Ports'
  BY <1>2, <1>7 DEF Ports, Settled
<1>9. Leads({Here'}, bus', Ended(s1), Changes(s0, s1))
  BY <1>2, <1>7 DEF R
<1>10. request' # NoRequest /\ Shown' = s0 /\ s1 = Apply(request', s0)
  BY <1>1, <1>2
<1> QED
  BY <1>8, <1>9, <1>10 DEF Turns, Ended, Changes

LEMMA AskScreen ==
  ASSUME PlainRequests, QuickClear, NoRequest \notin Request,
         ScreenInv, IInv', NEW r \in Request, Ask(r)
  PROVE  ScreenInv'
<1> DEFINE d == Call(Driver, r)
<1>1. /\ Calls(d) /\ known' = known /\ known # "soon" /\ bus = <<>> /\ IInv /\ Ports
      /\ known # "yes" => request' = NoRequest
  BY DEF Ask, Calls, ScreenInv
<1>2. dataport' = d.dataport /\ pinstatus' = d.pinstatus /\ bus' = d.out
  BY <1>1 DEF Calls
<1>3. d \in Sent /\ bus' # <<>>
  <2>1. d \in Sent
    BY <1>1, DriverType, CallType DEF IInv
  <2> HIDE DEF d
  <2> QED
    BY <1>2, <2>1 DEF Sent, EndsWithPins
<1>4. CASE known # "yes"
  <2>1. CommandsInMode /\ Driver \in Settled /\ Reaches({}, Driver, Whole(Ready), InReady)
    BY <1>1, <1>4, PlainInMode, DriverReaches
  <2>2. d \in Settled
    BY <2>1, ReadyCall DEF InStep
  <2> HIDE DEF d
  <2>3. Ports'
    BY <1>2, <2>2 DEF Ports, Settled
  <2> QED
    BY <1>1, <1>4, <2>3 DEF ScreenInv
<1>5. CASE known = "yes"
  <2>1. PICK s0 \in Screen : s0 = Shown
    BY <1>1, <1>5, RestsEnded
  <2>2. PICK s1 \in Screen : s1 = Apply(r, s0)
    BY ApplyType
  <2>3. Ports' /\ Turns(s0, s1)'
    BY <1>5, <2>1, <2>2, AskKnown
  <2> QED
    BY <1>1, <1>3, <1>5, <2>3 DEF ScreenInv
<1> QED
  BY <1>4, <1>5

(* A byte of a call shows nothing new or, once, what the request asks for. *)
LEMMA TransmitTurns ==
  ASSUME ScreenInv, IInv', Transmit, known = "yes",
         NEW CONSTANT s0 \in Screen, NEW CONSTANT s1 \in Screen, Turns(s0, s1)
  PROVE  /\ Turns(s0, s1)'
         /\ bus' = <<>> => request' = NoRequest
         /\ \/ request # NoRequest /\ request' = NoRequest /\ Shown' = Apply(request, Shown)
            \/ UNCHANGED <<Shown, request>>
<1> DEFINE z == Here'
           R == Changes(s0, s1)
           T == Ended(s1)
<1>1. Sends /\ (Ends <=> bus' = <<>>)
      /\ request' = IF Ends \/ Shown' # Shown THEN NoRequest ELSE request
  BY TransmitSends DEF ScreenInv, Transmit
<1>2. /\ <<Here, z>> \in R /\ Leads({z}, bus', T, R)
      /\ bus' = <<>> => z \in T
  BY <1>1, SendLeads DEF ScreenInv, Turns
<1>3. Shown = Face(Here) /\ Shown' = Face(z)
  BY DEF Shown, Face, Here, Light
<1> HIDE DEF z
<1>4. Shown \in {s0, s1} => Shown' \in {Shown, s1}
  BY <1>2, <1>3 DEF Changes
<1>5. bus' = <<>> => Shown' = s1
  BY <1>2, <1>3 DEF Ended
<1>6. IF request = NoRequest THEN Shown = s1 ELSE Shown = s0 /\ s1 = Apply(request, s0)
  BY DEF Turns
<1> HIDE DEF T, R
<1>7. IF request' = NoRequest THEN Shown' = s1 ELSE Shown' = s0 /\ s1 = Apply(request', s0)
  BY <1>1, <1>4, <1>5, <1>6
<1>8. Turns(s0, s1)'
  BY <1>2, <1>7 DEF Turns, T, R, z, Ended, Changes
<1> QED
  BY <1>1, <1>4, <1>5, <1>6, <1>8

(* With its last byte lcd_init has left a blank screen.                    *)
LEMMA TransmitStarts ==
  ASSUME ScreenInv, IInv', Transmit, known = "soon", bus' = <<>>
  PROVE  /\ known' = "yes" /\ request = NoRequest /\ request' = NoRequest
         /\ Shown' = BlankScreen /\ Turns(BlankScreen, BlankScreen)'
<1> DEFINE z == Here'
           T == Ended(BlankScreen)
           R == Changes(BlankScreen, BlankScreen)
<1>1. /\ Sends /\ (Ends <=> bus' = <<>>) /\ request = NoRequest
      /\ request' = IF Ends \/ Shown' # Shown THEN NoRequest ELSE request
      /\ known' = IF Ends /\ known = "soon" THEN "yes" ELSE known
  BY TransmitSends DEF ScreenInv, Transmit
<1>2. z \in T
  BY <1>1, SendLeads DEF ScreenInv
<1>3. Shown' = Face(z)
  BY DEF Shown, Face, Here, Light
<1> HIDE DEF z
<1>4. Shown' = BlankScreen
  BY <1>2, <1>3 DEF Ended
<1>5. {z} \subseteq T
  BY <1>2
<1> HIDE DEF T, R
<1>6. Leads({z}, <<>>, {z}, R)
  BY LeadsStill
<1>7. Leads({z}, <<>>, T, R)
  BY <1>5, <1>6, LeadsWeaker
<1>8. request' = NoRequest
  BY <1>1
<1>9. Turns(BlankScreen, BlankScreen)'
  BY <1>4, <1>7, <1>8 DEF Turns, T, R, z, Ended, Changes
<1> QED
  BY <1>1, <1>4, <1>8, <1>9

LEMMA TransmitScreen ==
  ASSUME ScreenInv, IInv', Transmit
  PROVE  ScreenInv'
<1>1. /\ Sends /\ (Ends <=> bus' = <<>>) /\ IInv /\ Ports
      /\ known' = IF Ends /\ known = "soon" THEN "yes" ELSE known
      /\ known # "yes" => request' = NoRequest
  BY TransmitSends DEF ScreenInv, Transmit
<1>2. Ports'
  BY <1>1 DEF Sends, Ports
<1>3. CASE known = "yes"
  <2>1. PICK s0, s1 \in Screen : Turns(s0, s1)
    BY <1>3 DEF ScreenInv
  <2>2. Turns(s0, s1)' /\ (bus' = <<>> => request' = NoRequest)
    BY <1>3, <2>1, TransmitTurns
  <2> QED
    BY <1>1, <1>2, <1>3, <2>2 DEF ScreenInv
<1>4. CASE known = "soon" /\ bus' = <<>>
  <2>1. known' = "yes" /\ request' = NoRequest /\ Turns(BlankScreen, BlankScreen)'
    BY <1>4, TransmitStarts
  <2> QED
    BY <1>2, <2>1, BlankIsScreen DEF ScreenInv
<1>5. CASE known = "soon" /\ bus' # <<>>
  <2>1. Leads({Here'}, bus', Ended(BlankScreen), Anything)
    BY <1>1, <1>5, SendLeads DEF ScreenInv
  <2> QED
    BY <1>1, <1>2, <1>5, <2>1 DEF ScreenInv, Ended
<1>6. CASE known \notin {"yes", "soon"}
  BY <1>1, <1>2, <1>6 DEF ScreenInv
<1> QED
  BY <1>3, <1>4, <1>5, <1>6

LEMMA DelayScreen ==
  ASSUME ScreenInv, IInv', Delay
  PROVE  ScreenInv' /\ UNCHANGED <<Shown, request, known>>
<1>1. /\ Sends /\ known' = known /\ request' = request /\ IInv /\ Ports
      /\ bus # <<>> /\ Head(bus) = LongDelay /\ bus' = Tail(bus)
      /\ pins' = pins /\ controller' = [controller EXCEPT !.busy = 0] /\ controller \in Controller
  BY DelaySends DEF ScreenInv, IInv, TypeOK, Delay
<1>2. Ports'
  BY <1>1 DEF Sends, Ports
<1>3. Shown' = Shown
  BY <1>1 DEF Shown, Controller
<1>4. known = "yes" => bus' # <<>>
  <2> SUFFICES ASSUME known = "yes" PROVE Tail(bus) # <<>>
    BY <1>1
  <2>1. bus[Len(bus)] = pinstatus /\ pinstatus \in Byte /\ bus \in Seq(OnBus)
    BY <1>1, HereType DEF IInv, Cached, EndsWithPins, TypeOK
  <2>2. Head(bus) = bus[1] /\ LongDelay \notin Byte
    BY <1>1, <2>1 DEF Byte, LongDelay
  <2>3. Len(bus) # 1
    BY <1>1, <2>1, <2>2
  <2> DEFINE rest == Tail(bus)
  <2>4. Len(rest) = Len(bus) - 1 /\ Len(bus) \in Nat
    BY <1>1, <2>1
  <2> HIDE DEF rest
  <2>5. Len(rest) # 0
    BY <2>3, <2>4
  <2>6. Len(<<>>) = 0
    OBVIOUS
  <2>7. rest # <<>>
    BY <2>5, <2>6
  <2> QED
    BY <2>7 DEF rest
<1>5. CASE known = "yes"
  <2>1. PICK s0, s1 \in Screen : Turns(s0, s1)
    BY <1>5 DEF ScreenInv
  <2>2. Leads({Here'}, bus', Ended(s1), Changes(s0, s1))
    BY <1>1, <2>1, SendLeads DEF Turns
  <2>3. Turns(s0, s1)'
    BY <1>1, <1>3, <2>1, <2>2 DEF Turns, Ended, Changes
  <2> QED
    BY <1>1, <1>2, <1>3, <1>4, <1>5, <2>3 DEF ScreenInv
<1>6. CASE known = "soon"
  <2>1. Leads({Here'}, bus', Ended(BlankScreen), Anything)
    BY <1>1, <1>6, SendLeads DEF ScreenInv
  <2>2. request' = NoRequest
    BY <1>1, <1>6 DEF ScreenInv
  <2> QED
    BY <1>1, <1>2, <1>3, <1>6, <2>1, <2>2 DEF ScreenInv, Ended
<1>7. CASE known \notin {"yes", "soon"}
  BY <1>1, <1>2, <1>3, <1>7 DEF ScreenInv
<1> QED
  BY <1>5, <1>6, <1>7

LEMMA InitScreen == (Init => ScreenInv) /\ (IInv' /\ ((ScreenInv /\ Miss) \/ Restart) => ScreenInv')
<1>1. Init => ScreenInv
  BY InitIInv, LowE DEF Init, ScreenInv, Ports
<1>2. IInv' /\ Restart => ScreenInv'
  BY LowE DEF Restart, ScreenInv, Ports
<1>3. IInv' /\ ScreenInv /\ Miss => ScreenInv'
  BY DEF Miss, driverVars, ScreenInv, Ports
<1> QED
  BY <1>1, <1>2, <1>3

LEMMA NextScreen ==
  ASSUME PlainRequests, QuickClear, NoRequest \notin Request
  PROVE  ScreenInv /\ [Next]_vars => ScreenInv'
<1> SUFFICES ASSUME ScreenInv, [Next]_vars PROVE ScreenInv'
  OBVIOUS
<1>1. IInv' /\ IInv
  BY NextIInv DEF ScreenInv
<1>2. CASE UNCHANGED vars
  <2>1. UNCHANGED <<dataport, pinstatus, bus, known, controller, pins, request>>
        /\ Here' = Here /\ Shown' = Shown
    BY <1>2 DEF vars, driverVars, Here, Shown
  <2>2. \A s0, s1 \in Screen : Turns(s0, s1) => Turns(s0, s1)'
    BY <2>1 DEF Turns, Ended, Changes
  <2> QED
    BY <1>1, <2>1, <2>2 DEF ScreenInv, Ports, Ended
<1>3. CASE Initialise
  BY <1>1, <1>3, InitialiseScreen
<1>4. CASE \E r \in Request : Ask(r)
  BY <1>1, <1>4, AskScreen
<1>5. CASE Transmit
  BY <1>1, <1>5, TransmitScreen
<1>6. CASE Miss
  BY <1>1, <1>6, InitScreen
<1>7. CASE Delay
  BY <1>1, <1>7, DelayScreen
<1>8. CASE Restart
  BY <1>1, <1>8, InitScreen
<1> QED
  BY <1>2, <1>3, <1>4, <1>5, <1>6, <1>7, <1>8 DEF Next

LEMMA DisplayOperators ==
  /\ Display!BlankScreen = BlankScreen
  /\ \A r, s : Display!Apply(r, s) = Apply(r, s)
<1>1. /\ Display!LCD_START_LINE1 = LCD_START_LINE1 /\ Display!LCD_START_LINE2 = LCD_START_LINE2
      /\ Display!LineLength = LineLength /\ Display!Blank = Blank /\ Display!NewLine = NewLine
  BY DEF Display!LCD_START_LINE1, LCD_START_LINE1, Display!LCD_START_LINE2, LCD_START_LINE2,
         Display!LineLength, LineLength, Display!Blank, Blank, Display!NewLine, NewLine
<1>2. Display!Address = Address
  BY <1>1 DEF Display!Address, Address
<1>3. Display!BlankScreen = BlankScreen
  BY <1>1, <1>2 DEF Display!BlankScreen, BlankScreen
<1>4. \A a : Display!NextAddress(a) = NextAddress(a)
  BY <1>1 DEF Display!NextAddress, NextAddress
<1>5. \A s : Display!Clear(s) = Clear(s)
  BY <1>1, <1>2 DEF Display!Clear, Clear
<1>6. \A s, a : Display!MoveTo(s, a) = MoveTo(s, a)
  BY DEF Display!MoveTo, MoveTo
<1>7. \A s, c : Display!Show(s, c) = Show(s, c)
  BY <1>4 DEF Display!Show, Show
<1>8. \A r, s : Display!Apply(r, s) = Apply(r, s)
  BY <1>1, <1>5, <1>6, <1>7 DEF Display!Apply, Apply
<1> QED
  BY <1>3, <1>8

(* Every step is one of TextDisplay, or none.                              *)
LEMMA NextDisplay ==
  ASSUME PlainRequests, QuickClear, NoRequest \notin Request, Unknown \notin Screen,
         ScreenInv, [Next]_vars
  PROVE  [Display!Next]_<<IF known = "yes" THEN Shown ELSE Unknown, request>>
<1> DEFINE screen == IF known = "yes" THEN Shown ELSE Unknown
<1>1. IInv' /\ IInv /\ Ports
      /\ (known # "yes" \/ bus = <<>> => request = NoRequest)
  BY NextIInv DEF ScreenInv
<1>2. ASSUME UNCHANGED <<known, Shown, request>> PROVE UNCHANGED <<screen, request>>
  BY <1>2
<1>3. ASSUME known' # "yes", request' = NoRequest PROVE Display!Lose
  BY <1>3 DEF Display!Lose
<1>4. CASE UNCHANGED vars
  BY <1>2, <1>4 DEF vars, driverVars, Shown
<1>5. CASE Initialise
  BY <1>1, <1>3, <1>5 DEF Initialise, Calls, Display!Next
<1>6. ASSUME NEW r \in Request, Ask(r) PROVE Display!Ask \/ UNCHANGED <<screen, request>>
  <2>1. /\ bus = <<>> /\ known' = known /\ UNCHANGED <<controller, pins>>
        /\ request' = IF known = "yes" THEN r ELSE NoRequest
    BY <1>6 DEF Ask, Calls
  <2>2. request = NoRequest /\ Shown' = Shown
    BY <1>1, <2>1 DEF Shown
  <2>3. CASE known = "yes"
    <3>1. Shown \in Screen
      BY <2>1, <2>3, RestsEnded
    <3> QED
      BY <2>1, <2>2, <2>3, <3>1 DEF Display!Ask
  <2>4. CASE known # "yes"
    BY <2>1, <2>2, <2>4
  <2> QED
    BY <2>3, <2>4
<1>7. CASE Transmit
  <2>1. /\ known' = IF Ends /\ known = "soon" THEN "yes" ELSE known
        /\ request' = IF Ends \/ Shown' # Shown THEN NoRequest ELSE request
        /\ (Ends <=> bus' = <<>>)
    BY <1>1, <1>7, TransmitSends DEF Transmit
  <2>2. CASE known = "yes"
    <3>1. PICK s0, s1 \in Screen : Turns(s0, s1)
      BY <2>2 DEF ScreenInv
    <3>2. \/ request # NoRequest /\ request' = NoRequest /\ Shown' = Apply(request, Shown)
          \/ UNCHANGED <<Shown, request>>
      BY <1>1, <1>7, <2>2, <3>1, TransmitTurns
    <3> QED
      BY <2>1, <2>2, <3>2, DisplayOperators DEF Display!Next, Display!Perform
  <2>3. CASE known = "soon" /\ bus' = <<>>
    <3>1. known' = "yes" /\ request = NoRequest /\ request' = NoRequest /\ Shown' = BlankScreen
      BY <1>1, <1>7, <2>3, TransmitStarts
    <3> QED
      BY <2>3, <3>1, DisplayOperators DEF Display!Next, Display!Start
  <2>4. CASE known # "yes" /\ ~(known = "soon" /\ bus' = <<>>)
    BY <1>1, <2>1, <2>4
  <2> QED
    BY <2>2, <2>3, <2>4
<1>8. CASE Miss
  BY <1>3, <1>8 DEF Miss, Display!Next
<1>9. CASE Delay
  BY <1>1, <1>2, <1>9, DelayScreen
<1>10. CASE Restart
  BY <1>3, <1>10 DEF Restart, Display!Next
<1> QED
  BY <1>4, <1>5, <1>6, <1>7, <1>8, <1>9, <1>10 DEF Next, Display!Next

(* As long as the display hears every byte and the board does not restart, *)
(* each call of the driver has on the screen the effect that lcdpcf8574.h  *)
(* gives it, once and as a whole, and lcd_init leaves it blank and on: for *)
(* all requests to cells there are and to switch the display, whatever the *)
(* time that clearing takes up to that of 18 bytes, which the driver lets  *)
(* go by without asking.                                                   *)
THEOREM DisplayImplemented ==
  ASSUME PlainRequests, QuickClear, NoRequest \notin Request, Unknown \notin Screen
  PROVE  Spec => ImplementsTextDisplay
<1>1. Init => Display!Init
  BY DEF Init, Display!Init
<1>2. ScreenInv /\ [Next]_vars =>
        [Display!Next]_<<IF known = "yes" THEN Shown ELSE Unknown, request>>
  BY NextDisplay
<1>3. Init => ScreenInv
  BY InitScreen
<1>4. ScreenInv /\ [Next]_vars => ScreenInv'
  BY NextScreen
<1> QED
  BY <1>1, <1>2, <1>3, <1>4, PTL DEF Spec, ImplementsTextDisplay, Display!Spec

=============================================================================
