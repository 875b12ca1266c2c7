----------------------------- MODULE LcdDriver -----------------------------
(***************************************************************************)
(* The functions of lcdpcf8574.cpp over pcf8574.cpp.  None of them decides *)
(* anything by what the display answers, so a call is the sequence of      *)
(* bytes it puts on the pins of the port expander.                         *)
(***************************************************************************)
EXTENDS Screen, Sequences

LCD_RS_PIN == 0
LCD_RW_PIN == 1
LCD_E_PIN == 2
LCD_LED_PIN == 3
LCD_DATA0_PIN == 4

LCD_FUNCTION_4BIT_2LINES == 40
LCD_DISP_OFF == 8
LCD_DISP_ON_BLINK == 13
LCD_MODE_DEFAULT == 6
CLR == 1
HOME == 2
DDRAM == 128

Bit(b, pin) == (b \div 2 ^ pin) % 2

(* Mutant: the pin is added, set or not.                                   *)
AddPin(b, pin, v) == IF v # 0 THEN b + 2 ^ pin ELSE b - Bit(b, pin) * 2 ^ pin

WithPin(b, pin, v) == b + ((IF v # 0 THEN 1 ELSE 0) - Bit(b, pin)) * 2 ^ pin

----------------------------------------------------------------------------
(* The driver, d: its variables dataport and pcf8574_pinstatus, the bytes  *)
(* it has put on the bus in this call, and what lcd_read returned last.    *)
LongDelay == 256  \* in place of a byte: delay() of 5 ms or more

(* Mutant: the cached pins are not brought up to date.                     *)
SetWithoutCache(d, data) == [d EXCEPT !.out = Append(@, data)]

pcf8574_setoutput(d, data) == [d EXCEPT !.pinstatus = data, !.out = Append(@, data)]

pcf8574_setoutputpin(d, pin, v) ==
  LET b == WithPin(d.pinstatus, pin, v)
  IN  [d EXCEPT !.pinstatus = b, !.out = Append(@, b)]

pcf8574_getoutputpin(d, pin) == Bit(d.pinstatus, pin)

toggle_e(d) == pcf8574_setoutputpin(pcf8574_setoutputpin(d, LCD_E_PIN, 1), LCD_E_PIN, 0)

(* RS and RW are changed in dataport, which then goes out as a whole.      *)
Select(d, rs, rw) ==
  LET port == WithPin(WithPin(d.dataport, LCD_RS_PIN, rs), LCD_RW_PIN, rw)
  IN  pcf8574_setoutput([d EXCEPT !.dataport = port], port)

(* The four data pins are changed in dataport, which then goes out.        *)
SendNibble(d, n) ==
  LET port == (d.dataport % 16) + 16 * n
  IN  pcf8574_setoutput([d EXCEPT !.dataport = port], port)

lcd_write(d, data, rs) ==
  LET high == toggle_e(SendNibble(Select(d, rs, 0), data \div 16))
      low == toggle_e(SendNibble(high, data % 16))
  IN  SendNibble(low, 15)

(* Both halves are taken from the cached pin, not from the display.        *)
lcd_read(d, rs) ==
  LET first == pcf8574_setoutputpin(Select(d, rs, 1), LCD_E_PIN, 1)
      second == pcf8574_setoutputpin(
                  pcf8574_setoutputpin(first, LCD_E_PIN, 0), LCD_E_PIN, 1)
      data == pcf8574_getoutputpin(first, LCD_DATA0_PIN) * 16
                + pcf8574_getoutputpin(second, LCD_DATA0_PIN)
  IN  [pcf8574_setoutputpin(second, LCD_E_PIN, 0) EXCEPT !.data = data]

(* Mutant: nothing is awaited, the display is not even asked.              *)
NoWait(d) == d

(* The loop ends with its first lcd_read, which is 0 or 17: bit 7, the     *)
(* busy flag, is never set in it.                                          *)
lcd_waitbusy(d) == lcd_read(lcd_read(d, 0), 0)

lcd_command(d, cmd) == lcd_write(lcd_waitbusy(d), cmd, 0)

lcd_newline(d, pos) ==
  lcd_command(d, DDRAM + IF pos < LCD_START_LINE2 THEN LCD_START_LINE2 ELSE LCD_START_LINE1)

(* A line that is full continues on the other one, or would if pos were    *)
(* the cursor.                                                             *)
lcd_putc(d, c) ==
  LET waited == lcd_waitbusy(d)
      pos == waited.data
      wrapped ==
        CASE pos = LCD_START_LINE1 + LCD_DISP_LENGTH -> lcd_write(waited, DDRAM + LCD_START_LINE2, 0)
          [] pos = LCD_START_LINE2 + LCD_DISP_LENGTH -> lcd_write(waited, DDRAM + LCD_START_LINE1, 0)
          [] OTHER -> waited
  IN  IF c = NewLine
      THEN lcd_newline(waited, pos)
      ELSE lcd_write(lcd_waitbusy(wrapped), c, 1)

lcd_led(d, onoff) ==
  LET port == WithPin(d.dataport, LCD_LED_PIN, IF onoff # 0 THEN 0 ELSE 1)
  IN  pcf8574_setoutput([d EXCEPT !.dataport = port], port)

Wait(d) == [d EXCEPT !.out = Append(@, LongDelay)]

(* The tail of lcd_init: the commands sent in mode of 4 bits.              *)
Configure(d) ==
  LET function == lcd_command(d, LCD_FUNCTION_4BIT_2LINES)
      off == lcd_command(function, LCD_DISP_OFF)
      clear == lcd_command(off, CLR)
  IN  lcd_command(lcd_command(clear, LCD_MODE_DEFAULT), LCD_DISP_ON_BLINK)

(* pcf8574_init forgets the pins; dataport 0 goes out.                     *)
Reset(d) == Wait(pcf8574_setoutput([d EXCEPT !.pinstatus = 0, !.dataport = 0], 0))

(* Mutant: the display is told only twice to leave the mode of 4 bits.     *)
InitTwice(d) ==
  LET first == Wait(toggle_e(SendNibble(Reset(d), 3)))
  IN  Configure(toggle_e(SendNibble(toggle_e(first), 2)))

lcd_init(d) ==
  LET first == Wait(toggle_e(SendNibble(Reset(d), 3)))
      third == toggle_e(toggle_e(first))
  IN  Configure(toggle_e(SendNibble(third, 2)))

(* The function a request names.                                           *)
Call(d, r) ==
  CASE r.op = "lcd_clrscr"  -> lcd_command(d, CLR)
    [] r.op = "lcd_home"    -> lcd_command(d, HOME)
    [] r.op = "lcd_gotoxy"  ->
         lcd_command(d, DDRAM + r.x + IF r.y = 0 THEN LCD_START_LINE1 ELSE LCD_START_LINE2)
    [] r.op = "lcd_putc"    -> lcd_putc(d, r.c)
    [] r.op = "lcd_data"    -> lcd_write(lcd_waitbusy(d), r.c, 1)
    [] r.op = "lcd_led"     -> lcd_led(d, r.onoff)
    [] r.op = "lcd_command" -> lcd_command(d, r.cmd)
    [] r.op = "lcd_getxy"   -> lcd_waitbusy(d)

=============================================================================
