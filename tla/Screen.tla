------------------------------- MODULE Screen -------------------------------
(***************************************************************************)
(* What a display of two lines shows, and what each function declared in   *)
(* lcdpcf8574.h makes of it.                                               *)
(***************************************************************************)
EXTENDS Integers

LCD_START_LINE1 == 0
LCD_START_LINE2 == 64
LCD_DISP_LENGTH == 16

Byte == 0 .. 255
Blank == 32
NewLine == 10

(* The cells an HD44780 has in its mode of two lines, and their order.     *)
LineLength == 40
Address ==
  (LCD_START_LINE1 .. LCD_START_LINE1 + LineLength - 1)
    \cup (LCD_START_LINE2 .. LCD_START_LINE2 + LineLength - 1)

NextAddress(a) ==
  CASE a = LCD_START_LINE1 + LineLength - 1 -> LCD_START_LINE2
    [] a = LCD_START_LINE2 + LineLength - 1 -> LCD_START_LINE1
    [] OTHER -> a + 1

Screen == [cells : [Address -> Byte], cursor : Address, on : BOOLEAN, light : BOOLEAN]

----------------------------------------------------------------------------
Clear(s) == [s EXCEPT !.cells = [a \in Address |-> Blank], !.cursor = LCD_START_LINE1]
MoveTo(s, a) == [s EXCEPT !.cursor = a]
Show(s, c) == [s EXCEPT !.cells[s.cursor] = c, !.cursor = NextAddress(s.cursor)]

(* lcd_init leaves this screen; the backlight is lit by lcd_led(0).        *)
BlankScreen ==
  [cells |-> [a \in Address |-> Blank], cursor |-> LCD_START_LINE1,
   on |-> TRUE, light |-> FALSE]

(* The screen after a request, a record with the function's name in op.    *)
(* Of the commands for lcd_command, those that switch the display are in   *)
(* use; a new line is always the second one.                               *)
Apply(r, s) ==
  CASE r.op = "lcd_clrscr"  -> Clear(s)
    [] r.op = "lcd_home"    -> MoveTo(s, LCD_START_LINE1)
    [] r.op = "lcd_gotoxy"  ->
         MoveTo(s, r.x + IF r.y = 0 THEN LCD_START_LINE1 ELSE LCD_START_LINE2)
    [] r.op = "lcd_putc"    ->
         IF r.c = NewLine THEN MoveTo(s, LCD_START_LINE2) ELSE Show(s, r.c)
    [] r.op = "lcd_data"    -> Show(s, r.c)
    [] r.op = "lcd_led"     -> [s EXCEPT !.light = (r.onoff = 0)]
    [] r.op = "lcd_command" -> [s EXCEPT !.on = r.cmd \in 12 .. 15]
    [] r.op = "lcd_getxy"   -> s

=============================================================================
