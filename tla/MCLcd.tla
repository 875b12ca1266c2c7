------------------------------- MODULE MCLcd -------------------------------
(***************************************************************************)
(* Instances of Lcd for TLC.                                               *)
(***************************************************************************)
EXTENDS Lcd

(* Nothing on the pins, everything, and the halves of the two instructions *)
(* that change the width of the interface.                                 *)
MCUndriven == {0, 2, 3, 15}

MCRequest ==
  {[op |-> "lcd_clrscr"], [op |-> "lcd_home"], [op |-> "lcd_getxy"]}
    \cup {[op |-> "lcd_gotoxy", x |-> x, y |-> y] : x \in {15}, y \in {0, 1}}
    \cup {[op |-> "lcd_putc", c |-> c] : c \in {65, NewLine}}
    \cup {[op |-> "lcd_data", c |-> 51]}
    \cup {[op |-> "lcd_led", onoff |-> n] : n \in {0, 1}}
    \cup {[op |-> "lcd_command", cmd |-> LCD_DISP_OFF]}

=============================================================================
