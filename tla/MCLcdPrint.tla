----------------------------- MODULE MCLcdPrint -----------------------------
(***************************************************************************)
(* Instances of LcdPrint for TLC.                                          *)
(***************************************************************************)
EXTENDS LcdPrint

Text(first, length) == [k \in 1 .. length |-> first + k]

(* Texts shorter and longer than a row; numbers that fill the bottom row,  *)
(* exceed it and leave some of it.                                         *)
MCMessage ==
  {[str |-> Text(64, 3), numbers |-> Text(200, 14)],
   [str |-> Text(64, 20), numbers |-> Text(200, 17)],
   [str |-> Text(90, 16), numbers |-> Text(220, 16)]}

(* A zero byte at once, one row of text, and all that fits in a line.      *)
MCBehind == {<<>>, Text(150, 16), Text(150, 24)}

MCStartTime == {0, 1900}
MCElapse == {250, 499}

=============================================================================
