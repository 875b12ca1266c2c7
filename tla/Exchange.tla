------------------------------ MODULE Exchange ------------------------------
(***************************************************************************)
(* What the main program promises its peer: it asks for a connection,      *)
(* sends its data once it has heard a ready frame, shows a reply once it   *)
(* has heard an information frame after that, and goes no further than     *)
(* that.  It may give up while it waits, and it does when it hears a       *)
(* reject or a number it does not expect.                                  *)
(***************************************************************************)
EXTENDS Integers, Sequences

CONSTANTS
  Heard,                   \* the control fields frames carry
  Ready, Information       \* the two types that carry the exchange on

VARIABLES stage, heard

Stage ==
  {"down", "asked", "confirmed", "used", "answered", "shown", "given up"}

Init == stage = "down" /\ heard = <<>>

Move(from, to) == stage = from /\ stage' = to /\ UNCHANGED heard

Ask == Move("down", "asked")
Use == Move("confirmed", "used")
Show == Move("answered", "shown")
GiveUp == Move("asked", "given up") \/ Move("used", "given up")

(* Where a frame may take a station that waits for one.                    *)
After(c) ==
  IF c.seq_no # 0 \/ c.frame \notin {Ready, Information}
  THEN {"given up"}
  ELSE CASE stage = "asked" /\ c.frame = Ready      -> {"confirmed"}
         [] stage = "used" /\ c.frame = Information -> {"used", "answered"}
         [] OTHER                                   -> {stage}

Listen(c) ==
  /\ stage \in {"asked", "used"}
  /\ heard' = Append(heard, c)
  /\ stage' \in After(c)

Next ==
  \/ Ask \/ Use \/ Show \/ GiveUp
  \/ \E c \in Heard : Listen(c)

Spec == Init /\ [][Next]_<<stage, heard>>

=============================================================================
