---------------------------- MODULE TextDisplay ----------------------------
(***************************************************************************)
(* What the display driver promises: a request has its effect at once and  *)
(* as a whole.  What the display shows is Unknown until it has been        *)
(* initialised, and may become so again when the board restarts or the     *)
(* display misses a byte.                                                  *)
(***************************************************************************)
EXTENDS Screen

CONSTANTS
  Request,    \* the requests made of the driver
  NoRequest,
  Unknown

VARIABLES
  screen,   \* a Screen, or Unknown
  request   \* the request in hand, or NoRequest

Init == screen = Unknown /\ request = NoRequest

Start == screen = Unknown /\ screen' = BlankScreen /\ UNCHANGED request

Ask ==
  /\ screen # Unknown /\ request = NoRequest
  /\ request' \in Request
  /\ UNCHANGED screen

Perform ==
  /\ request # NoRequest
  /\ screen' = Apply(request, screen)
  /\ request' = NoRequest

Lose == screen' = Unknown /\ request' = NoRequest

Next == Start \/ Ask \/ Perform \/ Lose

Spec == Init /\ [][Next]_<<screen, request>>

=============================================================================
