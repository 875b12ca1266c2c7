-------------------------------- MODULE Lcd --------------------------------
(***************************************************************************)
(* The display driver with the port expander and the display.  A byte that *)
(* goes over the bus is one step (Transmit): between any two the board may *)
(* restart, and any may go unanswered (Miss), which the driver does not    *)
(* notice.  Expander and display keep what they hold when the board        *)
(* restarts.                                                               *)
(***************************************************************************)
EXTENDS Hd44780

CONSTANTS
  Request, NoRequest,  \* the requests made of the driver
  Unknown,
  MaxCalls,            \* bound: calls of the driver
  MaxFaults            \* bound: restarts and bytes missed

ASSUME RequestAssumption ==
  \A r \in Request :
     /\ r.op \in {"lcd_clrscr", "lcd_home", "lcd_gotoxy", "lcd_putc", "lcd_data",
                 "lcd_led", "lcd_command", "lcd_getxy"}
     /\ r.op = "lcd_gotoxy" => r.x \in 0 .. LCD_START_LINE2 - 1
     /\ r.op \in {"lcd_putc", "lcd_data"} => r.c \in Byte
     /\ r.op = "lcd_command" => r.cmd \in Byte
ASSUME BoundAssumption == MaxCalls \in Nat /\ MaxFaults \in Nat

VARIABLES
  dataport,   \* the driver's variables; pcf8574_pinstatus holds the pins
  pinstatus,  \*   as the driver believes they are
  bus,        \* bytes of the current call yet to be sent
  pins,       \* the pins of the expander
  controller, \* the display
  known,      \* history: "no" before lcd_init, "soon" in it, "yes" after it,
              \*   "missed" once a byte was missed
  request,    \* history: the request in hand, until it has its effect
  calls, faults

driverVars == <<dataport, pinstatus>>
vars == <<driverVars, bus, pins, controller, known, request, calls, faults>>

Init ==
  /\ dataport = 0 /\ pinstatus = 0 /\ bus = <<>>
  /\ pins = 255
  /\ controller = PoweredUp
  /\ known = "no" /\ request = NoRequest
  /\ calls = 0 /\ faults = 0

Driver == [dataport |-> dataport, pinstatus |-> pinstatus, out |-> <<>>, data |-> 0]

Calls(d) ==
  /\ bus = <<>>
  /\ calls < MaxCalls
  /\ dataport' = d.dataport /\ pinstatus' = d.pinstatus
  /\ bus' = d.out
  /\ calls' = calls + 1
  /\ UNCHANGED <<pins, controller, faults>>

Initialise == Calls(lcd_init(Driver)) /\ known' = "soon" /\ UNCHANGED request

Ask(r) ==
  /\ known \notin {"no", "soon"}
  /\ Calls(Call(Driver, r))
  /\ request' = IF known = "yes" THEN r ELSE NoRequest
  /\ UNCHANGED known

----------------------------------------------------------------------------
Shown ==
  [cells |-> controller.cells, cursor |-> controller.cursor, on |-> controller.on,
   light |-> Bit(pins, LCD_LED_PIN) = 1]

Ends == Len(bus) = 1

(* i2c_start, i2c_write, i2c_stop, as i2c_write is answered.  A request is *)
(* done when it shows, and at the latest when the call ends.               *)
Transmit ==
  /\ bus # <<>> /\ Head(bus) # LongDelay
  /\ bus' = Tail(bus)
  /\ pins' = Head(bus)
  /\ controller' \in Driven(controller, pins, Head(bus))
  /\ known' = IF Ends /\ known = "soon" THEN "yes" ELSE known
  /\ request' = IF Ends \/ Shown' # Shown THEN NoRequest ELSE request
  /\ UNCHANGED <<driverVars, calls, faults>>

(* The results of i2c_start and i2c_write are not looked at.               *)
Miss ==
  /\ bus # <<>> /\ Head(bus) # LongDelay
  /\ faults < MaxFaults
  /\ bus' = Tail(bus)
  /\ known' = "missed" /\ request' = NoRequest
  /\ faults' = faults + 1
  /\ UNCHANGED <<driverVars, pins, controller, calls>>

Delay ==
  /\ bus # <<>> /\ Head(bus) = LongDelay
  /\ bus' = Tail(bus)
  /\ controller' = [controller EXCEPT !.busy = 0]
  /\ UNCHANGED <<driverVars, pins, known, request, calls, faults>>

(* The board restarts; its variables are those of a program that starts.   *)
Restart ==
  /\ faults < MaxFaults
  /\ dataport' = 0 /\ pinstatus' = 0 /\ bus' = <<>>
  /\ known' = "no" /\ request' = NoRequest
  /\ faults' = faults + 1
  /\ UNCHANGED <<pins, controller, calls>>

Next ==
  \/ Initialise
  \/ \E r \in Request : Ask(r)
  \/ Transmit
  \/ Miss
  \/ Delay
  \/ Restart

Spec == Init /\ [][Next]_vars

----------------------------------------------------------------------------
(* The driver's and the display's variables hold what their types allow.   *)
TypeOK ==
  /\ dataport \in Byte /\ pinstatus \in Byte /\ pins \in Byte
  /\ bus \in Seq(Byte \cup {LongDelay})
  /\ controller \in Controller
  /\ known \in {"no", "soon", "yes", "missed"}
  /\ request \in Request \cup {NoRequest}
  /\ calls \in 0 .. MaxCalls /\ faults \in 0 .. MaxFaults

(* lcd_init (lcdpcf8574.cpp:279-316) brings the display to the mode of 4   *)
(* bits with two lines, in step with the driver's halves of bytes, in      *)
(* whatever state and half way through whatever byte a restart or a missed *)
(* byte has left it, and no call later loses step.                         *)
InStepOnceInitialised ==
  known = "yes" =>
    /\ ~controller.eight /\ controller.twoLines
    /\ controller.increments /\ ~controller.cgram
    /\ bus = <<>> => controller.half = NoHalf

(* Between calls the cached pins, from which E is toggled and in which     *)
(* lcd_read looks, are the pins of the expander (pcf8574.cpp:39).          *)
CacheIsTrue == known = "yes" /\ bus = <<>> => pinstatus = pins

(* Unless bytes are missed, a function has on the display the effect its   *)
(* declaration in lcdpcf8574.h:78-105 names, once and as a whole: no byte  *)
(* comes while the display is busy, no half goes to the wrong byte, and    *)
(* the backlight stays as it was put.                                      *)
Display == INSTANCE TextDisplay WITH screen <- IF known = "yes" THEN Shown ELSE Unknown
ImplementsTextDisplay == Display!Spec

=============================================================================
