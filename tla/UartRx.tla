------------------------------- MODULE UartRx -------------------------------
(***************************************************************************)
(* The receive side of uart.c: the main program in UART_receive, one       *)
(* action per access to memory it shares with the interrupts, and the two  *)
(* interrupt handlers, USART_RX_vect and TIMER1_COMPA_vect (timer.c),      *)
(* which run to completion between any two of those accesses.  The         *)
(* millisecond counter is loaded byte by byte, low byte first, as an       *)
(* 8-bit processor does.                                                   *)
(***************************************************************************)
EXTENDS RingBuffer

CONSTANTS
  Radix,      \* values of a byte of timerMillis: 256
  Width,      \* bytes of timerMillis: 4
  StartTime,  \* what timerMillis may be at first
  Length,     \* the sizes of the caller's array
  MaxBytes    \* bound: bytes that arrive; byte number n has the value n

ASSUME ClockAssumption == Radix \in Nat \ {0, 1} /\ Width \in Nat \ {0}
ASSUME LengthAssumption == Length \subseteq Nat /\ MaxBytes \in Nat

timeout_ms == 4

(* What one unit of byte number k, counted from 0, is worth.               *)
Weight[k \in 0 .. Width] == IF k = 0 THEN 1 ELSE Radix * Weight[k - 1]

ClockRange == Weight[Width]  \* unsigned long counts modulo this

ASSUME StartTimeAssumption == StartTime \subseteq 0 .. ClockRange - 1

VARIABLES
  usartRxBuffer,  \* the receive ring
  timerMillis,    \* the millisecond counter
  pc,             \* where the main program is; "idle" is outside UART_receive
  ms, loaded,     \* millis(): the bytes loaded so far, and how many
  start_time,     \* local to UART_receive, like the next five
  length,
  reader,
  byteCount,
  overflow,
  data,           \* what has been written to the caller's array
  arrived,        \* history: bytes that have come in
  lost,           \* history: bytes that found the ring full
  taken,          \* history: bytes read from the ring
  quiet,          \* history: ticks since the last byte was taken, to a limit
  torn,           \* history: the value start_time was loaded in two halves
  tornNow,        \* history: so was the value it is compared with
  looked          \* the clock has been read since the last tick

ringVars == <<usartRxBuffer, arrived, lost>>
localVars == <<start_time, length, reader, byteCount, overflow, data>>
clockVars == <<timerMillis, quiet, torn, tornNow, looked>>
vars == <<ringVars, localVars, clockVars, pc, ms, loaded, taken>>

QuietLimit == timeout_ms + 1

Init ==
  /\ usartRxBuffer = [buffer |-> [n \in Slot |-> 0], buf_head |-> 0, buf_tail |-> 0]
  /\ timerMillis \in StartTime
  /\ pc = "idle"
  /\ ms = 0 /\ loaded = 0
  /\ start_time = 0 /\ length = 0 /\ reader = 0 /\ byteCount = 0
  /\ overflow = FALSE /\ data = <<>>
  /\ arrived = 0 /\ lost = 0 /\ taken = <<>>
  /\ quiet = 0 /\ torn = FALSE /\ tornNow = FALSE /\ looked = TRUE

----------------------------------------------------------------------------
(* USART_RX_vect: the byte goes into the ring unless the ring is full.     *)
USART_RX_vect ==
  /\ arrived < MaxBytes
  /\ arrived' = arrived + 1
  /\ IF buffer_full(usartRxBuffer)
     THEN lost' = lost + 1 /\ UNCHANGED usartRxBuffer
     ELSE usartRxBuffer' = write_buffer(usartRxBuffer, arrived') /\ UNCHANGED lost
  /\ UNCHANGED <<localVars, clockVars, pc, ms, loaded, taken>>

ReadingStart == pc \in {"start", "restart"}
ReadingNow == pc = "now"

(* A tick that carries into the bytes of the counter not yet loaded.       *)
Tears ==
  /\ loaded > 0 /\ loaded < Width
  /\ (timerMillis + 1) \div Weight[loaded] # timerMillis \div Weight[loaded]

(* TIMER1_COMPA_vect.  The loop of UART_receive reads the clock many times *)
(* in a millisecond: at least once between two ticks.                      *)
TIMER1_COMPA_vect ==
  /\ looked \/ pc = "idle"
  /\ timerMillis' = (timerMillis + 1) % ClockRange
  /\ looked' = FALSE
  /\ quiet' = IF quiet < QuietLimit THEN quiet + 1 ELSE quiet
  /\ torn' = (torn \/ (ReadingStart /\ Tears))
  /\ tornNow' = (tornNow \/ (ReadingNow /\ Tears))
  /\ UNCHANGED <<ringVars, localVars, pc, ms, loaded, taken>>

----------------------------------------------------------------------------
(* millis() is called: the load of the counter begins at its low byte.     *)
CallMillis(label) == pc' = label /\ ms' = 0 /\ loaded' = 0

(* The call of UART_receive, up to its first millis().                     *)
UART_receive(n) ==
  /\ pc = "idle"
  /\ CallMillis("start")
  /\ length' = n
  /\ byteCount' = 0 /\ overflow' = FALSE /\ data' = <<>>
  /\ quiet' = 0 /\ torn' = FALSE /\ tornNow' = FALSE
  /\ UNCHANGED <<ringVars, timerMillis, looked, start_time, reader, taken>>

LoadClockByte ==
  /\ ReadingStart \/ ReadingNow
  /\ loaded < Width
  /\ ms' = ms + Weight[loaded] * ((timerMillis \div Weight[loaded]) % Radix)
  /\ loaded' = loaded + 1
  /\ UNCHANGED <<ringVars, localVars, clockVars, pc, taken>>

(* start_time = millis(), before the loop and after each byte.             *)
SetStart ==
  /\ ReadingStart /\ loaded = Width
  /\ start_time' = ms
  /\ pc' = "test"
  /\ looked' = TRUE
  /\ UNCHANGED <<ringVars, timerMillis, quiet, torn, tornNow, ms, loaded, taken,
                 length, reader, byteCount, overflow, data>>

(* while (!buffer_empty(&usartRxBuffer))                                   *)
Test ==
  /\ pc = "test"
  /\ IF buffer_empty(usartRxBuffer)
     THEN CallMillis("now") /\ tornNow' = FALSE
     ELSE pc' = "load" /\ UNCHANGED <<ms, loaded, tornNow>>
  /\ UNCHANGED <<ringVars, localVars, timerMillis, quiet, torn, looked, taken>>

(* read_buffer: -1 from an empty ring; otherwise the byte is loaded ...    *)
Load ==
  /\ pc = "load"
  /\ IF buffer_empty(usartRxBuffer)
     THEN reader' = -1 /\ pc' = "store"
     ELSE reader' = OldestByte(usartRxBuffer) /\ pc' = "advance"
  /\ UNCHANGED <<ringVars, clockVars, ms, loaded, taken,
                 start_time, length, byteCount, overflow, data>>

(* ... and then its slot is given free.                                    *)
Advance ==
  /\ pc = "advance"
  /\ usartRxBuffer' = FreeOldest(usartRxBuffer)
  /\ taken' = Append(taken, reader)
  /\ quiet' = 0 /\ torn' = FALSE
  /\ pc' = "store"
  /\ UNCHANGED <<arrived, lost, localVars, timerMillis, tornNow, looked, ms, loaded>>

(* The byte is written to the array, and start_time taken again.  The      *)
(* bound is byteCount <= length, so one byte more than length is written.  *)
(* Mutant: a byte that does not fit is dropped without a word.             *)
DropSilently ==
  /\ pc = "store"
  /\ data' = IF byteCount <= length THEN Append(data, reader) ELSE data
  /\ byteCount' = byteCount + 1
  /\ CallMillis("restart")
  /\ UNCHANGED <<ringVars, clockVars, taken, start_time, length, reader, overflow>>

Store ==
  /\ pc = "store"
  /\ IF byteCount <= length
     THEN data' = Append(data, reader) /\ UNCHANGED overflow
     ELSE overflow' = TRUE /\ UNCHANGED data
  /\ byteCount' = byteCount + 1
  /\ CallMillis("restart")
  /\ UNCHANGED <<ringVars, clockVars, taken, start_time, length, reader>>

(* if ((millis() - start_time) > timeout_ms) break; unsigned arithmetic.   *)
(* Mutant: a millisecond too early.                                        *)
ExpiredEarly == (ms - start_time) % ClockRange >= timeout_ms
Expired == (ms - start_time) % ClockRange > timeout_ms

(* Mutant: the interval is measured anew each time round the loop.         *)
RestartWhenNotExpired ==
  /\ ReadingNow /\ loaded = Width
  /\ ~Expired
  /\ CallMillis("start")
  /\ looked' = TRUE
  /\ UNCHANGED <<ringVars, localVars, timerMillis, quiet, torn, tornNow, taken>>

KeepWaiting ==
  /\ ReadingNow /\ loaded = Width
  /\ ~Expired
  /\ pc' = "test"
  /\ looked' = TRUE
  /\ UNCHANGED <<ringVars, localVars, timerMillis, quiet, torn, tornNow, ms, loaded, taken>>

Return ==
  /\ ReadingNow /\ loaded = Width
  /\ Expired
  /\ pc' = "idle"
  /\ looked' = TRUE
  /\ UNCHANGED <<ringVars, localVars, timerMillis, quiet, torn, tornNow, ms, loaded, taken>>

Result == IF overflow THEN -1 ELSE byteCount

Body ==
  \/ LoadClockByte \/ SetStart \/ Test \/ Load \/ Advance \/ Store
  \/ KeepWaiting \/ Return

Next ==
  \/ USART_RX_vect
  \/ TIMER1_COMPA_vect
  \/ \E n \in Length : UART_receive(n)
  \/ Body

(* The processor runs the main program and the timer ticks; nothing is     *)
(* promised of the line or of when the program calls UART_receive.         *)
Fairness == WF_vars(Body) /\ WF_vars(TIMER1_COMPA_vect)

Spec == Init /\ [][Next]_vars /\ Fairness

----------------------------------------------------------------------------
Label ==
  {"idle", "start", "test", "load", "advance", "store", "restart", "now"}
Arrival == 0 .. MaxBytes

(* Every variable has its type.                                            *)
TypeOK ==
  /\ usartRxBuffer \in [buffer : [Slot -> Arrival], buf_head : Slot, buf_tail : Slot]
  /\ timerMillis \in 0 .. ClockRange - 1
  /\ pc \in Label
  /\ ms \in 0 .. ClockRange - 1 /\ loaded \in 0 .. Width
  /\ start_time \in 0 .. ClockRange - 1
  /\ length \in Length \cup {0}
  /\ reader \in Arrival
  /\ byteCount \in Nat /\ overflow \in BOOLEAN /\ data \in Seq(Arrival)
  /\ arrived \in Arrival /\ lost \in Nat /\ taken \in Seq(Arrival)
  /\ quiet \in 0 .. QuietLimit
  /\ torn \in BOOLEAN /\ tornNow \in BOOLEAN /\ looked \in BOOLEAN

(* Although neither side disables interrupts, the ring behaves as a queue  *)
(* of BUFFER_SIZE - 1 bytes: a byte taken is the oldest one, whatever      *)
(* arrives between the load of a byte and the release of its slot.         *)
Fifo == INSTANCE BoundedFifo
          WITH Data <- Arrival, Capacity <- BUFFER_SIZE - 1,
               queue <- Contents(usartRxBuffer)
ImplementsFifo == Fifo!Spec

(* A call that returns a count has put exactly that many bytes in the      *)
(* array, the last ones taken from the ring, in order: an interrupt in     *)
(* mid-call neither drops nor repeats one.                                 *)
CountsWhatItDelivers ==
  pc = "idle" /\ Result # -1 =>
     /\ Len(data) = byteCount
     /\ Len(taken) >= byteCount
     /\ data = SubSeq(taken, Len(taken) - byteCount + 1, Len(taken))

(* As long as no clock value was loaded in two halves, a call returns only *)
(* when more than timeout_ms ticks have passed since the last byte.        *)
ReturnsAfterGap ==
  [][Return => torn \/ tornNow \/ quiet > timeout_ms]_vars

(* A call returns once the line has gone quiet, whatever the counter is at *)
(* and even if it was torn.                                                *)
ReceiveEnds == pc # "idle" ~> pc = "idle"

=============================================================================
