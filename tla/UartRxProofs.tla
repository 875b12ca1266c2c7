---------------------------- MODULE UartRxProofs ----------------------------
(***************************************************************************)
(* The receive ring is a bounded queue, a call delivers what it counts,    *)
(* and it waits long enough, for every ring, clock and caller's array.     *)
(***************************************************************************)
EXTENDS UartRx, SequenceTheorems, WellFoundedInduction, TLAPS

Ring == [buffer : [Slot -> Arrival], buf_head : Slot, buf_tail : Slot]

----------------------------------------------------------------------------
(* The ring on its own.                                                    *)

LEMMA NextSlotValue ==
  ASSUME NEW n \in Slot
  PROVE  NextSlot(n) = IF n + 1 = BUFFER_SIZE THEN 0 ELSE n + 1
<1>1. BUFFER_SIZE \in Nat /\ BUFFER_SIZE >= 2
  BY BufferSizeAssumption
<1>2. CASE n + 1 = BUFFER_SIZE
  BY <1>1, <1>2, Z3 DEF NextSlot, Slot
<1>3. CASE n + 1 < BUFFER_SIZE
  BY <1>1, <1>3, Z3 DEF NextSlot, Slot
<1> QED
  BY <1>1, <1>2, <1>3 DEF Slot

LEMMA HeldRange ==
  ASSUME NEW cb \in Ring
  PROVE  /\ Held(cb) \in 0 .. BUFFER_SIZE - 1
         /\ buffer_empty(cb) <=> Held(cb) = 0
         /\ buffer_full(cb) <=> Held(cb) = BUFFER_SIZE - 1
<1>1. /\ BUFFER_SIZE \in Nat /\ BUFFER_SIZE >= 2
      /\ cb.buf_head \in Slot /\ cb.buf_tail \in Slot
  BY BufferSizeAssumption DEF Ring
<1>2. NextSlot(cb.buf_tail)
        = IF cb.buf_tail + 1 = BUFFER_SIZE THEN 0 ELSE cb.buf_tail + 1
  BY <1>1, NextSlotValue
<1> QED
  BY <1>1, <1>2 DEF Held, buffer_empty, buffer_full, Slot

LEMMA SlotOfType ==
  ASSUME NEW cb \in Ring, NEW k \in 1 .. BUFFER_SIZE
  PROVE  SlotOf(cb, k) \in Slot
  BY BufferSizeAssumption DEF SlotOf, Ring, Slot

(* The contents are a sequence of the bytes that arrived.                  *)
LEMMA ContentsType ==
  ASSUME NEW cb \in Ring
  PROVE  Contents(cb) \in Seq(Arrival) /\ Len(Contents(cb)) = Held(cb)
<1>1. Held(cb) \in Nat /\ Held(cb) < BUFFER_SIZE
  BY HeldRange, BufferSizeAssumption
<1>2. \A k \in 1 .. Held(cb) : cb.buffer[SlotOf(cb, k)] \in Arrival
  BY <1>1, SlotOfType, BufferSizeAssumption DEF Ring
<1> QED
  BY <1>1, <1>2 DEF Contents

(* write_buffer into a ring that is not full appends the byte.             *)
LEMMA WriteAppends ==
  ASSUME NEW cb \in Ring, NEW b \in Arrival, ~buffer_full(cb)
  PROVE  /\ write_buffer(cb, b) \in Ring
         /\ Contents(write_buffer(cb, b)) = Append(Contents(cb), b)
<1> DEFINE new == write_buffer(cb, b)
<1>1. /\ BUFFER_SIZE \in Nat /\ BUFFER_SIZE >= 2
      /\ cb.buf_head \in Slot /\ cb.buf_tail \in Slot /\ cb.buffer \in [Slot -> Arrival]
  BY BufferSizeAssumption DEF Ring
<1>2. NextSlot(cb.buf_tail)
        = IF cb.buf_tail + 1 = BUFFER_SIZE THEN 0 ELSE cb.buf_tail + 1
  BY <1>1, NextSlotValue
<1>3. /\ new \in Ring
      /\ new.buf_head = cb.buf_head /\ new.buf_tail = NextSlot(cb.buf_tail)
      /\ new.buffer = [cb.buffer EXCEPT ![cb.buf_tail] = b]
  <2>1. new = [cb EXCEPT !.buffer[cb.buf_tail] = b, !.buf_tail = NextSlot(cb.buf_tail)]
    BY DEF write_buffer
  <2>2. NextSlot(cb.buf_tail) \in Slot
    BY <1>1, <1>2 DEF Slot
  <2> HIDE DEF new
  <2> QED
    BY <1>1, <2>1, <2>2 DEF Ring
<1> HIDE DEF new
<1>4. Held(new) = Held(cb) + 1 /\ Held(cb) \in 0 .. BUFFER_SIZE - 2
  <2>1. Held(cb) \in 0 .. BUFFER_SIZE - 2
    BY <1>1, HeldRange
  <2>2. Held(new) = Held(cb) + 1
    <3>1. CASE cb.buf_tail + 1 = BUFFER_SIZE
      BY <1>1, <1>2, <1>3, <3>1 DEF Held, buffer_full, Slot
    <3>2. CASE cb.buf_tail + 1 < BUFFER_SIZE
      BY SMTT(20), <1>1, <1>2, <1>3, <3>2 DEF Held, buffer_full, Slot
    <3> QED
      BY <1>1, <3>1, <3>2 DEF Slot
  <2> QED
    BY <2>1, <2>2
<1>5. \A k \in 1 .. BUFFER_SIZE : SlotOf(new, k) = SlotOf(cb, k)
  BY <1>3 DEF SlotOf
<1>6. SlotOf(cb, Held(cb) + 1) = cb.buf_tail
  BY <1>1, <1>4 DEF SlotOf, Held, Slot
<1>7. \A k \in 1 .. Held(cb) : SlotOf(cb, k) # cb.buf_tail /\ SlotOf(cb, k) \in Slot
  BY <1>1, <1>4 DEF SlotOf, Held, Slot
<1>8. \A k \in 1 .. Held(cb) : new.buffer[SlotOf(new, k)] = cb.buffer[SlotOf(cb, k)]
  BY <1>1, <1>3, <1>4, <1>5, <1>7
<1>9. new.buffer[SlotOf(new, Held(cb) + 1)] = b
  BY <1>1, <1>3, <1>4, <1>5, <1>6
<1>10. Contents(new) = Append(Contents(cb), b)
  <2> DEFINE s == Contents(new)
             t == Append(Contents(cb), b)
  <2>1. s \in Seq(Arrival) /\ Len(s) = Held(cb) + 1
    BY <1>3, <1>4, ContentsType
  <2>2. Contents(cb) \in Seq(Arrival) /\ Len(Contents(cb)) = Held(cb)
    BY ContentsType
  <2>3. t \in Seq(Arrival) /\ Len(t) = Held(cb) + 1
    BY <2>2
  <2>4. \A k \in 1 .. Held(cb) + 1 : s[k] = t[k]
    <3> TAKE k \in 1 .. Held(cb) + 1
    <3>1. CASE k <= Held(cb)
      <4>1. s[k] = new.buffer[SlotOf(new, k)]
        BY <1>4 DEF Contents
      <4>2. t[k] = Contents(cb)[k]
        BY <1>4, <2>2, <3>1
      <4>3. Contents(cb)[k] = cb.buffer[SlotOf(cb, k)]
        BY <1>4, <3>1 DEF Contents
      <4> QED
        BY <1>4, <1>8, <3>1, <4>1, <4>2, <4>3
    <3>2. CASE k = Held(cb) + 1
      <4>1. s[k] = new.buffer[SlotOf(new, k)]
        BY <1>4 DEF Contents
      <4>2. t[k] = b
        BY <1>4, <2>2, <3>2
      <4> QED
        BY <1>9, <3>2, <4>1, <4>2
    <3>3. k <= Held(cb) \/ k = Held(cb) + 1
      BY <1>4
    <3> HIDE DEF s, t
    <3> QED
      BY <3>1, <3>2, <3>3
  <2> HIDE DEF s, t
  <2>5. s = t
    BY <2>1, <2>3, <2>4, SeqEqual
  <2> QED
    BY <2>5 DEF s, t
<1> QED
  BY <1>3, <1>10 DEF new

(* What read_buffer does to a ring that is not empty: the byte is the head *)
(* of the contents, and giving its slot free leaves the tail.              *)
LEMMA ReadTakesHead ==
  ASSUME NEW cb \in Ring, ~buffer_empty(cb)
  PROVE  /\ FreeOldest(cb) \in Ring
         /\ Contents(cb) # <<>>
         /\ OldestByte(cb) = Head(Contents(cb))
         /\ Contents(FreeOldest(cb)) = Tail(Contents(cb))
<1> DEFINE new == FreeOldest(cb)
<1>1. /\ BUFFER_SIZE \in Nat /\ BUFFER_SIZE >= 2
      /\ cb.buf_head \in Slot /\ cb.buf_tail \in Slot /\ cb.buffer \in [Slot -> Arrival]
  BY BufferSizeAssumption DEF Ring
<1>2. NextSlot(cb.buf_head)
        = IF cb.buf_head + 1 = BUFFER_SIZE THEN 0 ELSE cb.buf_head + 1
  BY <1>1, NextSlotValue
<1>3. /\ new \in Ring
      /\ new.buf_head = NextSlot(cb.buf_head) /\ new.buf_tail = cb.buf_tail
      /\ new.buffer = cb.buffer
  <2>1. NextSlot(cb.buf_head) \in Slot
    BY <1>1, <1>2 DEF Slot
  <2> QED
    BY <1>1, <2>1 DEF FreeOldest, Ring
<1> HIDE DEF new
<1>4. Held(cb) \in 1 .. BUFFER_SIZE - 1
  BY <1>1, HeldRange
<1>5. Held(new) = Held(cb) - 1
  <2>1. CASE cb.buf_head + 1 = BUFFER_SIZE
    BY <1>1, <1>2, <1>3, <2>1 DEF Held, buffer_empty, Slot
  <2>2. CASE cb.buf_head + 1 < BUFFER_SIZE
    BY <1>1, <1>2, <1>3, <2>2 DEF Held, buffer_empty, Slot
  <2> QED
    BY <1>1, <2>1, <2>2 DEF Slot
<1>6. SlotOf(cb, 1) = cb.buf_head
  BY <1>1 DEF SlotOf, Slot
<1>7. \A k \in 1 .. Held(new) : SlotOf(new, k) = SlotOf(cb, k + 1)
  BY <1>1, <1>2, <1>3, <1>4, <1>5 DEF SlotOf, Slot
<1>8. Contents(cb) \in Seq(Arrival) /\ Len(Contents(cb)) = Held(cb)
  BY ContentsType
<1>9. Contents(cb) # <<>>
  BY <1>4, <1>8
<1>10. OldestByte(cb) = Head(Contents(cb))
  <2>1. Contents(cb)[1] = cb.buffer[SlotOf(cb, 1)]
    BY <1>4 DEF Contents
  <2>2. Head(Contents(cb)) = Contents(cb)[1]
    BY <1>8, <1>9
  <2> QED
    BY <1>6, <2>1, <2>2 DEF OldestByte
<1>11. Contents(new) = Tail(Contents(cb))
  <2> DEFINE s == Contents(new)
             t == Tail(Contents(cb))
  <2>1. s \in Seq(Arrival) /\ Len(s) = Held(cb) - 1
    BY <1>3, <1>5, ContentsType
  <2>2. t \in Seq(Arrival) /\ Len(t) = Held(cb) - 1
    BY <1>8, <1>9
  <2>3. \A k \in 1 .. Held(cb) - 1 : s[k] = t[k]
    <3> TAKE k \in 1 .. Held(cb) - 1
    <3>1. s[k] = cb.buffer[SlotOf(cb, k + 1)]
      BY <1>3, <1>5, <1>7 DEF Contents
    <3>2. t[k] = Contents(cb)[k + 1]
      BY <1>4, <1>8, <1>9
    <3>3. Contents(cb)[k + 1] = cb.buffer[SlotOf(cb, k + 1)]
      BY <1>4 DEF Contents
    <3> HIDE DEF s, t
    <3> QED
      BY <3>1, <3>2, <3>3
  <2> HIDE DEF s, t
  <2>4. s = t
    BY <2>1, <2>2, <2>3, SeqEqual
  <2> QED
    BY <2>4 DEF s, t
<1> QED
  BY <1>3, <1>9, <1>10, <1>11 DEF new

----------------------------------------------------------------------------
(* The invariant: between the load of a byte and the release of its slot,  *)
(* the ring is not empty and the byte loaded is still its oldest.  It is   *)
(* this that an interrupt in between must not disturb.                     *)
LoadedIsOldest ==
  pc = "advance" =>
    ~buffer_empty(usartRxBuffer) /\ reader = OldestByte(usartRxBuffer)

RingInv ==
  /\ usartRxBuffer \in Ring
  /\ arrived \in 0 .. MaxBytes
  /\ LoadedIsOldest

LEMMA InitRingInv == Init => RingInv
  BY BufferSizeAssumption, LengthAssumption
  DEF Init, RingInv, Ring, Slot, Arrival, LoadedIsOldest

(* What the receive interrupt does to the ring.                            *)
LEMMA ReceiveStep ==
  ASSUME RingInv, USART_RX_vect
  PROVE  RingInv' /\ Fifo!Next
<1>1. arrived' \in Arrival /\ usartRxBuffer \in Ring /\ taken' = taken /\ pc' = pc
        /\ reader' = reader
  BY LengthAssumption DEF RingInv, USART_RX_vect, Arrival, localVars
<1>2. CASE buffer_full(usartRxBuffer)
  <2>1. usartRxBuffer' = usartRxBuffer /\ lost' = lost + 1
    BY <1>2 DEF USART_RX_vect
  <2>2. Len(Contents(usartRxBuffer)) = BUFFER_SIZE - 1
    BY <1>1, <1>2, ContentsType, HeldRange
  <2>3. Fifo!Lose
    BY <1>1, <2>1, <2>2 DEF Fifo!Lose
  <2> QED
    BY <1>1, <2>1, <2>3 DEF RingInv, LoadedIsOldest, Arrival, Fifo!Next
<1>3. CASE ~buffer_full(usartRxBuffer)
  <2>1. usartRxBuffer' = write_buffer(usartRxBuffer, arrived') /\ lost' = lost
    BY <1>3 DEF USART_RX_vect
  <2>2. /\ usartRxBuffer' \in Ring
        /\ Contents(usartRxBuffer') = Append(Contents(usartRxBuffer), arrived')
    BY <1>1, <1>3, <2>1, WriteAppends
  <2>3. Len(Contents(usartRxBuffer)) < BUFFER_SIZE - 1
    BY <1>1, <1>3, ContentsType, HeldRange, BufferSizeAssumption
  <2>4. Fifo!Accept(arrived')
    BY <1>1, <2>1, <2>2, <2>3 DEF Fifo!Accept
  <2>5. LoadedIsOldest'
    <3> SUFFICES ASSUME pc = "advance"
                 PROVE  ~buffer_empty(usartRxBuffer') /\ reader = OldestByte(usartRxBuffer')
      BY <1>1 DEF LoadedIsOldest
    <3>1. ~buffer_empty(usartRxBuffer) /\ reader = OldestByte(usartRxBuffer)
      BY DEF RingInv, LoadedIsOldest
    <3>2. /\ Contents(usartRxBuffer) \in Seq(Arrival)
          /\ Contents(usartRxBuffer) # <<>>
          /\ OldestByte(usartRxBuffer) = Head(Contents(usartRxBuffer))
      BY <1>1, <3>1, ContentsType, ReadTakesHead
    <3>3. /\ Contents(usartRxBuffer') # <<>>
          /\ Head(Contents(usartRxBuffer')) = Head(Contents(usartRxBuffer))
      BY <1>1, <2>2, <3>2
    <3>4. ~buffer_empty(usartRxBuffer')
      BY <2>2, <3>3, ContentsType, HeldRange
    <3>5. OldestByte(usartRxBuffer') = Head(Contents(usartRxBuffer'))
      BY <2>2, <3>4, ReadTakesHead
    <3> QED
      BY <3>1, <3>2, <3>3, <3>4, <3>5
  <2> QED
    BY <1>1, <2>2, <2>4, <2>5 DEF RingInv, Arrival, Fifo!Next
<1> QED
  BY <1>2, <1>3

(* The release of a slot is the moment the byte is taken.                  *)
LEMMA AdvanceStep ==
  ASSUME RingInv, Advance
  PROVE  RingInv' /\ Fifo!Next
<1>1. /\ usartRxBuffer \in Ring
      /\ ~buffer_empty(usartRxBuffer) /\ reader = OldestByte(usartRxBuffer)
  BY DEF RingInv, LoadedIsOldest, Advance
<1>2. /\ usartRxBuffer' = FreeOldest(usartRxBuffer)
      /\ taken' = Append(taken, reader) /\ lost' = lost /\ arrived' = arrived /\ pc' = "store"
  BY DEF Advance
<1>3. Fifo!Take
  BY <1>1, <1>2, ReadTakesHead DEF Fifo!Take
<1> QED
  BY <1>1, <1>2, <1>3, ReadTakesHead DEF RingInv, LoadedIsOldest, Fifo!Next

(* Every other step leaves the queue alone.                                *)
LEMMA OtherStep ==
  ASSUME RingInv, [Next]_vars, ~USART_RX_vect, ~Advance
  PROVE  RingInv' /\ UNCHANGED <<usartRxBuffer, taken, lost, arrived>>
<1>1. UNCHANGED <<usartRxBuffer, taken, lost, arrived>>
  BY DEF Next, Body, vars, ringVars, TIMER1_COMPA_vect, UART_receive, LoadClockByte,
         SetStart, Test, Load, Store, KeepWaiting, Return
<1>2. LoadedIsOldest'
  <2>1. CASE Load
    BY <1>1, <2>1 DEF Load, LoadedIsOldest
  <2>2. CASE ~Load
    <3>1. pc' = "advance" => pc = "advance" /\ reader' = reader
      BY <2>2 DEF Next, Body, vars, localVars, TIMER1_COMPA_vect, UART_receive,
                  LoadClockByte, SetStart, Test, Store, KeepWaiting, Return, CallMillis,
                  ReadingStart, ReadingNow
    <3> QED
      BY <1>1, <3>1 DEF RingInv, LoadedIsOldest
  <2> QED
    BY <2>1, <2>2
<1> QED
  BY <1>1, <1>2 DEF RingInv

THEOREM RingInvariance == Spec => []RingInv
<1>1. RingInv /\ [Next]_vars => RingInv'
  BY ReceiveStep, AdvanceStep, OtherStep
<1> QED
  BY InitRingInv, <1>1, PTL DEF Spec

(* The receive interrupt and read_buffer, interleaved in any way, implement *)
(* a queue of BUFFER_SIZE - 1 bytes for every ring size: no byte that was   *)
(* accepted is lost, repeated or overtaken on its way to UART_receive.      *)
THEOREM QueueImplemented == Spec => ImplementsFifo
<1>1. Init => Fifo!Init
  <2> SUFFICES ASSUME Init PROVE Fifo!Init
    OBVIOUS
  <2>1. usartRxBuffer \in Ring /\ Held(usartRxBuffer) = 0
    BY InitRingInv DEF Init, RingInv, Held
  <2>2. Contents(usartRxBuffer) = <<>>
    BY <2>1, ContentsType, EmptySeq
  <2> QED
    BY <2>2 DEF Init, Fifo!Init
<1>2. RingInv /\ [Next]_vars => [Fifo!Next]_(Fifo!vars)
  <2> SUFFICES ASSUME RingInv, [Next]_vars PROVE [Fifo!Next]_(Fifo!vars)
    OBVIOUS
  <2>1. CASE USART_RX_vect
    BY <2>1, ReceiveStep
  <2>2. CASE Advance
    BY <2>2, AdvanceStep
  <2>3. CASE ~USART_RX_vect /\ ~Advance
    BY <2>3, OtherStep DEF Fifo!vars
  <2> QED
    BY <2>1, <2>2, <2>3
<1> QED
  BY <1>1, <1>2, RingInvariance, PTL DEF Spec, ImplementsFifo, Fifo!Spec

----------------------------------------------------------------------------
(* What a call has in hand.  The byte in reader has been taken from the    *)
(* ring and not yet been counted while pc is at the store; everything      *)
(* counted before it is in the array, unless a byte did not fit.           *)
Uncounted == IF pc = "store" THEN 1 ELSE 0

InArray ==
  /\ Len(data) = byteCount
  /\ \A k \in 1 .. byteCount : data[k] = taken[Len(taken) - Uncounted - byteCount + k]

DeliveryInv ==
  /\ taken \in Seq(Arrival) /\ data \in Seq(Arrival) /\ byteCount \in Nat
  /\ pc = "load" => ~buffer_empty(usartRxBuffer)
  /\ pc = "store" => Len(taken) > 0 /\ reader = taken[Len(taken)]
  /\ Len(taken) >= byteCount + Uncounted
  /\ overflow \in BOOLEAN
  /\ ~overflow => InArray

LEMMA InitDeliveryInv == Init => DeliveryInv
<1> SUFFICES ASSUME Init PROVE DeliveryInv
  OBVIOUS
<1>1. pc = "idle" /\ taken = <<>> /\ data = <<>> /\ byteCount = 0 /\ overflow = FALSE
  BY DEF Init
<1>2. InArray
  BY <1>1 DEF InArray
<1>3. overflow \in BOOLEAN
  BY <1>1, Zenon
<1>4. taken \in Seq(Arrival) /\ data \in Seq(Arrival) /\ Len(taken) = 0
  BY <1>1
<1> QED
  BY <1>1, <1>2, <1>3, <1>4, SMT DEF DeliveryInv, Uncounted

(* The receive interrupt adds to the ring: it does not empty it.           *)
LEMMA ReceiveDelivery ==
  ASSUME RingInv, DeliveryInv, USART_RX_vect
  PROVE  DeliveryInv'
<1>1. UNCHANGED <<localVars, pc, taken>>
  BY DEF USART_RX_vect
<1>2. ~buffer_empty(usartRxBuffer) => ~buffer_empty(usartRxBuffer')
  <2>1. CASE buffer_full(usartRxBuffer)
    BY <2>1 DEF USART_RX_vect
  <2>2. CASE ~buffer_full(usartRxBuffer)
    <3>1. arrived' \in Arrival /\ usartRxBuffer \in Ring
      BY LengthAssumption DEF RingInv, USART_RX_vect, Arrival
    <3>2. usartRxBuffer' = write_buffer(usartRxBuffer, arrived')
      BY <2>2 DEF USART_RX_vect
    <3>3. /\ usartRxBuffer' \in Ring
          /\ Contents(usartRxBuffer') = Append(Contents(usartRxBuffer), arrived')
      BY <2>2, <3>1, <3>2, WriteAppends
    <3>4. /\ Contents(usartRxBuffer) \in Seq(Arrival)
          /\ Len(Contents(usartRxBuffer')) = Held(usartRxBuffer')
      BY <3>1, <3>3, ContentsType
    <3>5. Held(usartRxBuffer') > 0
      BY <3>1, <3>3, <3>4
    <3> QED
      BY <3>3, <3>5, HeldRange
  <2> QED
    BY <2>1, <2>2
<1> QED
  BY <1>1, <1>2 DEF DeliveryInv, InArray, Uncounted, localVars

LEMMA TakeDelivery ==
  ASSUME RingInv, DeliveryInv, Advance
  PROVE  DeliveryInv'
<1>1. /\ taken' = Append(taken, reader) /\ UNCHANGED <<reader, byteCount, overflow, data>>
      /\ pc = "advance" /\ pc' = "store"
  BY DEF Advance, localVars
<1>2. reader \in Arrival
  BY <1>1 DEF RingInv, LoadedIsOldest, Ring, OldestByte
<1>3. /\ taken \in Seq(Arrival) /\ data \in Seq(Arrival) /\ byteCount \in Nat
      /\ Len(taken) >= byteCount /\ overflow \in BOOLEAN
      /\ ~overflow => /\ Len(data) = byteCount
                      /\ \A k \in 1 .. byteCount : data[k] = taken[Len(taken) - byteCount + k]
  BY <1>1 DEF DeliveryInv, InArray, Uncounted
<1>4. /\ taken' \in Seq(Arrival) /\ Len(taken') = Len(taken) + 1
      /\ taken'[Len(taken')] = reader
      /\ \A k \in 1 .. Len(taken) : taken'[k] = taken[k]
  BY <1>1, <1>2, <1>3
<1>5. \A k \in 1 .. byteCount :
        taken'[Len(taken') - 1 - byteCount + k] = taken[Len(taken) - byteCount + k]
  BY <1>3, <1>4
<1> QED
  BY <1>1, <1>3, <1>4, <1>5 DEF DeliveryInv, InArray, Uncounted

LEMMA StoreDelivery ==
  ASSUME DeliveryInv, Store
  PROVE  DeliveryInv'
<1>1. /\ pc = "store" /\ pc' = "restart" /\ taken' = taken /\ byteCount' = byteCount + 1
      /\ \/ data' = Append(data, reader) /\ overflow' = overflow
         \/ overflow' = TRUE /\ data' = data
  BY DEF Store, CallMillis
<1>2. /\ taken \in Seq(Arrival) /\ data \in Seq(Arrival) /\ byteCount \in Nat
      /\ Len(taken) > 0 /\ reader = taken[Len(taken)] /\ reader \in Arrival
      /\ Len(taken) >= byteCount + 1 /\ overflow \in BOOLEAN
      /\ ~overflow => InArray
  BY <1>1 DEF DeliveryInv, Uncounted
<1>3. overflow' \in BOOLEAN
  BY <1>1, <1>2, Zenon
<1>4. data' \in Seq(Arrival)
  BY <1>1, <1>2
<1>5. ~overflow' => InArray'
  <2> SUFFICES ASSUME ~overflow' PROVE InArray'
    OBVIOUS
  <2>1. data' = Append(data, reader) /\ ~overflow
    BY <1>1
  <2>2. /\ Len(data) = byteCount
        /\ \A k \in 1 .. byteCount : data[k] = taken[Len(taken) - 1 - byteCount + k]
    BY <1>1, <1>2, <2>1 DEF InArray, Uncounted
  <2>3. /\ Len(data') = byteCount + 1 /\ data'[byteCount + 1] = reader
        /\ \A k \in 1 .. byteCount : data'[k] = data[k]
    BY <1>2, <2>1, <2>2
  <2>4. \A k \in 1 .. byteCount + 1 : data'[k] = taken[Len(taken) - (byteCount + 1) + k]
    <3> TAKE k \in 1 .. byteCount + 1
    <3>1. CASE k = byteCount + 1
      BY <1>2, <2>3, <3>1
    <3>2. CASE k \in 1 .. byteCount
      BY <1>2, <2>2, <2>3, <3>2
    <3> QED
      BY <1>2, <3>1, <3>2
  <2> QED
    BY <1>1, <1>2, <2>3, <2>4 DEF InArray, Uncounted
<1> QED
  BY <1>1, <1>2, <1>3, <1>4, <1>5 DEF DeliveryInv, Uncounted

LEMMA CallDelivery ==
  ASSUME DeliveryInv, NEW n \in Length, UART_receive(n)
  PROVE  DeliveryInv'
<1>1. /\ pc' = "start" /\ byteCount' = 0 /\ overflow' = FALSE /\ data' = <<>>
      /\ taken' = taken /\ taken \in Seq(Arrival)
  BY DEF DeliveryInv, UART_receive, CallMillis
<1>2. InArray'
  BY <1>1 DEF InArray
<1>3. overflow' \in BOOLEAN
  BY <1>1, Zenon
<1>4. taken' \in Seq(Arrival) /\ data' \in Seq(Arrival) /\ Len(taken') \in Nat
  BY <1>1
<1> QED
  BY <1>1, <1>2, <1>3, <1>4, SMT DEF DeliveryInv, Uncounted

(* The steps that neither take nor count a byte.                           *)
LEMMA WaitDelivery ==
  ASSUME DeliveryInv,
         \/ TIMER1_COMPA_vect \/ LoadClockByte \/ SetStart \/ Test \/ Load
         \/ KeepWaiting \/ Return \/ UNCHANGED vars
  PROVE  DeliveryInv'
<1>1. UNCHANGED <<usartRxBuffer, taken, byteCount, overflow, data>>
  BY DEF vars, ringVars, localVars, TIMER1_COMPA_vect, LoadClockByte, SetStart, Test, Load,
         KeepWaiting, Return
<1>2. pc' = "load" => ~buffer_empty(usartRxBuffer)
  BY DEF DeliveryInv, vars, TIMER1_COMPA_vect, LoadClockByte, SetStart, Test, Load,
         KeepWaiting, Return, CallMillis
<1>3. (pc' = "store") = (pc = "store")
  BY DEF DeliveryInv, vars, TIMER1_COMPA_vect, LoadClockByte, SetStart, Test, Load,
         KeepWaiting, Return, CallMillis, ReadingStart, ReadingNow
<1>4. pc' = "store" => reader' = reader
  BY DEF DeliveryInv, vars, localVars, TIMER1_COMPA_vect, LoadClockByte, SetStart, Test,
         Load, KeepWaiting, Return, CallMillis
<1> QED
  BY <1>1, <1>2, <1>3, <1>4 DEF DeliveryInv, InArray, Uncounted

LEMMA NextDeliveryInv == RingInv /\ DeliveryInv /\ [Next]_vars => DeliveryInv'
BY ReceiveDelivery, TakeDelivery, StoreDelivery, CallDelivery, WaitDelivery
DEF Next, Body

(* A call of UART_receive delivers what it counts, in order, wherever the  *)
(* interrupts fall, for every ring size, clock and caller's array.         *)
THEOREM Delivery == Spec => []CountsWhatItDelivers
<1>1. DeliveryInv => CountsWhatItDelivers
  <2> SUFFICES ASSUME DeliveryInv, pc = "idle", Result # -1
               PROVE  /\ Len(data) = byteCount
                      /\ Len(taken) >= byteCount
                      /\ data = SubSeq(taken, Len(taken) - byteCount + 1, Len(taken))
    BY DEF CountsWhatItDelivers
  <2>1. ~overflow
    BY DEF DeliveryInv, Result
  <2>2. /\ taken \in Seq(Arrival) /\ data \in Seq(Arrival) /\ byteCount \in Nat
        /\ Len(taken) >= byteCount /\ Len(data) = byteCount
        /\ \A k \in 1 .. byteCount : data[k] = taken[Len(taken) - byteCount + k]
    BY <2>1 DEF DeliveryInv, InArray, Uncounted
  <2> DEFINE last == SubSeq(taken, Len(taken) - byteCount + 1, Len(taken))
  <2>3. /\ last \in Seq(Arrival) /\ Len(last) = byteCount
        /\ \A k \in 1 .. byteCount : last[k] = taken[Len(taken) - byteCount + k]
    BY <2>2
  <2> HIDE DEF last
  <2>4. data = last
    BY <2>2, <2>3, SeqEqual
  <2> QED
    BY <2>2, <2>4 DEF last
<1> QED
  BY InitDeliveryInv, NextDeliveryInv, <1>1, RingInvariance, PTL DEF Spec

----------------------------------------------------------------------------
(* The bytes of the counter.                                               *)

LEMMA NatSetInduction ==
  ASSUME NEW T, 0 \in T, \A n \in Nat : n \in T => n + 1 \in T
  PROVE  \A n \in Nat : n \in T
<1> DEFINE bad == Nat \ T
           R == OpToRel(<, Nat)
<1>1. SUFFICES ASSUME bad # {} PROVE FALSE
  OBVIOUS
<1>2. IsWellFoundedOn(R, Nat)
  BY NatLessThanWellFounded
<1>3. bad \subseteq Nat
  OBVIOUS
<1> HIDE DEF R, bad
<1>4. PICK x \in bad : \A y \in bad : ~(<<y, x>> \in R)
  BY <1>1, <1>2, <1>3, WFMin, Zenon
<1>5. x \in Nat /\ x \notin T /\ x # 0
  BY DEF bad
<1>6. x - 1 \in Nat /\ x - 1 \notin T
  BY <1>5
<1>7. <<x - 1, x>> \in R
  BY <1>5, <1>6 DEF R, OpToRel
<1>8. x - 1 \in bad
  BY <1>6 DEF bad
<1> QED
  BY <1>4, <1>7, <1>8

IsWeight(f, n) ==
  /\ f \in [0 .. n -> Nat \ {0}]
  /\ f[0] = 1
  /\ \A k \in 1 .. n : f[k] = Radix * f[k - 1]

LEMMA WeightUnfolded ==
  /\ Weight \in [0 .. Width -> Nat \ {0}]
  /\ Weight[0] = 1
  /\ \A k \in 1 .. Width : Weight[k] = Radix * Weight[k - 1]
<1> DEFINE T == {n \in Nat : \E f \in [0 .. n -> Nat \ {0}] : IsWeight(f, n)}
<1>1. Radix \in Nat \ {0} /\ Width \in Nat
  BY ClockAssumption
<1>2. 0 \in T
  <2> DEFINE f == [k \in 0 .. 0 |-> 1]
  <2>1. IsWeight(f, 0)
    BY DEF IsWeight
  <2>2. f \in [0 .. 0 -> Nat \ {0}]
    OBVIOUS
  <2> QED BY <2>1, <2>2
<1>3. ASSUME NEW n \in Nat, n \in T PROVE n + 1 \in T
  <2>1. PICK f \in [0 .. n -> Nat \ {0}] : IsWeight(f, n)
    BY <1>3
  <2> DEFINE g == [k \in 0 .. n + 1 |-> IF k =< n THEN f[k] ELSE Radix * f[n]]
  <2>2. f[n] \in Nat \ {0} /\ Radix * f[n] \in Nat \ {0}
    BY <1>1, <2>1
  <2>3. g \in [0 .. n + 1 -> Nat \ {0}]
    BY <2>1, <2>2
  <2>4. g[0] = 1
    BY <2>1 DEF IsWeight
  <2>5. \A k \in 1 .. n + 1 : g[k] = Radix * g[k - 1]
    <3> TAKE k \in 1 .. n + 1
    <3>1. CASE k = n + 1
      <4>1. g[k] = Radix * f[n] /\ g[k - 1] = f[n]
        BY <3>1
      <4> QED BY <4>1
    <3>2. CASE k \in 1 .. n
      <4>1. g[k] = f[k] /\ g[k - 1] = f[k - 1]
        BY <3>2
      <4>2. f[k] = Radix * f[k - 1]
        BY <2>1, <3>2 DEF IsWeight
      <4> QED BY <4>1, <4>2
    <3> QED BY <3>1, <3>2
  <2>6. IsWeight(g, n + 1)
    BY <2>3, <2>4, <2>5 DEF IsWeight
  <2> QED BY <2>3, <2>6
<1>4. Width \in T
  <2> HIDE DEF T
  <2> QED BY <1>1, <1>2, <1>3, NatSetInduction
<1>5. PICK f \in [0 .. Width -> Nat \ {0}] : IsWeight(f, Width)
  BY <1>4
<1>6. f = [k \in 0 .. Width |-> IF k = 0 THEN 1 ELSE Radix * f[k - 1]]
  BY <1>1, <1>5 DEF IsWeight
<1>7. Weight = [k \in 0 .. Width |-> IF k = 0 THEN 1 ELSE Radix * Weight[k - 1]]
  <2>1. Weight = CHOOSE h : h = [k \in 0 .. Width |-> IF k = 0 THEN 1 ELSE Radix * h[k - 1]]
    BY Zenon DEF Weight
  <2> QED BY <1>6, <2>1, Zenon
<1>8. Weight[0] = 1 /\ \A k \in 1 .. Width : Weight[k] = Radix * Weight[k - 1]
  BY <1>1, <1>7
<1>9. \A k \in Nat : k =< Width => Weight[k] \in Nat \ {0}
  <2> DEFINE U == {k \in Nat : k =< Width => Weight[k] \in Nat \ {0}}
  <2>1. 0 \in U
    BY <1>8
  <2>2. ASSUME NEW k \in Nat, k \in U PROVE k + 1 \in U
    <3> SUFFICES ASSUME k + 1 =< Width PROVE Weight[k + 1] \in Nat \ {0}
      OBVIOUS
    <3>1. Weight[k] \in Nat \ {0}
      BY <1>1, <2>2
    <3>2. Weight[k + 1] = Radix * Weight[k]
      BY <1>1, <1>8
    <3> QED BY <1>1, <3>1, <3>2
  <2> HIDE DEF U
  <2>3. \A k \in Nat : k \in U
    BY <2>1, <2>2, NatSetInduction
  <2> QED BY <2>3 DEF U
<1>10. Weight \in [0 .. Width -> Nat \ {0}]
  <2>1. \A k \in 0 .. Width : Weight[k] \in Nat \ {0}
    BY <1>1, <1>9
  <2>2. Weight = [k \in 0 .. Width |-> Weight[k]]
    BY <1>7, Zenon
  <2> QED BY <2>1, <2>2
<1> QED BY <1>8, <1>10

(* The counter's range is a multiple of every byte's weight.               *)
LEMMA WeightDivides ==
  ASSUME NEW k \in 0 .. Width
  PROVE  \E w \in Nat \ {0} : ClockRange = Weight[k] * w
<1>1. Radix \in Nat \ {0} /\ Width \in Nat
  BY ClockAssumption
<1> DEFINE T == {n \in Nat : n =< Width =>
                   \E w \in Nat \ {0} : ClockRange = Weight[Width - n] * w}
<1>2. 0 \in T
  <2>1. Weight[Width] \in Nat \ {0} /\ Width - 0 = Width
    BY <1>1, WeightUnfolded
  <2>2. ClockRange = Weight[Width] * 1
    BY <2>1 DEF ClockRange
  <2> QED BY <2>1, <2>2
<1>3. ASSUME NEW n \in Nat, n \in T PROVE n + 1 \in T
  <2> SUFFICES ASSUME n + 1 =< Width
               PROVE  \E w \in Nat \ {0} : ClockRange = Weight[Width - (n + 1)] * w
    OBVIOUS
  <2>1. PICK w \in Nat \ {0} : ClockRange = Weight[Width - n] * w
    BY <1>1, <1>3
  <2> DEFINE j == Width - (n + 1)
  <2>2. Width - n \in 1 .. Width /\ (Width - n) - 1 = j /\ j \in 0 .. Width
    BY <1>1
  <2>3. Weight[Width - n] = Radix * Weight[j] /\ Weight[j] \in Nat \ {0}
    BY <2>2, WeightUnfolded
  <2> HIDE DEF j
  <2>4. ClockRange = Weight[j] * (Radix * w) /\ Radix * w \in Nat \ {0}
    BY <1>1, <2>1, <2>3
  <2> QED BY <2>4 DEF j
<1> HIDE DEF T
<1>4. \A n \in Nat : n \in T
  BY <1>2, <1>3, NatSetInduction
<1>5. Width - k \in T /\ Width - k =< Width /\ Width - (Width - k) = k
  BY <1>1, <1>4
<1> QED BY <1>5 DEF T

LEMMA ClockRangeType == ClockRange \in Nat \ {0}
BY ClockAssumption, WeightUnfolded DEF ClockRange

(* The value the load in progress will give if no byte it has yet to load  *)
(* changes: the bytes loaded, and the others as they are now.              *)
Reading == (timerMillis \div Weight[loaded]) * Weight[loaded] + ms

LEMMA DivideTwice ==
  ASSUME NEW t \in Nat, NEW v \in Nat \ {0}, NEW r \in Nat \ {0}
  PROVE  t \div (r * v) = (t \div v) \div r
<1> DEFINE q == t \div v
           low == t % v
           q2 == q \div r
           digit == q % r
<1>1. q \in Nat /\ low \in 0 .. v - 1 /\ t = v * q + low
  OBVIOUS
<1>2. q2 \in Nat /\ digit \in 0 .. r - 1 /\ q = r * q2 + digit
  BY <1>1
<1> HIDE DEF q, low, q2, digit
<1>3. t = (r * v) * q2 + (v * digit + low)
  BY <1>1, <1>2
<1>4. v * digit + low \in 0 .. r * v - 1
  BY <1>1, <1>2
<1>5. r * v \in Nat \ {0}
  OBVIOUS
<1>6. t \div (r * v) = q2
  BY <1>2, <1>3, <1>4, <1>5
<1> QED BY <1>6 DEF q2, q

(* One byte more: what has been loaded stays below its range, and the      *)
(* value the load will give is the same.                                   *)
LEMMA OneByteMore ==
  ASSUME NEW t \in Nat, NEW v \in Nat \ {0}, NEW r \in Nat \ {0}, NEW x \in 0 .. v - 1
  PROVE  /\ x + v * ((t \div v) % r) \in 0 .. r * v - 1
         /\ (t \div (r * v)) * (r * v) + (x + v * ((t \div v) % r)) = (t \div v) * v + x
<1> DEFINE q == t \div v
           q2 == q \div r
           digit == q % r
<1>1. q \in Nat /\ q2 \in Nat /\ digit \in 0 .. r - 1 /\ q = r * q2 + digit
  OBVIOUS
<1>2. t \div (r * v) = q2
  BY DivideTwice
<1> HIDE DEF q, q2, digit
<1>3. x + v * digit \in 0 .. r * v - 1
  <2>1. v * digit =< v * (r - 1) /\ v * digit >= 0
    BY <1>1
  <2>2. v * (r - 1) = r * v - v
    OBVIOUS
  <2>3. v * digit \in Int /\ r * v \in Int
    BY <1>1
  <2> QED BY <2>1, <2>2, <2>3
<1>4. q2 * (r * v) + (x + v * digit) = q * v + x
  <2>1. q * v = (r * q2) * v + digit * v
    BY <1>1
  <2>2. (r * q2) * v = q2 * (r * v) /\ digit * v = v * digit
    BY <1>1
  <2>3. q2 * (r * v) \in Int /\ v * digit \in Int
    BY <1>1
  <2> QED BY <2>1, <2>2, <2>3
<1> QED BY <1>2, <1>3, <1>4 DEF q, digit

(* A tick that changes no byte yet to be loaded does not turn the counter. *)
LEMMA NoCarryNoTurn ==
  ASSUME NEW t \in 0 .. ClockRange - 1, NEW k \in 0 .. Width,
         (t + 1) \div Weight[k] = t \div Weight[k]
  PROVE  (t + 1) % ClockRange = t + 1
<1> DEFINE v == Weight[k]
<1>1. PICK w \in Nat \ {0} : ClockRange = v * w
  BY WeightDivides
<1>2. v \in Nat \ {0} /\ ClockRange \in Nat \ {0}
  BY WeightUnfolded, ClockRangeType
<1> HIDE DEF v
<1>3. (t + 1) \div v = t \div v
  BY DEF v
<1>4. t + 1 # ClockRange
  <2> SUFFICES ASSUME t + 1 = v * w PROVE FALSE
    BY <1>1
  <2>1. (t + 1) \div v = w
    BY <1>2
  <2>2. t = v * (w - 1) + (v - 1)
    BY <1>2
  <2>3. t \div v = w - 1
    <3>1. v - 1 \in 0 .. v - 1 /\ w - 1 \in Nat /\ t \in Nat
      BY <1>2
    <3> QED BY <1>2, <2>2, <3>1
  <2> QED BY <1>3, <2>1, <2>3
<1>5. t + 1 \in 0 .. ClockRange - 1
  BY <1>2, <1>4
<1> QED BY <1>2, <1>5

(* Readings of a clock that turns, compared.                               *)
LEMMA RemainderOfSum ==
  ASSUME NEW R \in Nat \ {0}, NEW a \in 0 .. R - 1, NEW k \in Int
  PROVE  (a + k * R) % R = a
<1> DEFINE x == a + k * R
           q == x \div R
           r == x % R
<1>1. x \in Int /\ q \in Int
  OBVIOUS
<1>2. r \in 0 .. R - 1 /\ x = R * q + r
  BY <1>1
<1>3. a - r = R * (q - k)
  BY <1>1, <1>2
<1>4. CASE q - k >= 1
  <2>1. R * (q - k) >= R
    BY <1>1, <1>4
  <2> QED BY <2>1, <1>2, <1>3
<1>5. CASE q - k <= -1
  <2>1. R * (q - k) <= -R
    BY <1>1, <1>5
  <2> QED BY <2>1, <1>2, <1>3
<1>6. CASE q - k = 0
  BY <1>1, <1>2, <1>3, <1>6
<1> QED BY <1>1, <1>4, <1>5, <1>6

Ago(value, n, now) == \E turns \in Int : value + n = now + turns * ClockRange

LEMMA AgoTick ==
  ASSUME NEW value \in Int, NEW n \in Nat, NEW now \in 0 .. ClockRange - 1, Ago(value, n, now)
  PROVE  Ago(value, n + 1, (now + 1) % ClockRange)
<1>1. PICK turns \in Int : value + n = now + turns * ClockRange
  BY DEF Ago
<1>2. ClockRange \in Nat \ {0} /\ now \in Int
  BY ClockRangeType
<1>3. CASE now + 1 < ClockRange
  <2>1. (now + 1) % ClockRange = now + 1
    BY <1>2, <1>3
  <2>2. turns * ClockRange \in Int
    BY <1>1, <1>2
  <2>3. value + (n + 1) = (now + 1) + turns * ClockRange
    BY <1>1, <1>2, <2>2
  <2> QED BY <1>1, <2>1, <2>3 DEF Ago
<1>4. CASE now + 1 = ClockRange
  <2>1. (now + 1) % ClockRange = 0
    BY <1>2, <1>4
  <2>2. (turns + 1) * ClockRange = turns * ClockRange + ClockRange /\ turns * ClockRange \in Int
    BY <1>1, <1>2
  <2>3. value + (n + 1) = 0 + (turns + 1) * ClockRange
    BY <1>1, <1>2, <1>4, <2>2
  <2>4. turns + 1 \in Int
    BY <1>1
  <2> QED BY <2>1, <2>3, <2>4 DEF Ago
<1> QED BY <1>2, <1>3, <1>4

LEMMA AgoNow == ASSUME NEW now \in Int PROVE Ago(now, 0, now)
<1>1. now + 0 = now + 0 * ClockRange
  BY ClockRangeType
<1> QED BY <1>1 DEF Ago

(* The difference of two readings is at most the time between them.        *)
LEMMA AgoDifference ==
  ASSUME NEW first \in Int, NEW second \in Int, NEW a \in Nat, NEW b \in 0 .. a,
         NEW now \in Int, Ago(first, a, now), Ago(second, b, now)
  PROVE  (second - first) % ClockRange =< a - b
<1>1. PICK t \in Int : first + a = now + t * ClockRange
  BY DEF Ago
<1>2. PICK u \in Int : second + b = now + u * ClockRange
  BY DEF Ago
<1>3. ClockRange \in Nat \ {0} /\ b \in Nat /\ a - b \in Nat
  BY ClockRangeType
<1>4. second - first = (a - b) + (u - t) * ClockRange
  <2>1. (u - t) * ClockRange = u * ClockRange - t * ClockRange
    BY <1>1, <1>2, <1>3
  <2>2. u * ClockRange \in Int /\ t * ClockRange \in Int
    BY <1>1, <1>2, <1>3
  <2> QED BY <1>1, <1>2, <1>3, <2>1, <2>2
<1>5. CASE a - b < ClockRange
  <2>1. u - t \in Int /\ a - b \in 0 .. ClockRange - 1
    BY <1>1, <1>2, <1>3, <1>5
  <2>2. ((a - b) + (u - t) * ClockRange) % ClockRange = a - b
    BY <1>3, <2>1, RemainderOfSum
  <2> QED BY <1>3, <1>4, <2>2
<1>6. CASE a - b >= ClockRange
  <2>1. second - first \in Int
    OBVIOUS
  <2>2. (second - first) % ClockRange < ClockRange /\ (second - first) % ClockRange \in Int
    BY <1>3, <2>1
  <2> QED BY <1>3, <1>6, <2>2
<1> QED BY <1>3, <1>5, <1>6

----------------------------------------------------------------------------
(* The types.  What has been loaded of the counter is below the weight of  *)
(* the next byte.                                                          *)
ClockTypes ==
  /\ timerMillis \in 0 .. ClockRange - 1 /\ start_time \in 0 .. ClockRange - 1
  /\ loaded \in 0 .. Width /\ ms \in 0 .. Weight[loaded] - 1
  /\ pc \in Label /\ quiet \in 0 .. QuietLimit

HistoryTypes == torn \in BOOLEAN /\ tornNow \in BOOLEAN /\ looked \in BOOLEAN

CallTypes == lost \in Nat /\ length \in Length \cup {0} /\ reader \in Arrival

LEMMA CallMillisTypes == 0 \in 0 .. Width /\ 0 \in 0 .. Weight[0] - 1
BY ClockAssumption, WeightUnfolded

LEMMA InitClockTypes == Init => ClockTypes /\ HistoryTypes /\ CallTypes
<1> SUFFICES ASSUME Init PROVE ClockTypes /\ HistoryTypes /\ CallTypes
  OBVIOUS
<1>1. ClockTypes
  BY StartTimeAssumption, CallMillisTypes, ClockRangeType
  DEF Init, ClockTypes, Label, QuietLimit, timeout_ms
<1>2. HistoryTypes
  BY Zenon DEF Init, HistoryTypes
<1>3. CallTypes
  BY LengthAssumption DEF Init, CallTypes, Arrival
<1> QED BY <1>1, <1>2, <1>3

LEMMA LoadTypes ==
  ASSUME ClockTypes, LoadClockByte
  PROVE  /\ loaded' \in 0 .. Width /\ ms' \in 0 .. Weight[loaded'] - 1
         /\ Reading' = Reading
<1>1. /\ loaded < Width /\ loaded' = loaded + 1 /\ timerMillis' = timerMillis
      /\ ms' = ms + Weight[loaded] * ((timerMillis \div Weight[loaded]) % Radix)
  BY DEF LoadClockByte, clockVars
<1>2. /\ loaded \in 0 .. Width /\ loaded + 1 \in 1 .. Width /\ (loaded + 1) - 1 = loaded
      /\ Width \in Nat /\ Radix \in Nat \ {0} /\ timerMillis \in Nat
      /\ ms \in 0 .. Weight[loaded] - 1
  BY <1>1, ClockAssumption, ClockRangeType DEF ClockTypes
<1>3. Weight[loaded + 1] = Radix * Weight[loaded] /\ Weight[loaded] \in Nat \ {0}
  BY <1>2, WeightUnfolded
<1>4. /\ ms' \in 0 .. Radix * Weight[loaded] - 1
      /\ (timerMillis \div (Radix * Weight[loaded])) * (Radix * Weight[loaded]) + ms'
           = (timerMillis \div Weight[loaded]) * Weight[loaded] + ms
  BY ZenonT(20), <1>1, <1>2, <1>3, OneByteMore
<1> QED BY <1>1, <1>2, <1>3, <1>4 DEF Reading

LEMMA NextClockTypes == ClockTypes /\ [Next]_vars => ClockTypes'
<1> SUFFICES ASSUME ClockTypes, [Next]_vars PROVE ClockTypes'
  OBVIOUS
<1>1. QuietLimit = 5 /\ ClockRange \in Nat \ {0}
  BY ClockRangeType DEF QuietLimit, timeout_ms
<1>2. CASE USART_RX_vect
  BY <1>2 DEF USART_RX_vect, ClockTypes, clockVars, localVars
<1>3. CASE TIMER1_COMPA_vect
  BY <1>1, <1>3 DEF TIMER1_COMPA_vect, ClockTypes, localVars
<1>4. ASSUME NEW n \in Length, UART_receive(n) PROVE ClockTypes'
  BY <1>1, <1>4, CallMillisTypes DEF UART_receive, CallMillis, ClockTypes, Label
<1>5. CASE LoadClockByte
  BY <1>5, LoadTypes DEF LoadClockByte, ClockTypes, clockVars, localVars
<1>6. CASE SetStart
  <2>1. ms \in 0 .. ClockRange - 1
    BY <1>6 DEF SetStart, ClockTypes, ClockRange
  <2> QED BY <1>6, <2>1 DEF SetStart, ClockTypes, Label
<1>7. CASE Test
  BY <1>7, CallMillisTypes DEF Test, CallMillis, ClockTypes, Label, localVars
<1>8. CASE Load
  BY <1>8 DEF Load, ClockTypes, Label, clockVars
<1>9. CASE Advance
  BY <1>1, <1>9 DEF Advance, ClockTypes, Label, localVars
<1>10. CASE Store
  BY <1>10, CallMillisTypes DEF Store, CallMillis, ClockTypes, Label, clockVars
<1>11. CASE KeepWaiting
  BY <1>11 DEF KeepWaiting, ClockTypes, Label, localVars
<1>12. CASE Return
  BY <1>12 DEF Return, ClockTypes, Label, localVars
<1>13. CASE UNCHANGED vars
  BY <1>13 DEF vars, ClockTypes, clockVars, localVars
<1> QED
  BY <1>2, <1>3, <1>4, <1>5, <1>6, <1>7, <1>8, <1>9, <1>10, <1>11, <1>12, <1>13 DEF Next, Body

LEMMA NextHistoryTypes == HistoryTypes /\ [Next]_vars => HistoryTypes'
<1> SUFFICES ASSUME HistoryTypes, [Next]_vars PROVE HistoryTypes'
  OBVIOUS
<1>1. torn' \in BOOLEAN
  BY Zenon DEF HistoryTypes, Next, Body, vars, clockVars, USART_RX_vect, TIMER1_COMPA_vect,
               UART_receive, LoadClockByte, SetStart, Test, Load, Advance, Store,
               KeepWaiting, Return
<1>2. tornNow' \in BOOLEAN
  BY Zenon DEF HistoryTypes, Next, Body, vars, clockVars, USART_RX_vect, TIMER1_COMPA_vect,
               UART_receive, LoadClockByte, SetStart, Test, Load, Advance, Store,
               KeepWaiting, Return
<1>3. looked' \in BOOLEAN
  BY Zenon DEF HistoryTypes, Next, Body, vars, clockVars, USART_RX_vect, TIMER1_COMPA_vect,
               UART_receive, LoadClockByte, SetStart, Test, Load, Advance, Store,
               KeepWaiting, Return
<1> QED BY <1>1, <1>2, <1>3 DEF HistoryTypes

(* The ring is not empty where a byte is loaded from it, so -1 is never    *)
(* taken for a byte.                                                       *)
LEMMA NextCallTypes == RingInv /\ DeliveryInv /\ CallTypes /\ [Next]_vars => CallTypes'
<1> SUFFICES ASSUME RingInv, DeliveryInv, CallTypes, [Next]_vars PROVE CallTypes'
  OBVIOUS
<1>1. CASE USART_RX_vect
  BY <1>1 DEF USART_RX_vect, CallTypes, localVars
<1>2. ASSUME NEW n \in Length, UART_receive(n) PROVE CallTypes'
  BY <1>2 DEF UART_receive, CallTypes, ringVars
<1>3. CASE Load
  <2>1. reader' = OldestByte(usartRxBuffer)
    BY <1>3 DEF Load, DeliveryInv
  <2>2. OldestByte(usartRxBuffer) \in Arrival
    BY DEF RingInv, Ring, OldestByte
  <2> QED BY <1>3, <2>1, <2>2 DEF Load, CallTypes, ringVars
<1>4. CASE ~USART_RX_vect /\ ~Load /\ ~\E n \in Length : UART_receive(n)
  <2>1. UNCHANGED <<lost, length, reader>>
    BY <1>4 DEF Next, Body, vars, ringVars, localVars, TIMER1_COMPA_vect, LoadClockByte,
                SetStart, Test, Advance, Store, KeepWaiting, Return
  <2> QED BY <2>1 DEF CallTypes
<1> QED BY <1>1, <1>2, <1>3, <1>4

(* Every variable of UART_receive and its interrupts keeps its type, for   *)
(* every ring, counter and caller's array: above all, what is written to   *)
(* the array are bytes that have arrived.                                  *)
THEOREM TypeCorrect == Spec => []TypeOK
<1>1. ASSUME RingInv, DeliveryInv, ClockTypes, HistoryTypes, CallTypes PROVE TypeOK
  <2>1. ms \in 0 .. ClockRange - 1
    <3>1. loaded \in 0 .. Width /\ ms \in 0 .. Weight[loaded] - 1
      BY <1>1 DEF ClockTypes
    <3>2. PICK w \in Nat \ {0} : ClockRange = Weight[loaded] * w
      BY <3>1, WeightDivides
    <3>3. Weight[loaded] \in Nat \ {0}
      BY <3>1, WeightUnfolded
    <3>4. Weight[loaded] =< ClockRange
      BY <3>2, <3>3
    <3> QED BY <3>1, <3>3, <3>4, ClockRangeType
  <2>2. overflow \in BOOLEAN /\ torn \in BOOLEAN /\ tornNow \in BOOLEAN /\ looked \in BOOLEAN
    BY <1>1, Zenon DEF DeliveryInv, HistoryTypes
  <2>3. usartRxBuffer \in Ring /\ arrived \in Arrival
    BY <1>1 DEF RingInv, Arrival
  <2>4. byteCount \in Nat /\ data \in Seq(Arrival) /\ taken \in Seq(Arrival)
    BY <1>1 DEF DeliveryInv
  <2> QED BY <1>1, <2>1, <2>2, <2>3, <2>4, Zenon DEF TypeOK, ClockTypes, CallTypes, Ring
<1> QED
  BY RingInvariance, InitDeliveryInv, InitClockTypes, NextClockTypes, NextHistoryTypes,
     NextCallTypes, NextDeliveryInv, <1>1, PTL DEF Spec

----------------------------------------------------------------------------
(* How old the readings of the clock are.  While the last byte is at most  *)
(* timeout_ms ticks old, and the clock has not been loaded in two halves,  *)
(* the value that start_time is about to get, then start_time itself, then *)
(* the value it is compared with, were the clock's since that byte, the    *)
(* last one not before the other.                                          *)
StartIsRecent(value) == \E a \in 0 .. quiet : Ago(value, a, timerMillis)

GapInv ==
  quiet =< timeout_ms /\ ~torn =>
    /\ ReadingStart => StartIsRecent(Reading)
    /\ pc \in {"test", "now"} => StartIsRecent(start_time)
    /\ pc = "now" /\ ~tornNow =>
         \E a \in 0 .. quiet : \E b \in 0 .. a :
           Ago(start_time, a, timerMillis) /\ Ago(Reading, b, timerMillis)

LEMMA WholeClock ==
  ASSUME NEW now \in 0 .. ClockRange - 1
  PROVE  (now \div Weight[0]) * Weight[0] + 0 = now /\ now \div ClockRange = 0
<1>1. Weight[0] = 1 /\ ClockRange \in Nat \ {0}
  BY WeightUnfolded, ClockRangeType
<1>2. (now \div 1) * 1 + 0 = now
  BY <1>1
<1>3. now \div ClockRange = 0
  BY <1>1
<1> QED BY <1>1, <1>2, <1>3

(* When the load ends, the reading is ms.                                  *)
LEMMA ReadingEnds ==
  ASSUME ClockTypes, loaded = Width
  PROVE  Reading = ms
<1>1. timerMillis \div ClockRange = 0
  BY ClockRangeType DEF ClockTypes
<1>2. Reading = 0 * ClockRange + ms /\ ms \in 0 .. ClockRange - 1
  BY <1>1 DEF Reading, ClockRange, ClockTypes
<1> QED BY <1>2, ClockRangeType

LEMMA ReadingType == ASSUME ClockTypes PROVE Reading \in Int
<1>1. timerMillis \in Nat /\ Weight[loaded] \in Nat \ {0} /\ ms \in Int
  BY WeightUnfolded, ClockRangeType DEF ClockTypes
<1> QED BY <1>1 DEF Reading

(* A tick that does not tear the load makes the reading one tick older.    *)
LEMMA ReadingTick ==
  ASSUME ClockTypes, TIMER1_COMPA_vect, ~Tears, NEW b \in Nat, Ago(Reading, b, timerMillis)
  PROVE  \/ Ago(Reading, b + 1, timerMillis)'
         \/ loaded = 0 /\ Ago(Reading, 0, timerMillis)'
<1>1. /\ timerMillis' = (timerMillis + 1) % ClockRange /\ loaded' = loaded /\ ms' = ms
      /\ timerMillis \in 0 .. ClockRange - 1 /\ loaded \in 0 .. Width
      /\ ms \in 0 .. Weight[loaded] - 1
  BY DEF TIMER1_COMPA_vect, ClockTypes
<1>2. ClockTypes'
  BY NextClockTypes DEF Next
<1>3. CASE loaded = 0
  <2>1. Reading' = timerMillis' /\ timerMillis' \in Int
    <3>1. loaded' = 0 /\ timerMillis' \in 0 .. ClockRange - 1 /\ ms' = 0
      BY <1>1, <1>2, <1>3, WeightUnfolded DEF ClockTypes
    <3>2. (timerMillis' \div Weight[0]) * Weight[0] + 0 = timerMillis'
      BY <3>1, WholeClock
    <3> QED BY <3>1, <3>2, ClockRangeType DEF Reading
  <2>2. Ago(timerMillis', 0, timerMillis')
    BY <2>1, AgoNow
  <2> QED BY <1>3, <2>1, <2>2
<1>4. CASE loaded # 0
  <2>1. Reading' = Reading
    <3>1. CASE loaded = Width
      <4>1. Reading = ms
        BY <3>1, ReadingEnds
      <4>2. timerMillis' \in 0 .. ClockRange - 1 /\ ms \in 0 .. ClockRange - 1
        BY <1>1, <1>2, <3>1 DEF ClockTypes, ClockRange
      <4>3. timerMillis' \div ClockRange = 0
        BY <4>2, WholeClock
      <4>4. Reading' = 0 * ClockRange + ms
        BY <1>1, <3>1, <4>3 DEF Reading, ClockRange
      <4> QED BY <4>1, <4>2, <4>4, ClockRangeType
    <3>2. CASE loaded # Width
      <4>1. loaded > 0 /\ loaded < Width
        BY <1>1, <1>4, <3>2, ClockAssumption
      <4>2. (timerMillis + 1) \div Weight[loaded] = timerMillis \div Weight[loaded]
        BY <4>1 DEF Tears
      <4>3. timerMillis' = timerMillis + 1
        BY <1>1, <4>2, NoCarryNoTurn
      <4> QED BY <1>1, <4>2, <4>3 DEF Reading
    <3> QED BY <3>1, <3>2
  <2>2. Ago(Reading, b + 1, timerMillis')
    BY <1>1, ReadingType, AgoTick
  <2> QED BY <2>1, <2>2
<1> QED BY <1>3, <1>4

LEMMA TickGap ==
  ASSUME ClockTypes, GapInv, TIMER1_COMPA_vect
  PROVE  GapInv'
<1> SUFFICES ASSUME quiet' =< timeout_ms, ~torn'
             PROVE  /\ ReadingStart' => StartIsRecent(Reading)'
                    /\ pc' \in {"test", "now"} => StartIsRecent(start_time)'
                    /\ pc' = "now" /\ ~tornNow' =>
                         (\E a \in 0 .. quiet : \E b \in 0 .. a :
                            Ago(start_time, a, timerMillis) /\ Ago(Reading, b, timerMillis))'
  BY DEF GapInv
<1>1. /\ timerMillis' = (timerMillis + 1) % ClockRange /\ pc' = pc /\ start_time' = start_time
      /\ timerMillis \in 0 .. ClockRange - 1 /\ start_time \in Int
  BY ClockRangeType DEF TIMER1_COMPA_vect, localVars, ClockTypes
<1>2. quiet' = quiet + 1 /\ quiet =< timeout_ms /\ quiet \in Nat
  BY DEF TIMER1_COMPA_vect, ClockTypes, QuietLimit, timeout_ms
<1>3. ~torn /\ ~(ReadingStart /\ Tears) /\ (tornNow' <=> tornNow \/ (ReadingNow /\ Tears))
  BY DEF TIMER1_COMPA_vect
<1>4. ASSUME ReadingStart' PROVE StartIsRecent(Reading)'
  <2>1. ReadingStart /\ ~Tears
    BY <1>1, <1>3, <1>4 DEF ReadingStart
  <2>2. PICK a \in 0 .. quiet : Ago(Reading, a, timerMillis)
    BY <1>2, <1>3, <2>1 DEF GapInv, StartIsRecent
  <2>3. a \in Nat /\ a + 1 \in 0 .. quiet' /\ 0 \in 0 .. quiet'
    BY <1>2
  <2>4. Ago(Reading, a + 1, timerMillis)' \/ Ago(Reading, 0, timerMillis)'
    BY <2>1, <2>2, <2>3, ReadingTick
  <2> QED BY <2>3, <2>4 DEF StartIsRecent
<1>5. ASSUME pc' \in {"test", "now"} PROVE StartIsRecent(start_time)'
  <2>1. PICK a \in 0 .. quiet : Ago(start_time, a, timerMillis)
    BY <1>1, <1>2, <1>3, <1>5 DEF GapInv, StartIsRecent
  <2>2. a \in Nat /\ a + 1 \in 0 .. quiet'
    BY <1>2
  <2>3. Ago(start_time, a + 1, timerMillis')
    BY <1>1, <2>1, <2>2, AgoTick
  <2> QED BY <1>1, <2>2, <2>3 DEF StartIsRecent
<1>6. ASSUME pc' = "now", ~tornNow'
      PROVE  (\E a \in 0 .. quiet : \E b \in 0 .. a :
                Ago(start_time, a, timerMillis) /\ Ago(Reading, b, timerMillis))'
  <2>1. pc = "now" /\ ~tornNow /\ ~Tears
    BY <1>1, <1>3, <1>6 DEF ReadingNow
  <2>a. PICK a \in 0 .. quiet : \E b \in 0 .. a :
          Ago(start_time, a, timerMillis) /\ Ago(Reading, b, timerMillis)
    BY <1>2, <1>3, <2>1 DEF GapInv
  <2>2. PICK b \in 0 .. a : Ago(start_time, a, timerMillis) /\ Ago(Reading, b, timerMillis)
    BY <2>a
  <2>3. /\ a \in Nat /\ b \in Nat /\ a + 1 \in 0 .. quiet' /\ b + 1 \in 0 .. a + 1
        /\ 0 \in 0 .. a + 1
    BY <1>2
  <2>4. Ago(start_time, a + 1, timerMillis')
    BY <1>1, <2>2, <2>3, AgoTick
  <2>5. Ago(Reading, b + 1, timerMillis)' \/ Ago(Reading, 0, timerMillis)'
    BY <2>1, <2>2, <2>3, ReadingTick
  <2> QED BY <1>1, <2>3, <2>4, <2>5
<1> QED BY <1>4, <1>5, <1>6

(* millis() is called: its reading is the clock.                           *)
LEMMA CallGap ==
  ASSUME ClockTypes', NEW label, CallMillis(label)
  PROVE  pc' = label /\ Ago(Reading, 0, timerMillis)'
<1>1. /\ pc' = label /\ loaded' = 0 /\ ms' = 0
      /\ timerMillis' \in 0 .. ClockRange - 1 /\ timerMillis' \in Int
  BY ClockRangeType DEF CallMillis, ClockTypes
<1>2. Reading' = timerMillis'
  BY <1>1, WholeClock DEF Reading
<1>3. Ago(timerMillis', 0, timerMillis')
  BY <1>1, AgoNow
<1> QED BY <1>1, <1>2, <1>3

LEMMA NextGap ==
  ASSUME ClockTypes, ClockTypes', GapInv, [Next]_vars
  PROVE  GapInv'
<1>1. 0 \in 0 .. quiet' /\ 0 \in 0 .. 0 /\ quiet \in Nat
  BY DEF ClockTypes, QuietLimit, timeout_ms
<1>2. CASE USART_RX_vect \/ UNCHANGED vars
  <2>1. UNCHANGED <<timerMillis, quiet, torn, tornNow, pc, ms, loaded, start_time>>
    BY <1>2 DEF USART_RX_vect, vars, clockVars, localVars
  <2> QED BY <2>1 DEF GapInv, StartIsRecent, Reading, ReadingStart
<1>3. CASE TIMER1_COMPA_vect
  BY <1>3, TickGap
<1>4. CASE Store \/ \E n \in Length : UART_receive(n)
  <2>1. CallMillis("start") \/ CallMillis("restart")
    BY <1>4 DEF Store, UART_receive
  <2>2. pc' \in {"start", "restart"} /\ Ago(Reading, 0, timerMillis)'
    BY <2>1, CallGap
  <2> QED BY <1>1, <2>2 DEF GapInv, StartIsRecent
<1>5. CASE LoadClockByte
  <2>1. Reading' = Reading
    BY <1>5, LoadTypes
  <2>2. UNCHANGED <<timerMillis, quiet, torn, tornNow, pc, start_time>>
    BY <1>5 DEF LoadClockByte, clockVars, localVars
  <2> QED BY <2>1, <2>2 DEF GapInv, StartIsRecent, ReadingStart
<1>6. CASE SetStart
  <2>1. /\ ReadingStart /\ loaded = Width /\ start_time' = ms /\ pc' = "test"
        /\ UNCHANGED <<timerMillis, quiet, torn>>
    BY <1>6 DEF SetStart
  <2>2. Reading = ms
    BY <2>1, ReadingEnds
  <2> QED BY <2>1, <2>2 DEF GapInv, StartIsRecent, ReadingStart
<1>7. CASE Test
  <2>1. pc = "test" /\ UNCHANGED <<timerMillis, quiet, torn, start_time>>
    BY <1>7 DEF Test, localVars
  <2>2. CASE buffer_empty(usartRxBuffer)
    <3>1. pc' = "now" /\ Ago(Reading, 0, timerMillis)'
      BY <1>7, <2>2, CallGap DEF Test
    <3>2. \A a \in 0 .. quiet : 0 \in 0 .. a
      BY <1>1
    <3> QED BY <2>1, <3>1, <3>2 DEF GapInv, StartIsRecent, ReadingStart
  <2>3. CASE ~buffer_empty(usartRxBuffer)
    BY <1>7, <2>3 DEF Test, GapInv, ReadingStart
  <2> QED BY <2>2, <2>3
<1>8. CASE Load \/ Advance \/ Return
  <2>1. pc' \in {"store", "advance", "idle"}
    BY <1>8 DEF Load, Advance, Return
  <2> QED BY <2>1 DEF GapInv, ReadingStart
<1>9. CASE KeepWaiting
  <2>1. pc = "now" /\ pc' = "test" /\ UNCHANGED <<timerMillis, quiet, torn, start_time>>
    BY <1>9 DEF KeepWaiting, ReadingNow, localVars
  <2> QED BY <2>1 DEF GapInv, StartIsRecent, ReadingStart
<1> QED
  BY <1>2, <1>3, <1>4, <1>5, <1>6, <1>7, <1>8, <1>9 DEF Next, Body

(* UART_receive gives up only when more than timeout_ms ticks have passed  *)
(* since the last byte, wherever the counter turns and wherever the ticks  *)
(* fall, as long as no carry falls between the loads of two of its bytes   *)
(* (uart.c:50, timer.c:13).                                                *)
THEOREM WaitsLongEnough == Spec => ReturnsAfterGap
<1>1. Init => GapInv
  BY DEF Init, GapInv, ReadingStart
<1>2. ASSUME ClockTypes, GapInv, Return, ~torn, ~tornNow PROVE quiet > timeout_ms
  <2> SUFFICES ASSUME quiet =< timeout_ms PROVE FALSE
    BY <1>2 DEF ClockTypes, QuietLimit, timeout_ms
  <2>1. pc = "now" /\ loaded = Width /\ (ms - start_time) % ClockRange > timeout_ms
    BY <1>2 DEF Return, ReadingNow, Expired
  <2>a. PICK a \in 0 .. quiet : \E b \in 0 .. a :
          Ago(start_time, a, timerMillis) /\ Ago(Reading, b, timerMillis)
    BY <1>2, <2>1 DEF GapInv
  <2>2. PICK b \in 0 .. a : Ago(start_time, a, timerMillis) /\ Ago(Reading, b, timerMillis)
    BY <2>a
  <2>3. Reading = ms
    BY <1>2, <2>1, ReadingEnds
  <2>4. ms \in Int /\ start_time \in Int /\ timerMillis \in Int /\ a \in Nat /\ quiet \in Nat
    BY <1>2, <2>1, ClockRangeType DEF ClockTypes, ClockRange, QuietLimit, timeout_ms
  <2>5. (ms - start_time) % ClockRange =< a - b
    BY <2>2, <2>3, <2>4, AgoDifference
  <2>6. (ms - start_time) % ClockRange \in Int
    BY <2>4, ClockRangeType
  <2> QED BY <2>1, <2>4, <2>5, <2>6 DEF timeout_ms
<1>3. ClockTypes /\ ClockTypes' /\ GapInv /\ [Next]_vars => GapInv'
  BY NextGap
<1>4. ClockTypes /\ GapInv => [Return => torn \/ tornNow \/ quiet > timeout_ms]_vars
  BY <1>2
<1> QED
  BY InitClockTypes, NextClockTypes, <1>1, <1>3, <1>4, PTL DEF Spec, ReturnsAfterGap

=============================================================================
