----------------------------- MODULE RingBuffer -----------------------------
(***************************************************************************)
(* struct circular_buffer and the operations of circular_buf.c.  The       *)
(* oldest byte is at buf_head, the next free slot at buf_tail, and one     *)
(* slot stays free so that full and empty differ.                          *)
(***************************************************************************)
EXTENDS Integers, Sequences

CONSTANT BUFFER_SIZE  \* 32 in circular_buf.h; the indices are unsigned char

ASSUME BufferSizeAssumption == BUFFER_SIZE \in 2 .. 256

Slot == 0 .. BUFFER_SIZE - 1

(* Mutant: the index does not wrap.                                        *)
SlotAfter(n) == n + 1
NextSlot(n) == (n + 1) % BUFFER_SIZE

initialize_buffer(cb) == [cb EXCEPT !.buf_head = 0, !.buf_tail = 0]

buffer_empty(cb) == cb.buf_head = cb.buf_tail

(* Mutant: the last slot is used too, which makes a full ring look empty.  *)
NeverFull(cb) == FALSE
buffer_full(cb) == NextSlot(cb.buf_tail) = cb.buf_head

write_buffer(cb, value) ==
  IF buffer_full(cb)
  THEN cb
  ELSE [cb EXCEPT !.buffer[cb.buf_tail] = value, !.buf_tail = NextSlot(cb.buf_tail)]

(* read_buffer loads the oldest byte and then gives its slot free.         *)
OldestByte(cb) == cb.buffer[cb.buf_head]
FreeOldest(cb) == [cb EXCEPT !.buf_head = NextSlot(cb.buf_head)]

(* What the ring holds, oldest first.                                      *)
Held(cb) ==
  IF cb.buf_head <= cb.buf_tail
  THEN cb.buf_tail - cb.buf_head
  ELSE cb.buf_tail - cb.buf_head + BUFFER_SIZE

SlotOf(cb, k) ==
  IF cb.buf_head + k - 1 < BUFFER_SIZE
  THEN cb.buf_head + k - 1
  ELSE cb.buf_head + k - 1 - BUFFER_SIZE

Contents(cb) == [k \in 1 .. Held(cb) |-> cb.buffer[SlotOf(cb, k)]]

=============================================================================
