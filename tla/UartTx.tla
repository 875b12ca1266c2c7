------------------------------- MODULE UartTx -------------------------------
(***************************************************************************)
(* The transmit side of uart.c: UART_send copies an array into the         *)
(* transmit ring, a byte at a time, and the data-register-empty interrupt, *)
(* for which the repository has no handler, would empty it.  The handler   *)
(* may run between any two bytes of the copy.                              *)
(***************************************************************************)
EXTENDS RingBuffer

CONSTANT TxHandler  \* does some other code handle USART_UDRE_vect?

ASSUME TxHandlerAssumption == TxHandler \in BOOLEAN

VARIABLES
  usartTxBuffer,  \* the transmit ring
  sending,        \* the array UART_send was given
  copied          \* the loop index: bytes of it written to the ring

txVars == <<usartTxBuffer, sending, copied>>

TxInit ==
  /\ usartTxBuffer = [buffer |-> [n \in Slot |-> 0], buf_head |-> 0, buf_tail |-> 0]
  /\ sending = <<>> /\ copied = 0

UART_send(bytes) ==
  /\ sending' = bytes /\ copied' = 0
  /\ UNCHANGED usartTxBuffer

CopyByte ==
  /\ copied < Len(sending)
  /\ ~buffer_full(usartTxBuffer)
  /\ usartTxBuffer' = write_buffer(usartTxBuffer, sending[copied + 1])
  /\ copied' = copied + 1
  /\ UNCHANGED sending

(* A full ring ends the loop: the rest of the array is not sent, and there *)
(* is no result to tell.  Mutant: nothing is copied unless all of it fits. *)
AllOrNothing == copied = Len(sending) \/ Held(usartTxBuffer) + Len(sending) - copied > BUFFER_SIZE - 1
CopyEnds == copied = Len(sending) \/ buffer_full(usartTxBuffer)

SendReturns ==
  /\ CopyEnds
  /\ sending' = <<>> /\ copied' = 0
  /\ UNCHANGED usartTxBuffer

(* The oldest byte goes to the line.                                       *)
USART_UDRE_vect ==
  /\ TxHandler
  /\ ~buffer_empty(usartTxBuffer)
  /\ usartTxBuffer' = FreeOldest(usartTxBuffer)
  /\ UNCHANGED <<sending, copied>>

TxTypeOK ==
  /\ DOMAIN usartTxBuffer.buffer = Slot
  /\ usartTxBuffer.buf_head \in Slot /\ usartTxBuffer.buf_tail \in Slot
  /\ copied \in 0 .. Len(sending)

=============================================================================
