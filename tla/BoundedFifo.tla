---------------------------- MODULE BoundedFifo ----------------------------
(***************************************************************************)
(* What the receive path promises: a first-in first-out queue of bounded   *)
(* length between the line and the reader.  A byte that finds the queue    *)
(* full is lost; every other byte is taken once, in the order it came.     *)
(***************************************************************************)
EXTENDS Integers, Sequences

CONSTANTS Data, Capacity

VARIABLES
  queue,  \* accepted and not yet taken
  taken,  \* everything taken so far
  lost    \* how many bytes were lost

vars == <<queue, taken, lost>>

Init == queue = <<>> /\ taken = <<>> /\ lost = 0

Accept(b) ==
  /\ Len(queue) < Capacity
  /\ queue' = Append(queue, b)
  /\ UNCHANGED <<taken, lost>>

Lose ==
  /\ Len(queue) = Capacity
  /\ lost' = lost + 1
  /\ UNCHANGED <<queue, taken>>

Take ==
  /\ queue # <<>>
  /\ taken' = Append(taken, Head(queue))
  /\ queue' = Tail(queue)
  /\ UNCHANGED lost

Next == (\E b \in Data : Accept(b)) \/ Lose \/ Take

Spec == Init /\ [][Next]_vars

=============================================================================
