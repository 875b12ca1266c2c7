---------------------------- MODULE FrameChannel ----------------------------
(***************************************************************************)
(* What a link of HDLC frames promises over a noisy line: frames may be    *)
(* lost, and those that are delivered are frames that were sent, in the    *)
(* order they were sent, each at most once.                                *)
(***************************************************************************)
EXTENDS Integers, Sequences

CONSTANT Message

VARIABLES sent, got

(* s is t with some of its elements left out.                              *)
Subsequence(s, t) ==
  \E at \in [DOMAIN s -> DOMAIN t] :
     /\ \A j, k \in DOMAIN s : j < k => at[j] < at[k]
     /\ \A k \in DOMAIN s : s[k] = t[at[k]]

Init == sent = <<>> /\ got = <<>>

Send(m) == sent' = Append(sent, m) /\ UNCHANGED got

Deliver(m) ==
  /\ got' = Append(got, m)
  /\ Subsequence(got', sent)
  /\ UNCHANGED sent

Next == \E m \in Message : Send(m) \/ Deliver(m)

Spec == Init /\ [][Next]_<<sent, got>>

=============================================================================
