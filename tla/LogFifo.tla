------------------------------- MODULE LogFifo -------------------------------
(***************************************************************************)
(* What the packet terminal's log queue promises to its two producers and  *)
(* its consumer: an unbounded first-in first-out queue.  One step adds one *)
(* item or takes the oldest one, and nothing else ever changes.            *)
(***************************************************************************)
EXTENDS Sequences

CONSTANT Item

VARIABLE pending    \* items added and not yet printed, oldest first

Init == pending = <<>>

Put(i) == pending' = Append(pending, i)

Take == pending # <<>> /\ pending' = Tail(pending)

Next == (\E i \in Item : Put(i)) \/ Take

Spec == Init /\ [][Next]_pending
=============================================================================
