----------------------------- MODULE BoundedFifo -----------------------------
(***************************************************************************)
(* What a channel promises to the two actors it joins: the messages 1, 2,  *)
(* 3, ... arrive in the order they were sent, each of them once, and never *)
(* more than Capacity of them wait (channel.backpressure-never-drop in     *)
(* docs/spec/03-channel.md).  Channel is shown to implement it.            *)
(***************************************************************************)
EXTENDS Naturals, Sequences

CONSTANT Capacity

VARIABLES queue,      \* the messages sent and not yet taken
          received    \* how many have been taken

vars == <<queue, received>>

Init == queue = <<>> /\ received = 0

(* A slice of n messages enters the queue, if there is room for all of them. *)
Send == \E n \in 1 .. Capacity - Len(queue) :
          /\ queue' = queue \o [i \in 1..n |-> received + Len(queue) + i]
          /\ UNCHANGED received

Receive == \E n \in 1 .. Len(queue) :
          /\ queue' = SubSeq(queue, n + 1, Len(queue))
          /\ received' = received + n

Next == Send \/ Receive

Spec == Init /\ [][Next]_vars
=============================================================================
