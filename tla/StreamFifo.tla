----------------------------- MODULE StreamFifo -----------------------------
(***************************************************************************)
(* What a stream promises to the two actors it joins: items of any length  *)
(* arrive in the order they were sent, each of them once and together with *)
(* its own bytes, and neither more than ControlCapacity of them nor more   *)
(* than PayloadCapacity of their bytes wait (channel.stream-dual-buffer in *)
(* docs/spec/03-channel.md).  StreamChannel is shown to implement it.      *)
(***************************************************************************)
EXTENDS Naturals, Sequences

CONSTANTS ControlCapacity, PayloadCapacity

VARIABLES items,     \* all the items sent: how many bytes were sent before, and
                     \* how many are the item's own
          received,  \* how many items have been received
          out        \* the last delivery: item numbers, and bytes [from, to)

vars == <<items, received, out>>

End(i) == items[i].first + items[i].len

(* The bytes of the first n items. *)
Before(n) == IF n = 0 THEN 0 ELSE End(n)

Init == items = <<>> /\ received = 0 /\ out = [items |-> {}, from |-> 0, to |-> 0]

Send == /\ Len(items) < received + ControlCapacity
        /\ \E len \in 0 .. PayloadCapacity + Before(received) - Before(Len(items)) :
              items' = Append(items, [first |-> Before(Len(items)), len |-> len])
        /\ UNCHANGED <<received, out>>

Receive == \E n \in received .. Len(items) :
              /\ received' = n
              /\ out' = [items |-> received + 1 .. n,
                         from  |-> Before(received), to |-> Before(n)]
              /\ UNCHANGED items

Next == Send \/ Receive

Spec == Init /\ [][Next]_vars
=============================================================================
