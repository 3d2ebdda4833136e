---------------------------- MODULE StreamChannel ----------------------------
(***************************************************************************)
(* A stream between two actors: StreamTx (core_tx_stream.rs) and StreamRx  *)
(* (core_rx_stream.rs) on two lock-free rings, one for the items (control) *)
(* and one for their bytes (payload).  Nothing but the order of the pushes *)
(* and pops keeps the rings paired: the bytes of an item are pushed before *)
(* it, and one side may look between any two steps of the other.           *)
(*                                                                         *)
(* A step is one access to a ring, a closing signal or the shutdown.  The  *)
(* bytes are numbered in sending order and the rings are the stretches     *)
(* cr+1 .. Len(items) and pr .. pw-1 (how the indices of one ring wrap is  *)
(* checked in Channel).  The position of a ring's wrap still matters here: *)
(* the consumer sees the items as two slices.                              *)
(*                                                                         *)
(* The ingress and the egress stream have the same code, and so has their  *)
(* poke_slice followed by advance_send_index the steps of a try_send.      *)
(*                                                                         *)
(* Abstracted: telemetry, warnings, the counts of peeks, how long a wait   *)
(* takes.  A call that finds no room or no item and returns at once leaves *)
(* everything as it was and is no step.                                    *)
(***************************************************************************)
EXTENDS Integers, Sequences

CONSTANTS ControlCapacity,  \* of the ring of items
          PayloadCapacity,  \* of the ring of bytes
          Lengths,          \* the lengths of items
          Targets,          \* the sizes of the byte buffers given to take_slice
          MaxItems          \* a bound on how many items are sent

ASSUME StreamAssumption ==
  /\ ControlCapacity \in Nat \ {0} /\ PayloadCapacity \in Nat \ {0}
  /\ Lengths \subseteq 0..PayloadCapacity /\ Targets \subseteq Nat
  /\ MaxItems \in Nat

VARIABLES
  items,     \* every item pushed so far: the bytes sent before it, its length
  cr,        \* how many items have left the control ring
  pw, pr,    \* how many bytes have entered and left the payload ring
  closed,    \* how many closing signals are given: 1 control, 2 payload too
  shutdown,  \* the graph has fired the shutdown one-shots
  tx, rx,    \* what each side is in the middle of
  out        \* the last delivery: item numbers, and bytes [from, to)

ringVars == <<items, cr, pw, pr, out>>
vars == <<ringVars, closed, shutdown, tx, rx>>

End(i)    == items[i].first + items[i].len
Before(n) == IF n = 0 THEN 0 ELSE End(n)

(* shared_vacant_units and shared_avail_units *)
WaitingItems == Len(items) - cr
WaitingBytes == pw - pr
VacantItems  == ControlCapacity - WaitingItems
VacantBytes  == PayloadCapacity - WaitingBytes

(* Mutant: the bytes are not compared at all. *)
AtLeastInItems(have, want) == have[1] >= want[1]

(* How Rust compares the pairs: the bytes count only when the items tie. *)
AtLeast(have, want) ==
  have[1] > want[1] \/ (have[1] = want[1] /\ have[2] >= want[2])

(* The waits of either side, by what the code's names say they wait for.     *)
RoomWaits == {"vacant", "shutdown or vacant"}
Waits     == {"avail", "closed or avail", "shutdown or avail"}

(* The producer.  items and bytes are the room that its last wait or count   *)
(* has promised or, when then is "told", that vacant_units_for has said is   *)
(* there; in a loop the room that is left of what was counted before it, and *)
(* in a wait the room that it waits for.                                     *)
Tx(at, then, len, i, b) ==
  [at |-> at, then |-> then, len |-> len, items |-> i, bytes |-> b]
TxIdle    == Tx("idle", "idle", 0, 0, 0)
Room(i, b) == Tx("idle", "idle", 0, i, b)
Told(i, b) == Tx("idle", "told", 0, i, b)

(* The consumer.  count is how many items its last wait has promised, how    *)
(* many it waits for, or how many it has in sight; take are the numbers of   *)
(* the items it delivers and need is the length of their bytes.              *)
Rx(at, count, take, need) == [at |-> at, count |-> count, take |-> take, need |-> need]
RxIdle   == Rx("idle", 0, {}, 0)
Offer(n) == Rx("idle", n, {}, 0)

Init ==
  /\ items = <<>> /\ cr = 0 /\ pw = 0 /\ pr = 0
  /\ closed = 0 /\ shutdown = FALSE
  /\ tx = TxIdle /\ rx = RxIdle
  /\ out = [items |-> {}, from |-> 0, to |-> 0]

Smaller(m, n) == IF m < n THEN m ELSE n

-----------------------------------------------------------------------------
(* The producer.                                                            *)

CanSend == closed = 0 /\ Len(items) < MaxItems

(* push_slice on the payload ring; the item follows, and then the rest. *)
PushPayload(len, then, i, b) ==
  /\ pw' = pw + len
  /\ tx' = Tx("pushed", then, len, i, b)
  /\ UNCHANGED <<items, cr, pr, out, closed, shutdown, rx>>

PushItem ==
  /\ tx.at = "pushed"
  /\ items' = Append(items, [first |-> Before(Len(items)), len |-> tx.len])
  /\ tx' = Tx(tx.then, "idle", 0, tx.items, tx.bytes)
  /\ UNCHANGED <<cr, pw, pr, out, closed, shutdown, rx>>

(* try_send, the first attempt of send_async, and poke_slice followed by     *)
(* advance_send_index for one item.                                          *)
TrySend(len) ==
  /\ tx.at = "idle" /\ CanSend
  /\ VacantBytes >= len /\ VacantItems >= 1
  /\ PushPayload(len, "idle", 0, 0)

(* send_async finds no room and waits for room in both rings, the shutdown   *)
(* signal or its timeout.                                                    *)
SendAsync(len) ==
  /\ tx.at = "idle" /\ CanSend
  /\ VacantBytes < len \/ VacantItems < 1
  /\ tx' = Tx("sending", "idle", len, 0, 0)
  /\ UNCHANGED <<ringVars, closed, shutdown, rx>>

(* Mutant: only the room of the bytes is waited for. *)
SendAsyncPayloadRoom ==
  /\ tx.at = "sending" /\ VacantBytes >= tx.len
  /\ PushPayload(tx.len, "idle", 0, 0)

SendAsyncRoom ==
  /\ tx.at = "sending"
  /\ VacantBytes >= tx.len /\ VacantItems >= 1
  /\ PushPayload(tx.len, "idle", 0, 0)

SendAsyncGivesUp ==
  /\ tx.at = "sending"
  /\ tx' = TxIdle
  /\ UNCHANGED <<ringVars, closed, shutdown, rx>>

(* send_slice counts the room in both rings once and lives on it.  It ends   *)
(* with its items, or before one that does not fit.                          *)
SendSlice ==
  /\ tx.at = "idle" /\ CanSend
  /\ tx' = Tx("slice", "idle", 0, VacantItems, VacantBytes)
  /\ UNCHANGED <<ringVars, closed, shutdown, rx>>

SliceNext(len) ==
  /\ tx.at = "slice" /\ CanSend
  /\ tx.items > 0 /\ len <= tx.bytes
  /\ PushPayload(len, "slice", tx.items - 1, tx.bytes - len)

(* send_iter_until_full counts the room for items once; when there is no     *)
(* room for the bytes of one it blocks its thread, deaf to the shutdown.     *)
SendIter ==
  /\ tx.at = "idle" /\ CanSend
  /\ tx' = Tx("iter", "idle", 0, VacantItems, 0)
  /\ UNCHANGED <<ringVars, closed, shutdown, rx>>

IterNext(len) ==
  /\ tx.at = "iter" /\ CanSend /\ tx.items > 0
  /\ IF len > VacantBytes
     THEN /\ tx' = Tx("blocked", "iter", len, tx.items, 0)
          /\ UNCHANGED <<ringVars, closed, shutdown, rx>>
     ELSE PushPayload(len, "iter", tx.items - 1, 0)

(* Mutant: the wait is left out, and push_slice pushes what there is room for. *)
IterPushesOn ==
  /\ tx.at = "blocked"
  /\ pw' = pw + Smaller(tx.len, VacantBytes)
  /\ tx' = Tx("pushed", "iter", tx.len, tx.items - 1, 0)
  /\ UNCHANGED <<items, cr, pr, out, closed, shutdown, rx>>

IterUnblocks ==
  /\ tx.at = "blocked" /\ VacantBytes >= tx.len
  /\ PushPayload(tx.len, "iter", tx.items - 1, 0)

LoopEnds ==
  /\ tx.at \in {"slice", "iter"}
  /\ tx' = TxIdle
  /\ UNCHANGED <<ringVars, closed, shutdown, rx>>

(* Mutant: the wait is not cut down to what the rings can hold. *)
WaitVacantUnclamped(until, i, b) ==
  /\ tx.at = "idle"
  /\ tx' = IF VacantItems >= i /\ VacantBytes >= b
           THEN Room(i, b) ELSE Tx(until, "idle", 0, i, b)
  /\ UNCHANGED <<ringVars, closed, shutdown, rx>>

(* wait_vacant and wait_shutdown_or_vacant; wait_empty is the wait for all   *)
(* the items' room and no bytes, or the shutdown.                            *)
WaitVacant(until, i, b) ==
  /\ tx.at = "idle"
  /\ tx' = LET n == Smaller(i, ControlCapacity)
               m == Smaller(b, PayloadCapacity)
           IN  IF VacantItems >= n /\ VacantBytes >= m
               THEN Room(n, m) ELSE Tx(until, "idle", 0, n, m)
  /\ UNCHANGED <<ringVars, closed, shutdown, rx>>

RoomHasCome == VacantItems >= tx.items /\ VacantBytes >= tx.bytes

(* Mutant: only the ring of the items is waited for. *)
WaitVacantItems ==
  /\ tx.at \in RoomWaits
  /\ \/ VacantItems >= tx.items /\ tx' = Room(tx.items, tx.bytes)
     \/ tx.at = "shutdown or vacant" /\ shutdown /\ tx' = TxIdle
  /\ UNCHANGED <<ringVars, closed, shutdown, rx>>

(* The two rings are waited for one after the other; the room found in the   *)
(* first only grows meanwhile.  wait_vacant is deaf to the shutdown signal.  *)
WaitVacantEnds ==
  /\ tx.at \in RoomWaits
  /\ \/ RoomHasCome /\ tx' = Room(tx.items, tx.bytes)
     \/ tx.at = "shutdown or vacant" /\ shutdown /\ tx' = TxIdle
  /\ UNCHANGED <<ringVars, closed, shutdown, rx>>

(* vacant_units_for says yes.  So does the wait_vacant of a monitored actor, *)
(* which asks it first and only waits after a no.                            *)
VacantUnitsFor(i, b) ==
  /\ tx.at = "idle" /\ AtLeast(<<VacantItems, VacantBytes>>, <<i, b>>)
  /\ tx' = Told(i, b)
  /\ UNCHANGED <<ringVars, closed, shutdown, rx>>

(* mark_closed signals on the control ring first. *)
MarkClosed ==
  /\ tx.at = "idle" /\ closed = 0
  /\ closed' = 1
  /\ tx' = Tx("closing", "idle", 0, 0, 0)
  /\ UNCHANGED <<ringVars, shutdown, rx>>

MarkPayloadClosed ==
  /\ tx.at = "closing"
  /\ closed' = 2
  /\ tx' = TxIdle
  /\ UNCHANGED <<ringVars, shutdown, rx>>

-----------------------------------------------------------------------------
(* The consumer.                                                            *)

Deliver(numbers, from, to) == out' = [items |-> numbers, from |-> from, to |-> to]

(* try_take finds the head's bytes and copies them, pops the item ...        *)
TryTake ==
  /\ rx.at = "idle" /\ WaitingItems > 0
  /\ items[cr + 1].len <= WaitingBytes
  /\ cr' = cr + 1
  /\ Deliver({cr + 1}, pr, pr + items[cr + 1].len)
  /\ rx' = Rx("owing", 0, {}, items[cr + 1].len)
  /\ UNCHANGED <<items, pw, pr, closed, shutdown, tx>>

(* Mutant: the bytes' room is not given back. *)
TryTakeOfItemOnly ==
  /\ rx.at = "owing"
  /\ rx' = RxIdle
  /\ UNCHANGED <<ringVars, closed, shutdown, tx>>

(* ... and only then gives their room back. *)
TryTakePayload ==
  /\ rx.at = "owing"
  /\ pr' = pr + rx.need
  /\ rx' = RxIdle
  /\ UNCHANGED <<items, cr, pw, out, closed, shutdown, tx>>

(* Of the items from i to j, n are copied: at most max of them and only as   *)
(* long as they fit, the loop breaking off at the first that does not.       *)
Copied(i, j, max, room, n) ==
  LET most == Smaller(max, j - i + 1)
      need(k) == Before(i + k - 1) - Before(i - 1)
  IN  /\ n <= most /\ need(n) <= room
      /\ n < most => need(n + 1) > room

(* Where the control ring wraps: the last item of the first slice. *)
SliceEnd == Smaller(Len(items), cr + (ControlCapacity - (cr % ControlCapacity)))

(* take_slice copies from the first slice and then, even when it has broken  *)
(* off there, from the second.                                               *)
TakeSlice(max, target) ==
  /\ rx.at = "idle" /\ WaitingItems > 0
  /\ \E n, m \in 0..ControlCapacity :
       LET length == Before(cr + n) - Before(cr) IN
       /\ Copied(cr + 1, SliceEnd, max, target, n)
       /\ Copied(SliceEnd + 1, Len(items), max - n, target - length, m)
       /\ rx' = Rx("copying", n + m, (cr + 1 .. cr + n) \cup (SliceEnd + 1 .. SliceEnd + m),
                   length + Before(SliceEnd + m) - Before(SliceEnd))
  /\ UNCHANGED <<ringVars, closed, shutdown, tx>>

(* consume_messages, and peek_slice followed by advance_take_index: the      *)
(* slices of the items are taken first, those of the bytes after.            *)
PeekItems ==
  /\ rx.at = "idle" /\ WaitingItems > 0
  /\ rx' = Rx("peeked", WaitingItems, {}, 0)
  /\ UNCHANGED <<ringVars, closed, shutdown, tx>>

(* Of the items in sight a number, limited by bytes or by the callback, is   *)
(* consumed; need are their bytes and those of the one it stopped at, which  *)
(* has been cut out of the slices too.                                       *)
PeekPayload(n) ==
  /\ rx.at = "peeked" /\ n <= rx.count
  /\ rx' = Rx("copying", n, cr + 1 .. cr + n, Before(cr + n) - Before(cr))
  /\ UNCHANGED <<ringVars, closed, shutdown, tx>>

(* Mutant: the last of the waiting bytes is left behind. *)
AdvancePayloadLess ==
  /\ rx.at = "copying"
  /\ pr' = pr + Smaller(rx.need, WaitingBytes - 1)
  /\ Deliver(rx.take, pr, pr + rx.need)
  /\ rx' = Rx("copied", rx.count, rx.take, rx.need)
  /\ UNCHANGED <<items, cr, pw, closed, shutdown, tx>>

(* Both give back the room of the bytes first and that of the items after. *)
AdvancePayload ==
  /\ rx.at = "copying"
  /\ LET n == Smaller(rx.need, WaitingBytes) IN
     /\ pr' = pr + n
     /\ Deliver(rx.take, pr, pr + n)
     /\ rx' = Rx("copied", rx.count, rx.take, n)
  /\ UNCHANGED <<items, cr, pw, closed, shutdown, tx>>

AdvanceControl ==
  /\ rx.at = "copied"
  /\ cr' = cr + rx.count
  /\ rx' = RxIdle
  /\ UNCHANGED <<items, pw, pr, out, closed, shutdown, tx>>

(* wait_avail, wait_closed_or_avail and wait_shutdown_or_avail wait for items *)
(* only; the last does not look before it waits.                              *)
WaitAvail(until, n) ==
  /\ rx.at = "idle"
  /\ rx' = Rx(until, n, {}, 0)
  /\ UNCHANGED <<ringVars, closed, shutdown, tx>>

(* Mutant: the closing signal does not end a wait. *)
WaitAvailPastTheEnd ==
  /\ rx.at \in Waits
  /\ \/ WaitingItems >= rx.count /\ rx' = Offer(rx.count)
     \/ rx.at = "shutdown or avail" /\ shutdown /\ rx' = RxIdle
  /\ UNCHANGED <<ringVars, closed, shutdown, tx>>

(* A signal that has been seen already compares pairs and may say no where a *)
(* fresh one says yes; either is taken for the answer.                       *)
WaitAvailEnds ==
  /\ rx.at \in Waits
  /\ \/ WaitingItems >= rx.count /\ rx' = Offer(rx.count)
     \/ /\ \/ rx.at = "closed or avail" /\ closed >= 1
                /\ ~AtLeast(<<WaitingItems, WaitingBytes>>, <<rx.count, 1>>)
           \/ rx.at = "shutdown or avail" /\ shutdown
        /\ rx' = RxIdle
  /\ UNCHANGED <<ringVars, closed, shutdown, tx>>

(* is_closed_and_empty takes up to four looks: are the items empty, is their *)
(* signal given, are the bytes empty, is theirs.                             *)
Look(at, yes, then) ==
  /\ rx.at = at
  /\ rx' = IF yes THEN Rx(then, 0, {}, 0) ELSE RxIdle
  /\ UNCHANGED <<ringVars, closed, shutdown, tx>>

IsEmpty == WaitingItems = 0 /\ Look("idle", TRUE, "no items")

(* Mutant: the items' signal is not looked at before the ring of the bytes. *)
IsClosedUnchecked == Look("no items", TRUE, "items closed")

IsClosed == Look("no items", closed >= 1, "items closed")
IsPayloadEmpty == Look("items closed", WaitingBytes = 0, "no bytes")
IsPayloadClosed == Look("no bytes", closed = 2, "finished")

-----------------------------------------------------------------------------
(* The graph fires both actors' one-shots. *)
Shutdown ==
  /\ ~shutdown /\ shutdown' = TRUE
  /\ UNCHANGED <<ringVars, closed, tx, rx>>

RoomNeverComes == tx.at = "vacant" /\ ~RoomHasCome
Starved        == rx.at \in Waits /\ WaitingItems < rx.count

(* The stream is closed, and each side has finished or waits for what will   *)
(* not come, with a wait that nothing will end.                              *)
Quiescent ==
  /\ closed = 2
  /\ tx.at = "idle" \/ RoomNeverComes
  /\ rx.at = "finished" \/ (rx.at = "avail" /\ Starved)
  /\ UNCHANGED vars

(* The consumer waits for more items than there are while the producer waits *)
(* for more room, or blocks its thread for the room of their bytes.          *)
Entangled ==
  /\ tx.at = "blocked" \/ RoomNeverComes
  /\ Starved
  /\ UNCHANGED vars

Producer ==
  \/ \E len \in Lengths : \/ TrySend(len) \/ SendAsync(len)
                          \/ SliceNext(len) \/ IterNext(len)
  \/ SendAsyncRoom \/ SendAsyncGivesUp \/ SendSlice \/ SendIter \/ IterUnblocks
  \/ PushItem \/ LoopEnds \/ WaitVacantEnds \/ MarkClosed \/ MarkPayloadClosed
  \/ \E i \in 1..ControlCapacity :
        \/ \E until \in RoomWaits, b \in 0 .. PayloadCapacity + 1 : WaitVacant(until, i, b)
        \/ \E b \in 1..PayloadCapacity : VacantUnitsFor(i, b)

Consumer ==
  \/ TryTake \/ TryTakePayload \/ PeekItems \/ AdvancePayload \/ AdvanceControl
  \/ \E max \in 1..ControlCapacity, target \in Targets : TakeSlice(max, target)
  \/ \E n \in 0..ControlCapacity : PeekPayload(n)
  \/ \E until \in Waits, n \in 1..ControlCapacity : WaitAvail(until, n)
  \/ WaitAvailEnds \/ IsEmpty \/ IsClosed \/ IsPayloadEmpty \/ IsPayloadClosed

Next == Producer \/ Consumer \/ Shutdown \/ Quiescent \/ Entangled

Spec == Init /\ [][Next]_vars

(* What has begun goes on, the loops of the producer end, and a consumer     *)
(* that comes back from its waits takes, or looks for the end, in each turn  *)
(* of its loop.  The producer need not send or close.                        *)
Fairness ==
  /\ WF_vars(PushItem) /\ WF_vars(LoopEnds)
  /\ WF_vars(SendAsyncRoom) /\ WF_vars(IterUnblocks) /\ WF_vars(MarkPayloadClosed)
  /\ SF_vars(TryTake) /\ WF_vars(TryTakePayload)
  /\ WF_vars(\E n \in 0..ControlCapacity : PeekPayload(n))
  /\ WF_vars(AdvancePayload) /\ WF_vars(AdvanceControl)
  /\ WF_vars(WaitAvailEnds)
  /\ SF_vars(IsEmpty) /\ WF_vars(IsClosed) /\ WF_vars(IsPayloadEmpty)
  /\ WF_vars(IsPayloadClosed)

FairSpec == Spec /\ Fairness

-----------------------------------------------------------------------------
TxState == [at : {"idle", "pushed", "sending", "slice", "iter", "blocked",
                  "closing"} \cup RoomWaits,
            then : {"idle", "slice", "iter", "told"}, len : 0..PayloadCapacity,
            items : 0..ControlCapacity, bytes : 0..PayloadCapacity]
RxState == [at : {"idle", "owing", "peeked", "copying", "copied", "no items",
                  "items closed", "no bytes", "finished"} \cup Waits,
            count : 0..ControlCapacity, take : SUBSET (1 .. Len(items)),
            need : 0..PayloadCapacity]

TypeOK ==
  /\ items \in Seq([first : Nat, len : 0..PayloadCapacity])
  /\ cr \in 0 .. Len(items) /\ pw \in Nat /\ pr \in 0..pw
  /\ closed \in 0..2 /\ shutdown \in BOOLEAN
  /\ tx \in TxState /\ rx \in RxState
  /\ out.from \in Nat /\ out.to \in Nat

(* The bytes whose item is not pushed yet, and those that have been taken    *)
(* before or after their items were.                                         *)
Pending == IF tx.at = "pushed" THEN tx.len ELSE 0
Owed    == IF rx.at = "owing" THEN rx.need ELSE 0
Ahead   == IF rx.at = "copied" THEN rx.need ELSE 0

(* At every step of both sides the two rings hold the bytes of one another's *)
(* items, but for those of the pushes and pops that are under way, and both  *)
(* fit.  Nothing in the code says so but the order of its pushes and pops.   *)
Paired ==
  /\ pw = Before(Len(items)) + Pending
  /\ pr = Before(cr) - Owed + Ahead
  /\ WaitingItems <= ControlCapacity /\ WaitingBytes <= PayloadCapacity

(* Whenever the consumer looks, the bytes of every item in sight are there:  *)
(* cutting them out of the slices of the payload ring does not panic, and no *)
(* take or advance finds less than it needs.                                 *)
SlicesInRange ==
  /\ rx.at \in {"idle", "peeked"} => Before(Len(items)) - Before(cr) <= WaitingBytes
  /\ rx.at = "copying" => rx.need <= WaitingBytes

(* The room that a wait has promised, or a count that the loops live on      *)
(* without counting again, is there; so are the items a wait has promised.   *)
PromisesKept ==
  /\ tx.at \in {"idle", "pushed", "slice", "iter"} /\ tx.then # "told" =>
       tx.items <= VacantItems - (IF tx.at = "pushed" THEN 1 ELSE 0)
       /\ tx.bytes <= VacantBytes
  /\ rx.at = "idle" => rx.count <= WaitingItems

(* A yes of vacant_units_for, and with it one of a monitored actor's         *)
(* wait_vacant, still holds for the items when the producer acts on it, but  *)
(* for the bytes only when no item's room was to spare.  (core_tx.rs says    *)
(* that the size fits then, and docs/spec/02-actor.md that wait_vacant       *)
(* completes only when the threshold is met: neither is so.)                 *)
RoomAsTold ==
  tx.then = "told" =>
    /\ tx.items <= VacantItems
    /\ tx.bytes <= VacantBytes \/ tx.items < VacantItems

(* is_closed_and_empty may miss an item that is sent between its looks, as   *)
(* it does on a plain channel; but then it has no bytes.                     *)
FinishedLeavesNoBytes ==
  rx.at = "finished" => closed = 2 /\ WaitingBytes = 0

(* A delivery is a run of items in their order, with all of their bytes and  *)
(* no others (channel.stream-dual-buffer, distributed.aqueduct-stream).      *)
DeliveredWhole ==
  out.items # {} => \E i, j \in out.items :
    /\ out.items = i..j
    /\ out.from = items[i].first /\ out.to = End(j)

(* Sending ends, unless the consumer waits for more items than have come     *)
(* while the producer blocks on the bytes.                                   *)
SendsReturn ==
  tx.at \in {"pushed", "sending", "slice", "iter", "blocked"} ~> tx.at = "idle" \/ Starved

(* A consumer comes to the end of a closed stream, unless it waits for items *)
(* that will not come with a wait that the closing signal does not end; the  *)
(* shutdown signal ends wait_shutdown_or_avail but not wait_avail.           *)
ClosedStreamEnds ==
  /\ closed = 2 ~> \/ rx.at = "finished"
                   \/ Starved /\ (rx.at = "avail" \/ (rx.at = "shutdown or avail" /\ ~shutdown))
  /\ (closed = 2 /\ shutdown) ~> rx.at = "finished" \/ (rx.at = "avail" /\ Starved)

(* What has been handed over, though its room is still to be given back. *)
Received == IF rx.at = "copied" THEN cr + rx.count ELSE cr

(* Every step on the two rings is a step of a first-in first-out queue of    *)
(* items with their bytes or leaves it alone.                                *)
Fifo == INSTANCE StreamFifo WITH received <- Received

ImplementsStream == Fifo!Spec
=============================================================================
