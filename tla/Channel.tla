------------------------------- MODULE Channel -------------------------------
(***************************************************************************)
(* A channel between two actors: Tx<T> (core_tx.rs, steady_tx.rs) and      *)
(* Rx<T> (core_rx.rs, steady_rx.rs) on a lock-free ring with one producer  *)
(* and one consumer.                                                       *)
(*                                                                         *)
(* The ring itself is the async-ringbuf crate, modelled from its use here: *)
(* both indices run modulo twice the capacity, so that full and empty      *)
(* differ, and the slots modulo the capacity.  Each side owns one index    *)
(* and reads the other's; a step is one access to the shared ring, closing *)
(* signal or shutdown signal, so an operation that looks twice takes two   *)
(* steps.  The messages are the numbers 1, 2, 3, ... in sending order.     *)
(*                                                                         *)
(* Abstracted: metadata, telemetry, saturation warnings, how long a wait   *)
(* takes.  A message that a send gives back to its caller is the next one  *)
(* to be sent.                                                             *)
(***************************************************************************)
EXTENDS Integers, Sequences

CONSTANTS Capacity,     \* ChannelBuilder::with_capacity
          MaxMessages,  \* a bound on how many messages are sent
          MaxPeeks      \* a bound on the peeks at one message

ASSUME ChannelAssumption ==
  Capacity \in Nat \ {0} /\ MaxMessages \in Nat /\ MaxPeeks \in Nat

(* Mutant: the indices run modulo the capacity, so that full looks empty. *)
PlainModulus == Capacity

Modulus == 2 * Capacity

VARIABLES
  ring,         \* the slots
  write_idx,    \* owned by the producer
  read_idx,     \* owned by the consumer
  sent,         \* how many messages have entered the ring
  closed,       \* the producer has used up make_closed
  shutdown,     \* the graph has fired the shutdown one-shots
  tx,           \* what the producer is in the middle of
  rx,           \* what the consumer is in the middle of
  taken,        \* how many messages have left it
  peek          \* the record of peeks: whether take_count has moved from
                \* cached_take_count, peek_repeats and, for the properties
                \* only, how often the head has been peeked

ringVars == <<ring, write_idx, read_idx, sent, taken>>
vars == <<ringVars, closed, shutdown, tx, rx, peek>>

(* The room for new messages, and the messages waiting. *)
Occupied == (Modulus + write_idx - read_idx) % Modulus
Vacant   == Capacity - Occupied

(* The waits of either side, by what the code's names say they wait for.     *)
RoomWaits == {"vacant", "shutdown or vacant"}
Waits     == {"avail", "closed or avail", "shutdown or avail"}

(* What a side is doing, and what the last wait or count of it has promised: *)
(* units of room, or of messages, that its next operation may rely on.       *)
TxState == [at : {"idle", "sending", "counting"} \cup RoomWaits, want : 0..Capacity,
            seen : 0 .. Modulus - 1, room : 0..Capacity]
RxState == [at : {"idle", "polling", "counting", "finished"} \cup Waits, want : 0..Capacity,
            seen : 0 .. Modulus - 1, items : 0..Capacity]

Idle     == [at |-> "idle", want |-> 0, seen |-> 0, room |-> 0]
IdleRx   == [at |-> "idle", want |-> 0, seen |-> 0, items |-> 0]
Promise(n) == [Idle EXCEPT !.room = n]
Offer(n)   == [IdleRx EXCEPT !.items = n]

Init ==
  /\ ring = [i \in 0 .. Capacity - 1 |-> 0]
  /\ write_idx = 0 /\ read_idx = 0 /\ sent = 0 /\ taken = 0
  /\ closed = FALSE /\ shutdown = FALSE
  /\ tx = Idle /\ rx = IdleRx
  /\ peek = [moved |-> FALSE, repeats |-> 0, looks |-> 0]

-----------------------------------------------------------------------------
(* The ring.                                                                *)

(* Mutant: the index is advanced without being wrapped. *)
PushUnwrapped(n) ==
  /\ ring' = [i \in DOMAIN ring |->
                LET ahead == (i + Modulus - write_idx) % Capacity
                IN  IF ahead < n THEN sent + ahead + 1 ELSE ring[i]]
  /\ write_idx' = write_idx + n
  /\ sent' = sent + n
  /\ UNCHANGED <<read_idx, taken>>

(* Mutant: only the first of the two slices of a push that wraps is copied. *)
PushFirstSlice(n) ==
  /\ ring' = [i \in DOMAIN ring |->
                LET ahead == i - (write_idx % Capacity)
                IN  IF ahead \in 0 .. n - 1 THEN sent + ahead + 1 ELSE ring[i]]
  /\ write_idx' = (write_idx + n) % Modulus
  /\ sent' = sent + n
  /\ UNCHANGED <<read_idx, taken>>

Push(n) ==
  /\ ring' = [i \in DOMAIN ring |->
                LET ahead == (i + Modulus - write_idx) % Capacity
                IN  IF ahead < n THEN sent + ahead + 1 ELSE ring[i]]
  /\ write_idx' = (write_idx + n) % Modulus
  /\ sent' = sent + n
  /\ UNCHANGED <<read_idx, taken>>

(* Mutant: a take does not move take_count. *)
PopUncounted(n) ==
  /\ read_idx' = (read_idx + n) % Modulus
  /\ taken' = taken + n
  /\ peek' = [peek EXCEPT !.looks = IF n > 0 THEN 0 ELSE @]
  /\ UNCHANGED <<ring, write_idx, sent>>

Pop(n) ==
  /\ read_idx' = (read_idx + n) % Modulus
  /\ taken' = taken + n
  /\ peek' = IF n = 0 THEN peek
             ELSE [moved |-> TRUE, repeats |-> peek.repeats, looks |-> 0]
  /\ UNCHANGED <<ring, write_idx, sent>>

Smaller(m, n) == IF m < n THEN m ELSE n

-----------------------------------------------------------------------------
(* The producer.                                                            *)

CanSend(n) == tx.at = "idle" /\ ~closed /\ sent + n <= MaxMessages

(* try_send, send_slice, and poke_slice followed by advance_send_index: as   *)
(* many of the n messages as there is room for.                              *)
TrySend(n) ==
  /\ CanSend(n)
  /\ Push(Smaller(n, Vacant))
  /\ tx' = Idle
  /\ UNCHANGED <<closed, shutdown, rx, peek>>

(* send_async finds the ring full and waits for whichever comes first: room, *)
(* the shutdown signal, or its timeout.                                      *)
SendAsync ==
  /\ CanSend(1) /\ Vacant = 0
  /\ tx' = [Idle EXCEPT !.at = "sending"]
  /\ UNCHANGED <<ringVars, closed, shutdown, rx, peek>>

(* Mutant: the send waits for one place more than it needs. *)
SendAsyncTooLong ==
  /\ tx.at = "sending" /\ Vacant > 1
  /\ Push(1)
  /\ tx' = Idle
  /\ UNCHANGED <<closed, shutdown, rx, peek>>

SendAsyncRoom ==
  /\ tx.at = "sending" /\ Vacant >= 1
  /\ Push(1)
  /\ tx' = Idle
  /\ UNCHANGED <<closed, shutdown, rx, peek>>

(* SendOutcome::Closed and SendOutcome::Timeout hand the message back.       *)
SendAsyncGivesUp ==
  /\ tx.at = "sending"
  /\ tx' = Idle
  /\ UNCHANGED <<ringVars, closed, shutdown, rx, peek>>

(* wait_vacant and wait_shutdown_or_vacant: an empty ring, or enough room,   *)
(* answers at once; a larger count than the capacity waits for all of it.    *)
(* wait_empty is the wait for all the room, or the shutdown.                 *)
WaitVacant(until, count) ==
  /\ tx.at = "idle"
  /\ LET safe_count == Smaller(count, Capacity) IN
     tx' = IF Vacant >= safe_count THEN Promise(safe_count)
           ELSE [Idle EXCEPT !.at = until, !.want = safe_count]
  /\ UNCHANGED <<ringVars, closed, shutdown, rx, peek>>

(* Mutant: the shutdown signal, too, ends the wait with a yes. *)
WaitVacantAlwaysYes ==
  /\ tx.at \in RoomWaits
  /\ Vacant >= tx.want \/ (tx.at = "shutdown or vacant" /\ shutdown)
  /\ tx' = Promise(tx.want)
  /\ UNCHANGED <<ringVars, closed, shutdown, rx, peek>>

(* wait_vacant is deaf to the shutdown signal. *)
WaitVacantEnds ==
  /\ tx.at \in RoomWaits
  /\ \/ Vacant >= tx.want /\ tx' = Promise(tx.want)
     \/ tx.at = "shutdown or vacant" /\ shutdown /\ tx' = Idle
  /\ UNCHANGED <<ringVars, closed, shutdown, rx, peek>>

(* vacant_units loads the consumer's index and then its own. *)
VacantUnits ==
  /\ tx.at = "idle"
  /\ tx' = [Idle EXCEPT !.at = "counting", !.seen = read_idx]
  /\ UNCHANGED <<ringVars, closed, shutdown, rx, peek>>

(* Mutant: the producer's count with the consumer's formula. *)
VacantUnitsOfConsumer == (Modulus + tx.seen - write_idx) % Modulus

VacantUnitsResult == (Capacity + tx.seen - write_idx) % Modulus

VacantUnitsAnswer ==
  /\ tx.at = "counting"
  /\ tx' = Promise(VacantUnitsResult)
  /\ UNCHANGED <<ringVars, closed, shutdown, rx, peek>>

MarkClosed ==
  /\ tx.at = "idle" /\ ~closed
  /\ closed' = TRUE
  /\ tx' = Idle
  /\ UNCHANGED <<ringVars, shutdown, rx, peek>>

-----------------------------------------------------------------------------
(* The consumer.                                                            *)

(* try_take, take_slice, and peek_slice followed by advance_read_index: as   *)
(* many of n messages as there are.                                          *)
TryTake(n) ==
  /\ rx.at = "idle"
  /\ Pop(Smaller(n, Occupied))
  /\ rx' = IdleRx
  /\ UNCHANGED <<closed, shutdown, tx>>

(* try_peek, and peek_async when its wait is over.                           *)
TryPeek ==
  /\ rx.at = "idle" /\ peek.looks < MaxPeeks
  /\ peek' = IF Occupied = 0 THEN [peek EXCEPT !.repeats = 0]
             ELSE [moved   |-> FALSE,
                   repeats |-> IF peek.moved THEN 0 ELSE peek.repeats + 1,
                   looks   |-> peek.looks + 1]
  /\ UNCHANGED <<ringVars, closed, shutdown, tx, rx>>

IsShowstopper(threshold) ==
  Occupied > 0 /\ ~peek.moved /\ peek.repeats >= threshold

(* wait_avail and wait_closed_or_avail look before they wait;                *)
(* wait_shutdown_or_avail does not, and select! may prefer the signal.       *)
WaitAvail(until, count) ==
  /\ rx.at = "idle"
  /\ rx' = IF until # "shutdown or avail" /\ Occupied >= count THEN Offer(count)
           ELSE [IdleRx EXCEPT !.at = until, !.want = count]
  /\ UNCHANGED <<ringVars, closed, shutdown, tx, peek>>

(* Mutant: wait_closed_or_avail listens to the shutdown signal instead. *)
WaitAvailPastTheEnd ==
  /\ rx.at \in Waits
  /\ \/ Occupied >= rx.want /\ rx' = Offer(rx.want)
     \/ shutdown /\ rx' = IdleRx
  /\ UNCHANGED <<ringVars, closed, shutdown, tx, peek>>

(* The closing signal ends wait_closed_or_avail, which then counts again;    *)
(* the shutdown signal ends the other two with a no.                         *)
WaitAvailEnds ==
  /\ rx.at \in Waits
  /\ \/ Occupied >= rx.want /\ rx' = Offer(rx.want)
     \/ /\ IF rx.at = "closed or avail" THEN closed /\ Occupied < rx.want ELSE shutdown
        /\ rx' = IdleRx
  /\ UNCHANGED <<ringVars, closed, shutdown, tx, peek>>

(* avail_units loads the producer's index and then its own. *)
AvailUnits ==
  /\ rx.at = "idle"
  /\ rx' = [IdleRx EXCEPT !.at = "counting", !.seen = write_idx]
  /\ UNCHANGED <<ringVars, closed, shutdown, tx, peek>>

AvailUnitsResult == (Modulus + rx.seen - read_idx) % Modulus

AvailUnitsAnswer ==
  /\ rx.at = "counting"
  /\ rx' = Offer(AvailUnitsResult)
  /\ UNCHANGED <<ringVars, closed, shutdown, tx, peek>>

(* is_closed_and_empty first looks at the ring and only then polls the       *)
(* closing signal.  A consumer that is told yes has finished.                *)
IsEmpty ==
  /\ rx.at = "idle" /\ Occupied = 0
  /\ rx' = [IdleRx EXCEPT !.at = "polling"]
  /\ UNCHANGED <<ringVars, closed, shutdown, tx, peek>>

PollClosed ==
  /\ rx.at = "polling"
  /\ rx' = IF closed THEN [IdleRx EXCEPT !.at = "finished"] ELSE IdleRx
  /\ UNCHANGED <<ringVars, closed, shutdown, tx, peek>>

-----------------------------------------------------------------------------
(* The graph fires both actors' one-shots. *)
Shutdown ==
  /\ ~shutdown /\ shutdown' = TRUE
  /\ UNCHANGED <<ringVars, closed, tx, rx, peek>>

RoomNeverComes == tx.at = "vacant" /\ Vacant < tx.want

(* Both sides have finished, the consumer perhaps too early, so that the     *)
(* producer may wait in vain for room.                                       *)
Quiescent ==
  /\ closed /\ rx.at = "finished"
  /\ tx.at = "idle" \/ RoomNeverComes
  /\ UNCHANGED vars

(* The producer waits for more room, and the consumer for more messages,     *)
(* than there can be together, each with a wait that no signal will end.     *)
Entangled ==
  /\ RoomNeverComes
  /\ rx.at = "closed or avail" /\ ~closed /\ Occupied < rx.want
  /\ UNCHANGED vars

Producer == \/ \E n \in 1 .. Capacity + 1 : TrySend(n)
            \/ \E until \in RoomWaits, n \in 1 .. Capacity + 1 : WaitVacant(until, n)
            \/ SendAsync \/ SendAsyncRoom \/ SendAsyncGivesUp
            \/ WaitVacantEnds \/ VacantUnits \/ VacantUnitsAnswer \/ MarkClosed

Consumer == \/ \E n \in 1 .. Capacity + 1 : TryTake(n)
            \/ \E until \in Waits, n \in 1 .. Capacity : WaitAvail(until, n)
            \/ TryPeek \/ WaitAvailEnds \/ AvailUnits \/ AvailUnitsAnswer
            \/ IsEmpty \/ PollClosed

Next == Producer \/ Consumer \/ Shutdown \/ Quiescent \/ Entangled

Spec == Init /\ [][Next]_vars

(* What has begun goes on; a consumer that comes back from its waits takes,  *)
(* and looks for the end when there is nothing to take, in each turn of its  *)
(* loop.  The producer need not send or close.                               *)
Fairness ==
  /\ WF_vars(SendAsyncRoom) /\ WF_vars(VacantUnitsAnswer)
  /\ SF_vars(Occupied > 0 /\ TryTake(1))
  /\ WF_vars(WaitAvailEnds) /\ WF_vars(AvailUnitsAnswer)
  /\ SF_vars(IsEmpty) /\ WF_vars(PollClosed)

FairSpec == Spec /\ Fairness

-----------------------------------------------------------------------------
TypeOK ==
  /\ ring \in [0 .. Capacity - 1 -> Nat]
  /\ write_idx \in 0 .. Modulus - 1 /\ read_idx \in 0 .. Modulus - 1
  /\ sent \in Nat /\ taken \in Nat
  /\ closed \in BOOLEAN /\ shutdown \in BOOLEAN
  /\ tx \in TxState /\ rx \in RxState
  /\ peek \in [moved : BOOLEAN, repeats : Nat, looks : Nat]

(* The indices count the messages, wherever they have wrapped to: what lies  *)
(* between them is what was sent and not yet taken, and it fits the ring.    *)
IndicesCount == Occupied = sent - taken /\ Occupied <= Capacity

(* vacant_units and avail_units subtract an index from a sum of usizes and   *)
(* assert that the remainder is at most the capacity.  Although the other    *)
(* side moves between the two loads, the subtraction does not go below zero  *)
(* and the assertion holds.                                                  *)
AssertionsHold ==
  /\ tx.at = "counting" => Capacity + tx.seen >= write_idx /\ VacantUnitsResult <= Capacity
  /\ rx.at = "counting" => Modulus + rx.seen >= read_idx /\ AvailUnitsResult <= Capacity

(* What a wait or a count has answered is still true when its caller acts on *)
(* it: the other side can only add to the room, or to the messages.          *)
PromisesKept == tx.room <= Vacant /\ rx.items <= Occupied

(* is_showstopper never accuses a message that has been peeked at less often *)
(* than the threshold, whatever was taken and peeked at before it.           *)
NoFalseShowstopper ==
  \A threshold \in 2 .. MaxPeeks + 1 : IsShowstopper(threshold) => peek.looks >= threshold

(* A consumer that is_closed_and_empty has told yes can rely on it: no more  *)
(* messages are left in the channel, or will ever be.                        *)
ClosedAndEmptyIsFinal == rx.at = "finished" => closed /\ Occupied = 0

(* A send that waits for room gets it, or gives up: the sender is blocked no *)
(* longer than the consumer stays away (channel.backpressure-never-drop).    *)
SendReturns == tx.at = "sending" ~> tx.at # "sending"

(* A consumer that goes on taking comes to the end of a closed channel.  One *)
(* that waits for messages that will not come with a wait that the closing   *)
(* signal does not end comes to it only when the graph is shut down.         *)
StrandedUntilShutdown ==
  rx.at \in {"avail", "shutdown or avail"} /\ Occupied < rx.want /\ ~shutdown

ClosedChannelEnds ==
  /\ closed ~> rx.at = "finished" \/ StrandedUntilShutdown
  /\ (closed /\ shutdown) ~> rx.at = "finished"

(* Every step of the channel is a step of a bounded first-in first-out queue *)
(* or leaves it alone: nothing is lost, doubled or overtaken in the ring.    *)
Fifo == INSTANCE BoundedFifo WITH
  queue <- [i \in 1..Occupied |-> ring[(read_idx + i - 1) % Capacity]],
  received <- taken

ImplementsFifo == Fifo!Spec
=============================================================================
