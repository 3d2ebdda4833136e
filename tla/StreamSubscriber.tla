-------------------------- MODULE StreamSubscriber --------------------------
(***************************************************************************)
(* The actor that subscribes to an Aeron stream: the loop of               *)
(* distributed/aeron_subscribe.rs, the reassembly of fragments into        *)
(* messages for each session (Defrag, StreamTx::fragment_consume) and the  *)
(* flushing of whole messages into a stream channel, whose consumer works  *)
(* on another thread.                                                      *)
(*                                                                         *)
(* Aeron is external: it hands the fragments of a session over in their    *)
(* order, as many per poll as it likes up to the limit, and interleaves    *)
(* the sessions as it likes.  All fragments of a message but the last are  *)
(* of one length.  A byte is <<s, k>>, a byte of message k of session s.   *)
(* Rates and delays are left out: the loop may come round at any time.     *)
(***************************************************************************)
EXTENDS Naturals, Sequences, FiniteSets, SequencesExt

CONSTANTS
  ControlCapacity, PayloadCapacity,  \* of the channel, and of each session's rings
  Fragment,                          \* the most bytes of a fragment
  Published                          \* the lengths of the messages of each session

Sessions == DOMAIN Published

Fragments(length) == (length + Fragment - 1) \div Fragment
Least(a, b) == IF a < b THEN a ELSE b

(* How many fragments are expected to fit into a session's vacant bytes. *)
Expected(bytes) == (bytes * ControlCapacity) \div PayloadCapacity

ASSUME SubscriberAssumption ==
  /\ {ControlCapacity, PayloadCapacity, Fragment} \subseteq Nat \ {0}
  /\ \A s \in Sessions : Published[s] \in Seq(1..PayloadCapacity)

(* Without this more fragments are asked for than fit. *)
ASSUME FragmentsFit == Fragment * ControlCapacity <= PayloadCapacity

(* Without this the loop never asks for the rest of a message again. *)
ASSUME MessagesFit ==
  \A s \in Sessions : \A k \in DOMAIN Published[s] :
    Expected(PayloadCapacity - (Fragments(Published[s][k]) - 1) * Fragment) > 0

VARIABLES
  image,    \* of each session: the message and the bytes of it that Aeron is at
  defrag,   \* of each session: the rings of whole messages' lengths and of bytes,
            \* and the bytes of the message that is not whole
  known,    \* the sessions that have such rings
  ready,    \* the sessions with whole messages, in their turn
  control, payload,  \* the rings of the channel
  sub,      \* where the actor is; what is left of a poll or of the sessions to
            \* flush; whether the poll has brought anything; what is being flushed
  stop,     \* the shutdown has been requested
  received  \* what the consumer has taken of each session

vars == <<image, defrag, known, ready, control, payload, sub, stop, received>>

Image(k, at) == [k |-> k, at |-> at]
Rings(lengths, bytes, running) == [lengths |-> lengths, bytes |-> bytes, running |-> running]
Sub(at, left, got, count) == [at |-> at, left |-> left, got |-> got, count |-> count]
At(at) == Sub(at, 0, FALSE, 0)

Init ==
  /\ image = [s \in Sessions |-> Image(1, 0)]
  /\ defrag = [s \in Sessions |-> Rings(<<>>, <<>>, 0)]
  /\ known = {} /\ ready = <<>> /\ control = <<>> /\ payload = <<>>
  /\ sub = At("running") /\ stop = FALSE
  /\ received = [s \in Sessions |-> <<>>]

Channel == <<control, payload, received>>
Reassembly == <<image, defrag, known, ready>>

-----------------------------------------------------------------------------
(* The loop.                                                                *)

(* is_running closes the channel and leaves, whatever is still to be flushed. *)
Leave ==
  /\ sub.at = "running" /\ stop
  /\ sub' = At("ended")
  /\ UNCHANGED <<Reassembly, Channel, stop>>

StartPolling ==
  /\ sub.at = "running" /\ ~stop /\ Len(control) < ControlCapacity
  /\ sub' = At("polling")
  /\ UNCHANGED <<Reassembly, Channel, stop>>

(* Mutant: as if the fragments took slots of the items only. *)
RoomForItems == Min({ControlCapacity - Len(defrag[s].lengths) : s \in known} \cup {ControlCapacity})

(* defrag_has_room_for: the least of all sessions, as any may come next. *)
Room ==
  LET Of(d) == Least(ControlCapacity - Len(d.lengths), Expected(PayloadCapacity - Len(d.bytes)))
  IN Min({Of(defrag[s]) : s \in known} \cup {ControlCapacity})

Poll ==
  /\ sub.at = "polling"
  /\ sub' = IF Room = 0 THEN At("flushing") ELSE Sub("reading", Room, FALSE, 0)
  /\ UNCHANGED <<Reassembly, Channel, stop>>

Push(ring, elems, capacity) == ring \o SubSeq(elems, 1, Least(Len(elems), capacity - Len(ring)))
Copies(n, elem) == [i \in 1..n |-> elem]

(* from_defrag, and the reset after it. *)
Ends(d) == Rings(Push(d.lengths, <<d.running>>, ControlCapacity), d.bytes, 0)

Ready(s) == IF s \in ToSet(ready) THEN ready ELSE Append(ready, s)

(* fragment_consume, called by the poll for each fragment.  What does not fit *)
(* into the ring is cut off.                                                  *)
Consume(s) ==
  /\ sub.at = "reading" /\ sub.left > 0 /\ image[s].k <= Len(Published[s])
  /\ LET k == image[s].k
         d == defrag[s]
         n == Least(Fragment, Published[s][k] - image[s].at)
         isEnd == image[s].at + n = Published[s][k]
         bytes == Push(d.bytes, Copies(n, <<s, k>>), PayloadCapacity)
         more == Rings(d.lengths, bytes, d.running + Len(bytes) - Len(d.bytes))
     IN /\ image' = [image EXCEPT ![s] = IF isEnd THEN Image(k + 1, 0) ELSE Image(k, @.at + n)]
        /\ defrag' = [defrag EXCEPT ![s] = IF isEnd THEN Ends(more) ELSE more]
        /\ ready' = IF isEnd THEN Ready(s) ELSE ready
  /\ known' = known \cup {s}
  /\ sub' = Sub("reading", sub.left - 1, TRUE, 0)
  /\ UNCHANGED <<Channel, stop>>

(* With anything read the loop polls again. *)
PollReturns ==
  /\ sub.at = "reading"
  /\ sub' = IF sub.got THEN At("polling") ELSE At("flushing")
  /\ UNCHANGED <<Reassembly, Channel, stop>>

(* fragment_flush_ready gives each session that is ready one turn. *)
StartFlushing ==
  /\ sub.at = "flushing"
  /\ sub' = IF ready = <<>> THEN At("running") ELSE Sub("turn", Len(ready), FALSE, 0)
  /\ UNCHANGED <<Reassembly, Channel, stop>>

Turn(left) == IF left = 0 THEN At("running") ELSE Sub("turn", left, FALSE, 0)

(* The bytes of the first n messages. *)
Bytes(lengths) ==
  LET upTo[n \in 0..Len(lengths)] == IF n = 0 THEN 0 ELSE upTo[n - 1] + lengths[n]
  IN upTo

(* How many whole messages fit into both rings of the channel. *)
Whole(lengths) ==
  Max({n \in 0..Least(Len(lengths), ControlCapacity - Len(control)) :
         Bytes(lengths)[n] <= PayloadCapacity - Len(payload)})

(* flush_defrag_messages: the bytes, then the items; none of either when the *)
(* next message does not fit.                                                *)
FlushNone ==
  /\ sub.at = "turn" /\ Whole(defrag[Head(ready)].lengths) = 0
  /\ ready' = Append(Tail(ready), Head(ready))
  /\ sub' = Turn(sub.left - 1)
  /\ UNCHANGED <<image, defrag, known, Channel, stop>>

FlushPayload ==
  /\ sub.at = "turn"
  /\ LET d == defrag[Head(ready)]
         n == Whole(d.lengths)
         b == Bytes(d.lengths)[n]
     IN /\ n > 0
        /\ payload' = Push(payload, SubSeq(d.bytes, 1, b), PayloadCapacity)
        /\ defrag' = [defrag EXCEPT ![Head(ready)] =
                        Rings(d.lengths, SubSeq(d.bytes, b + 1, Len(d.bytes)), d.running)]
        /\ sub' = Sub("pushed", sub.left, FALSE, n)
  /\ UNCHANGED <<image, known, ready, control, received, stop>>

(* Mutant: a session that could only flush a part is forgotten. *)
TurnsOver(s, left) == Tail(ready)

(* A session with more to flush is at the end of the queue again. *)
Requeued(s, left) == IF left = <<>> THEN Tail(ready) ELSE Append(Tail(ready), s)

FlushItems ==
  /\ sub.at = "pushed"
  /\ LET s == Head(ready)
         d == defrag[s]
         left == SubSeq(d.lengths, sub.count + 1, Len(d.lengths))
         Item(length) == [session |-> s, length |-> length]
     IN /\ control' = control \o [i \in 1..sub.count |-> Item(d.lengths[i])]
        /\ defrag' = [defrag EXCEPT ![s] = Rings(left, d.bytes, d.running)]
        /\ ready' = Requeued(s, left)
  /\ sub' = Turn(sub.left - 1)
  /\ UNCHANGED <<image, known, payload, received, stop>>

-----------------------------------------------------------------------------
(* The consumer: try_take of the stream takes an item with its bytes. *)
Take ==
  /\ control # <<>> /\ Head(control).length <= Len(payload)
  /\ LET item == Head(control)
     IN /\ received' = [received EXCEPT ![item.session] =
                          Append(@, SubSeq(payload, 1, item.length))]
        /\ payload' = SubSeq(payload, item.length + 1, Len(payload))
  /\ control' = Tail(control)
  /\ UNCHANGED <<Reassembly, sub, stop>>

RequestShutdown ==
  /\ ~stop /\ stop' = TRUE
  /\ UNCHANGED <<Reassembly, Channel, sub>>

Loop == Leave \/ StartPolling \/ Poll \/ PollReturns \/ StartFlushing
        \/ FlushNone \/ FlushPayload \/ FlushItems

Next == Loop \/ (\E s \in Sessions : Consume(s)) \/ Take \/ RequestShutdown

Spec == Init /\ [][Next]_vars

(* The actor is polled and the consumer takes.  A session whose fragments    *)
(* are asked for again and again is served in the end: a poll goes round the *)
(* images and is not empty for ever when there is something to read.         *)
Fairness ==
  /\ WF_vars(Loop)
  /\ WF_vars(Take)
  /\ \A s \in Sessions : SF_vars(Consume(s))

FairSpec == Spec /\ Fairness

-----------------------------------------------------------------------------
(* What the consumer takes from a session are its messages as they were      *)
(* published, whole and in their order, with none left out, repeated or      *)
(* mixed up with another session's: up to the last one taken, also when the  *)
(* shutdown has dropped what was not flushed.                                *)
MessagesWhole ==
  \A s \in Sessions : \A k \in DOMAIN received[s] :
    k <= Len(Published[s]) /\ received[s][k] = Copies(Published[s][k], <<s, k>>)

(* Every message published arrives unless the shutdown comes first: a        *)
(* session waiting for room never keeps it from itself or the others.        *)
EverythingArrives ==
  <>(stop \/ \A s \in Sessions : Len(received[s]) = Len(Published[s]))
=============================================================================
