# TLA+ models of the steady-state stack

Steady State is a Rust framework for graphs of actors: each actor runs on an OS
thread (alone or in a troupe), actors are joined by bounded single-producer
single-consumer channels, a panicking actor is restarted with its state, and the
whole graph is stopped by a vote of its actors. This directory holds TLA+ models
of the parts whose correctness depends on who does what when, the TLC
configurations that check them on small instances, and theorems that TLAPS
proves for instances of every size. Paths below are relative to the repository
root (`core/src/...`); line numbers are those of the commit the models were
written from and are also in `PROJECT.json` (`map`).

    tlc -config GLOwner.cfg MCGraphLiveliness     # any run of the table below
    tlapm GraphLiveliness_proofs.tla              # the proofs
    tlapm Channel_proofs.tla
    tlapm StreamChannel_proofs.tla
    tlapm LambdaService_proofs.tla
    tlapm Packing_proofs.tla
    tlapm StreamSubscriber_proofs.tla
    tlapm Induction.tla

## 1. The system

| component | source (`core/src/`) | state | operations | hard part |
|---|---|---|---|---|
| Graph liveliness | `graph/liveliness.rs`, `shutdown.rs`, `state.rs`, `vote.rs` | the graph's state, registered voters, ballots, running total, shutdown one-shots | register, request shutdown, vote, sweep for the dead, check, write a verdict | every step is a short hold of one reader-writer lock by one of many threads |
| Graph, builder | `graph/graph.rs`, `builder.rs` | the graph's owner, Ctrl-C handler, barrier | build, start, request_shutdown, block_until_stopped | owner and signal handler run the same protocol concurrently |
| Actor lifecycle | `actor_builder/*.rs`, `steady_actor_core.rs` | threads, registrations, restarts | spawn, is_running, panic and restart, end | a panic between any two steps of the vote |
| Channels | `core_tx.rs`, `core_rx.rs`, `steady_tx.rs`, `steady_rx.rs` | ring, two indices, closing and shutdown signals, peek counters | send, take, peek, waits, counts, close | two threads without a lock; stale indices; waits with several wake-ups |
| Stream channels | `core_tx_stream.rs`, `core_rx_stream.rs` | two rings: control items and payload bytes | as channels, on pairs | the two rings are updated one after the other |
| Lazy channels | `channel_builder_lazy.rs` | the builder until the first use | establish on clone | established after shutdown one-shots were fired |
| Bundles, loop driver | `steady_rx.rs`, `steady_tx.rs`, `loop_driver.rs` | several lanes | wait for some lanes | counting ready lanes, closed lanes |
| Actor state | `state_management.rs` | state under a lock, dirty bit, file | lock, persist, drop hook, reload | crash while the file is rewritten |
| Lambda bridge | `graph/lambda_bridge.rs` | one slot each way, a condition variable | inject, wait, send, wait_output, close | late answers, lost wake-ups |
| Packing | `actor_builder/pack.rs`, `slot_budget.rs`, `graph/graph.rs` | bags of actors until start, then a union-find forest | cluster actors on threads | ties, detours, bundle siblings, actors that are not packable |
| Distributed streams | `distributed/*.rs` | Aeron publications and subscriptions | publish, subscribe, poll schedule | external transport, back-pressure |
| Telemetry | `telemetry/`, `monitor*`, `channel_stats.rs`, `actor_stats.rs`, `dot/` | frames, histograms | collect, serve | only its shutdown vote touches the actors |
| Testing | `graph_testing.rs`, `simulate_edge.rs` | side channel | inject, await | request and answer pairing |
| Rest | `runner.rs`, `abstract_executor.rs`, `serialize/`, `install/`, `cargo-steady-state/` | - | - | pure I/O, configuration, code generation |

How they interact: actors call `is_running` in their loops, which reads the
liveliness state and, when a stop is requested, runs the actor's veto closure
(often built from the closed-and-empty tests of its channels) and casts its
ballot. `request_shutdown` resets the ballots, sets `StopRequested`, counts the
dead, and fires the one-shots that end the waits of channels and actors.
`block_until_stopped` waits for its own one-shot and then polls the vote with a
timeout. A panicking actor is restarted by its spawn loop while the graph is up
and is marked dead when it is on its way down.

What makes each component correct:

* liveliness: a stop is clean only if every voter agreed or ended, nobody is
  counted who did not, everybody is notified, the owner gets its answer;
* channels: a bounded first-in first-out queue, counts and waits that stay true
  until used, waits that end, a consumer that sees all of a closed channel;
* streams: items and payload bytes stay paired, whatever is sent, sliced, taken
  or reassembled;
* state and bridge: what was answered after a persist is found after a crash, a
  request reaches the actor and its answer the host, none twice;
* packing: every actor on one thread, no more threads than the budget allows, the
  smallest channels inside them.

## 2. Modules

| module | what it is |
|---|---|
| `Shutdown` | the abstract contract of a shutdown: one request, an electorate, consent, one lasting verdict; no threads, no locks |
| `GraphLiveliness` | the protocol as the threads run it, one step per hold of the lock |
| `MCGraphLiveliness` | the sets of actors, requesters and watchers for TLC |
| `GraphLiveliness_proofs` | inductive invariants and theorems about `GraphLiveliness` |
| `BoundedFifo` | the abstract promise of a channel: a bounded queue |
| `Channel` | `Tx` and `Rx` on the ring, one step per access to what the two sides share |
| `MCChannel` | instances for TLC |
| `Channel_proofs` | index arithmetic, invariants and the refinement of `Channel` for every capacity |
| `StreamFifo` | the abstract promise of a stream: a bounded queue of whole messages |
| `StreamChannel` | a stream's control and payload ring, one step per push, take or look |
| `MCStreamChannel` | instances for TLC |
| `StreamChannel_proofs` | pairing, slices, promises and the refinement of `StreamChannel` for every capacity |
| `LambdaBridge` | the actions of the bridge between a host thread and an actor |
| `ActorState` | the actions of an actor's persistent state |
| `LambdaService` | both of them composed with the actor that uses them, its troupe and its process |
| `MCLambdaService` | instances for TLC |
| `LambdaService_proofs` | inductive invariants and theorems about `LambdaService` for every kind of state |
| `Packing` | start's packing of dynamic troupes, one step per edge |
| `MCPacking` | the graphs of four actors for TLC |
| `Packing_proofs` | orders, the linedance, the invariants of the union-find and all properties of `Packing`, for every graph |
| `StreamSubscriber` | the Aeron subscriber: reassembly and flushing of several sessions into one stream |
| `MCStreamSubscriber` | the messages published, for TLC |
| `StreamSubscriber_proofs` | layout of bytes in the rings and the safety of `StreamSubscriber`, for all messages and capacities |
| `Induction` | least and greatest elements of sets of numbers, for the two modules of proofs above |

### GraphLiveliness

State and code: `gstate` is `GraphLiveliness.state`, `voter` is
`registered_voters`, `ballots`/`inFavor` are the indices of `votes` and those
with `in_favor`, `total` is `vote_in_favor_total`, `oneshots`/`fired` are the
senders still in `shutdown_one_shot_vec` and the receivers that have resolved.
`pc` says where each thread is, and `copy` what it learnt under a lock it has
dropped since (the ballots to install, the dead to count). `expired` holds the
watchers whose timeout has passed; time itself is not modelled.

An actor is built (`BuildActor`, its one-shot), registered and spawned or not
(`RegisterActor`), polls (`Poll`), runs its closure without the lock
(`AcceptFn`; the telemetry collector's closure looks at the total), casts its
ballot (`ApplyShutdownVote`), ends or panics and is restarted or marked dead
(`Finish`, `Panic`, `Unwind`). A request is `RequestShutdown` (the state is
read), `Snapshot`, `Install`, `CollectTheDead`, `CountTheDead`, `FireOneshots`;
`block_until_stopped` is `BlockUntilStopped`, `PushOneshot`, `Recheck`, `Await`
and then `Check`, `CollectTheDead`, `CountTheDead`, `Verdict` of
`watch_shutdown`, which the Ctrl-C handler runs too.

Abstracted: timeouts (they may pass at any moment of a watch), the report of
the vote, ballot signatures. The ballots' own mutexes are only tried inside a hold
of the big lock: an actor casting its ballot holds it alone, but two sweeps share
it to read, and one that meets a ballot in the other's hands passes it over
(`HeldElsewhere`). The veto closure answers either way for a `Vetoer`, and yes
for the others.

### Channel

The ring is the external `ringbuf`/`async-ringbuf` crate: its operations are
modelled from their use (`Occupied`, `Vacant`, `Push`): indices modulo twice the
capacity, slots modulo the capacity. `Tx` owns `write_idx`, `Rx` owns
`read_idx`; `vacant_units` and `avail_units`, which load both indices, take two
steps, as do waits and `is_closed_and_empty`. `tx.room` and `rx.items` record
what the last wait or count has promised. Messages are numbered in sending
order, so that `BoundedFifo` can say what must come out.

The waits are kept apart by what ends them (`Waits`, `RoomWaits`). Of the
consumer's three only `wait_closed_or_avail` is ended by the closing signal; the
shutdown ends the other two. Of the producer's two, `wait_shutdown_or_vacant` is
ended by the shutdown and `wait_vacant` by nothing but room. So there are states
in which both sides sleep for good: `Entangled`, a `wait_vacant` and a
`wait_closed_or_avail` that ask for more than the ring has together, with the
producer unable to close. And a consumer may sit out the closing of its channel in
one of the other waits until the graph is shut down (`StrandedUntilShutdown`):
`ClosedChannelEnds` excepts that state, and says beside it that a channel which is
closed in a graph that is shut down ends without exception.
These are the waits of the channel; an actor's own `wait_avail` and `wait_vacant` add
the shutdown as one more way back with a no (`steady_actor_shadow.rs:492-505`), after
which the consumer or producer is where it would be had it not waited.

A producer does not send after it has closed (`debug_assert` at
`core_tx.rs:512`), and a consumer waits for at most `Capacity` messages.

### StreamChannel

`items` are the control items sent so far and `cr` how many of them have been
taken; `pw` and `pr` count the bytes written to and read from the payload ring.
A byte is known by its number, and an item by the number of its first byte and
its length, so that `StreamFifo` can say which bytes an item must come out with.
The two pushes of a send and the two moves of a take are steps of their own, in
the order of the code: bytes before item when sending, and in `take_slice` and
`consume_messages` when taking. The loops of `send_slice` and
`send_iter_until_full` count the room once and live on it (`SliceNext`,
`IterNext`); the latter blocks its thread until the next payload fits
(`IterUnblocks`). `tx.items`, `tx.bytes` and `rx.count` record what a wait has
promised. `SliceEnd` is where the control ring wraps: `as_slices` splits what
`take_slice` sees there.

Waits look at each ring by itself. `vacant_units_for` instead compares
two pairs as Rust does, lexicographically: with an item's room to spare it says
yes whatever the bytes. The `wait_vacant` of a monitored actor asks it first and
waits only after a no (`wait.rs:52`). The model keeps such an answer apart (`Told`):
`PromisesKept` is about the waits and the counts that the loops live on, and
`RoomAsTold` says what a yes of `vacant_units_for` is worth.

The number of control items ever sent is bounded by `MaxItems`.
Here too both sides may sleep for good, and the states are named so that TLC
reports any other without a successor. `Entangled`: the producer is blocked in
`send_iter_until_full`, or in a `wait_vacant` whose room never comes, and the
consumer waits for more items than there are (`Starved`). `Quiescent`: the stream
is closed, and a side that has not finished is in a wait that nothing ends.
`SendsReturn` excepts a starved consumer; `ClosedStreamEnds` one in `wait_avail`, which
neither signal ends, or in `wait_shutdown_or_avail` before the shutdown.

### LambdaService, with LambdaBridge and ActorState

`ingress` and `egress` are the bridge's slots; whatever is done under one mutex
is one step, but for the host, which keeps the egress mutex from its look at the
slot to its sleep (`HostLooks`, `HostSleeps`; `Send` waits for it). `close` is
three steps: flag, waker, condition variable, the last without the mutex, so a
host that is about to sleep misses it and sleeps until its timeout; no property
claims otherwise. A request is its number, an answer its request's number.

`value` is the option inside the state's lock, `store` what the next process
finds; a file may be `Torn` between `File::create` and the end of the write.
`guard` carries the dirty bit. The worker's loop is the one of
`examples/lambda_warm` with a state as `docs/spec/14-lambda.md` describes it;
what an application may do wrong in it (forgetting to persist, going on after a
failed save, panicking anywhere) is left open. `kept`, `lost` and `lapsed` are
history variables for the properties.

What the model shows beside the properties: an answer that comes after the
host's timeout is handed to the host's next request (nothing ties the two
together, so `AnswersInOrder` asks for no more than order); a state with hooks is
not saved when its guard is dropped (`on_drop: None`, `state_management.rs:240`,
where `docs/spec/07-state.md:19` asks for it), which is the exception `lapsed` in
`ParkedIsDurable`; a process that dies between truncating and writing the file
loses all of it, which is the exception `lost` in `AnsweredIsDurable`; and
`IngressWait` takes no notice of a shutdown, only of `close`.

### Packing

`Graphs` are the wirings, places and capacities that `main` may have built.
`Start` takes the bags, counts the threads in use and collects the edges;
`LookAt` looks at the next edge in the order of the sort (edges that compare
equal come from a hash map, in any order); `Finish` groups, orders and spawns.
The union-find forest is modelled by the root of each actor and the ranks, which
is what `find` returns. `LookAt` may end in `Panic`: `would_merge_bundle_siblings`
calls `find` on all consumers of a bundle, and `parent[&x]` (`pack.rs:94`) has no
entry for a consumer outside the dynamic troupes. Whether it gets there depends
on the order of a hash map. `FailsOnMixedBundles` says that only a bundle which
feeds packable and other actors at once can do this to `start`.

`Graphs` is any set of finite graphs with numbers for actors (`GraphsAssumption`),
`Bundles` any disjoint sets of channels (`BundlesAssumption`: `LazyChannel::new`
takes the id of the first lane as the key of all). The lanes of a bundle may have
different producers; those of one producer are a `Family`, as `BundleFamily` names
the producer beside the key. `Sorted` stands for what comes out of a loop over an
ordered map or a queue: a set put in line by an order, which `BagByBag` and
`ClusterByCluster` give; `Lines` is the growing `ordered` of `linedance_order`,
its heap the set of `Followers`.

`LanesApart` is weaker than `troupe.dynamic-bundle-siblings`: the code holds back
the lanes of the family only, and a plain channel, or another producer's lane of
the same bundle, may bring two of its consumers together. (The run has two lanes;
the second exception takes three, and TLC finds it when they are.)
`PackedOnce` includes the fallback of `pack.rs:179-182`, which deals the actors out
anew and with that gives up the clusters found.

### StreamSubscriber

`image` is Aeron's place in each session (external), `defrag` the two rings and
the running length of each, `ready` the queue `ready_msg_session`, `control` and
`payload` the stream's rings. `sub` is where the actor's loop is. One fragment
is one step (`Consume`), a session's turn in the flush two. Each message fits into
the payload ring (`SubscriberAssumption`), and a control ring full of fragments
does (`FragmentsFit`), without which more of them are asked for than there is room
for: that messages are whole rests on these two. `MessagesFit` is the
channel configuration without which the loop gets stuck: the bytes left in a
session's ring must, at every moment of a message, be worth one item at the
average length, or `defrag_has_room_for` answers 0 and the rest of the message is
never asked for (`aqueduct_stream_tx.rs:356-370`). As it takes the least of all
sessions, one stuck session stops all.

## 3. Runs

| run | question | bounds | states |
|---|---|---|---|
| `gl_owner` | does the protocol implement the contract when only the owner requests and watches? | 3 actors (one may veto, one is the collector) | 11 940 |
| `gl_concurrent` | what survives any mixture of requesters and watchers? | 2 actors behind a barrier of 2, owner, Ctrl-C | 203 031 |
| `gl_premature_stop` | is a clean stop unanimous with two watchers? (violated) | 2 actors | |
| `gl_early_signal` | does the owner come back if Ctrl-C comes before the start? (violated) | 2 actors | |
| `gl_late_actor` | do the watchers survive an actor that registers after the voters were counted? (violated) | 2 actors, one late | |
| `channel_fifo` | is the channel a bounded queue that keeps its promises? | capacity 3, 8 messages, 2 peeks of a message | 68 624 |
| `channel_closed_empty` | is closed-and-empty final? (violated) | capacity 2, 2 messages | |
| `stream_fifo` | are two rings one queue of whole messages, and do sends and waits end? | 2 items, 4 bytes, items of 0, 1 and 3 bytes, 3 of them | 363 752 |
| `stream_take_slice` | does every item come with its own bytes? (violated) | as above, byte buffers of 2 | |
| `lambda_service` | do requests and answers get through, and what survives panics and crashes? | 3 requests, 1 panic, 1 crash, all three kinds of state | 700 116 |
| `packing` | where do the actors of the dynamic troupes end up? | 4 actors, 2 lanes of one producer or to one consumer, 2 channels, 4 places, 2 or 3 threads | 345 810 |
| `stream_subscriber` | does a subscriber deliver every message whole? | 3 sessions, 10 messages of 1 to 3 fragments, rings of 3 items and 6 bytes | 254 130 |

Why the bounds are enough. Two actors, the owner and the Ctrl-C handler give
four threads in the request and two in the watch, and every conflict in the code
is between two holders of the lock; the safety properties of `gl_concurrent`
were also run with three actors (3.0 million states). Three actors are needed in
`gl_owner`, where one must be missing besides the collector and the server's
allowance. A capacity of three is not a power of two, lets partial slices wrap,
and eight messages take both indices past the modulus of six. Neither model has
any other bound: requests, restarts and rounds of the watchers are unlimited.

In `stream_fifo` two item slots and four byte slots wrap at different moments,
an item of no bytes is one whose bytes cannot give it away, and one of three and
one of one byte fill the byte ring to its last place, or overrun it when the room
was counted badly. Three items are one more than the control ring holds. In
`lambda_service` three requests are what it takes for a late answer, the one it
displaces and the next; with one panic and one crash each may hit at every
step of any of them. Four actors in `packing` are two for the consumers of a
bundle, one for their producer and one for a detour between them; the two
plain channels share an actor, so that chains, cycles and parallel edges come up.
`stream_subscriber` has a message of three fragments, which fills a session's ring, and
several of one, which fill the items' ring first.

`CHECK_DEADLOCK` stays on where the system runs for ever or stops in states that
`Quiescent` names; any other state without a successor is reported. `packing` is
an algorithm that ends, and `stream_subscriber` a loop that a shutdown ends with
its consumer waiting: these two say `CHECK_DEADLOCK FALSE`.

### Findings

1. `gl_premature_stop`: `vote_for_the_dead` drops the lock between finding the
   dead and counting them (`liveliness.rs:261-270`). The owner and the Ctrl-C
   handler sweep at once, a dead actor counts for two, and `Stopped` is declared
   while a live actor has not voted.
2. `gl_early_signal`: a Ctrl-C before the graph runs writes `StoppedUncleanly`
   without firing the one-shots (`shutdown.rs:42-48`); the owner waits forever.
3. `gl_late_actor`: an actor that is built while the graph runs and registers after
   a request has counted the voters has no ballot; once it is dead the sweep
   reads past the ballots and panics (`liveliness.rs:247`) in the thread that
   sweeps. In the trace that is the Ctrl-C handler, in the sweep of its own request;
   `watch_shutdown` sweeps in the same way.
4. `channel_closed_empty`: `is_closed_and_empty` looks at the ring before it
   polls the closing signal (`core_rx.rs:460`), so a message sent in between is
   left behind by a consumer that trusts the answer.
5. `stream_take_slice`: the `break` at an item that does not fit leaves only the
   first of the two loops over the control ring (`core_rx_stream.rs:245`); a
   smaller item of the second is delivered with the bytes of the one passed over,
   and the rings are out of step from then on. A byte buffer as large as the
   payload ring rules it out (`AlwaysDeliveredWhole`).

Two more disagreements show in runs that pass, in properties that say what does
hold. `vacant_units_for` returns true "if this message size will fit in the vacant
space" (`core_tx.rs:130`), and `wait_vacant` completes only when the threshold is met
(`docs/spec/02-actor.md:69`); with an item's room to spare neither looks at the
bytes (`core_tx_stream.rs:215`), so `RoomAsTold` claims them only without.
A bundle that feeds packable and other actors can make `start` panic (`pack.rs:94`,
from `pack.rs:250`), and `FailsOnMixedBundles` claims that nothing else does.

## 4. Fairness

`GraphLiveliness`: a thread in the middle of a request or a watch goes on (the
OS schedules it and the lock is fair to it); an actor that is running keeps
calling `is_running`, as the actor loop must (`Fairness`). `gl_owner` runs under
`PatientSpec`, which says no more than that: a timeout may be as long as it
takes. The other runs use `FairSpec`, in which a timeout that may pass does
pass, since `block_until_stopped` counts on it. Nothing obliges anybody to request a stop, to press Ctrl-C, to agree to a veto,
to return early or to panic. `CleanStopWhenAllAgree` therefore assumes that
no timeout passes and each actor is, again and again, willing or gone.

`Channel`: an operation that has begun goes on when what it awaits has come; a
consumer takes again and again while there is something to take, and asks for
the end when there is not (strong fairness, since its waits and peeks lie in
between). The producer is never obliged to send or to close, and the shutdown
signal need not come.

`StreamChannel`: the same, for both rings: a push of bytes is followed by its
item, a loop of the producer ends, and the consumer takes and looks for the end
again and again (strong fairness, as its waits and slices lie in between).

`LambdaService`: the executor polls the actor when it is ready or woken, the
host's thread runs when it is not asleep, and a call of `close` goes on. A
timeout need not pass, so `AnswersAreHeard` is about the condition variable and not
about giving up.

`StreamSubscriber`: the actor's loop and the consumer go on. Strong fairness for
each session stands for the transport: a poll goes round the images, so that a
session with something to read is not left out for ever by polls that succeed.
`Packing` has only safety properties.

## 5. What is proved

For every set of actors, of requesters, of vetoers and of watchers
(`GraphLiveliness_proofs`; the assumptions are `ConstantsAssumption` and those
named):

* `TypeCorrect`; `TotalCoversBallots`: the total never falls behind the ballots
  (`NeverUndercounted`, stated with the proofs and in no run: what goes wrong with
  several sweeps is that the total runs ahead, finding 1);
* `OnlyConsentIsCounted`: from `ConsentInv`, which adds where the dead and those
  about to vote are, that what a sweep holds in `copy` was dead when it looked,
  and that a dead actor stays dead;
* `CleanStopIsUnanimous` and `OwnerImplementsContract`: with one requester and
  watcher, the owner (`OwnerAlone`). `OwnerInv` says that the total equals the
  number of ballots in favour, that a sweep's findings are not in favour yet,
  and that the Ctrl-C handler stays idle; the first is what the concurrent
  protocol lacks, and `gl_premature_stop` shows it is needed;
* `NoticesArrive`: unless actors are built after the start (`BuiltBeforeStart`),
  from `NoticeInv`: whoever is past the recheck has its sender where the next
  drain finds it;
* `WatchersAlwaysSurvive`: from the same invariant, which says that the ballots
  of a stop are those of all that are registered, so that a sweep finds no dead
  actor without one;
* `CollectorStaysToTheEnd`: for `OwnerAlone`, from `LastInv` beside `OwnerInv`: a
  collector that has agreed and not yet voted lacks two ballots at most, one of
  them its own.

Each inductive invariant, of this protocol and of all the modules below, was
also checked by TLC on the instances of the runs.

For every capacity, every number of messages and every bound on peeks
(`Channel_proofs`; the assumption is `ChannelAssumption`):

* `IndicesAlwaysCount`: from `Apart`, which says that the indices lie as far
  apart as there are messages, or that far less a turn of the modulus; this form
  needs no arithmetic beyond the remainder of a number below three times the
  divisor (`Remainder`), where `read_idx = taken % Modulus` would need induction;
* `AssertionsAlwaysHold` and `PromisesAlwaysKept`: from `Views`, that a count
  under way, whose first index may be stale by now, finds no more than there is.
  The two are one invariant, as an answer becomes a promise, and
  `TypeCorrect` needs it too, since an answer is in range only because of it;
* `ShowstoppersAreReal`: from `LooksCover`;
* `ChannelIsFifo`: from `InPlace`, which says in which slot each message between
  the indices lies. `PushKeeps` and `PopKeeps` show that both sides keep it
  (`Ahead`: a push never writes an occupied slot), and the queue is then the
  `Window` of numbers that grows at one end and shrinks at the other.

For every capacity of either ring, every set of lengths and any number of items
(`StreamChannel_proofs`; the assumptions are `StreamAssumption` and
`WholeTargets`, that no byte buffer given to `take_slice` is smaller than the
payload ring, without which finding 5 breaks every one of them):

* the inductive invariant `Inv` is the conjunction of `TypeOK`, `Paired`,
  `SlicesInRange`, `PromisesKept`, `Layout` (each item begins where the one before
  it ends), `TxInv` (a send under way has the room it counted, and what
  `vacant_units_for` has said is as good as `RoomAsTold` says), `Taking` (a take
  under way is of the next items and needs exactly their bytes) and `Looked` (what
  the looks of `is_closed_and_empty` have seen is still so). They need each other:
  a push stays in range by the promise, the promise by the pairing, the pairing by
  the take that counts the right bytes, and this by the layout;
* `AlwaysPaired`, `SlicesAlwaysInRange`, `PromisesAlwaysKept`, `RoomIsAsTold`,
  `FinishedAlwaysLeavesNoBytes` and `AlwaysDeliveredWhole` follow from it;
* `StreamIsFifo` maps each step to one of `StreamFifo` or a stutter: the push of
  an item is the send, and the move of the payload's index or of the item's,
  whichever is first, is the receipt of all the items of the take.

For every kind of state and any number of requests, panics and crashes
(`LambdaService_proofs`; the assumption is `ServiceAssumption`):

* `TypeCorrect`: with `Guarded`, that the guard is held from the start to the end
  of the actor's function and that there is a value as long as it is;
* `ParkedIsSaved`: from `ParkInv`, that a guard that is not dirty stands for a
  value that is in the store or was dropped unsaved before, that whoever is past
  the wake point has a clean one, and whoever is about to persist a dirty one
  (without which a file cut short by a failing save would pass for saved);
* `AnsweredSurvives`: from `DurableInv`, that what was answered after a successful
  persist is also in the value in memory, which is what a guard dropped by a
  panic writes, and that an answer marked as saved is in a store that nothing has
  touched since;
* `AnswersComeInOrder`: from `OrderInv`, which orders the requests on their way
  through the bridge: the answers the host has, the one in the egress slot, the
  request the actor is at, the one in the ingress slot.

For every finite graph, any number of actors, slots, bundles and lanes
(`Packing_proofs`; the assumptions are `BundlesAssumption` and
`GraphsAssumption`):

* `SortedLists`: a set that is put in line by a strict total order is listed
  without gap or repetition. The line exists because the place of an element can
  be given outright, as the number of elements before it, plus one (`SomeOrder`);
  `BagByBagIsOrder` and `ClusterByClusterIsOrder` show that the code's two orders
  are total;
* `EvenSplitDeals` and `CrewsDeal`: dealing out in turn, and grouping by the roots,
  both give each actor exactly one place (`Deals`) and leave no thread empty;
* `LinedanceOrders`: the line of `linedance_order` holds a producer before each of
  its consumers (`LinesAreDanced`), and when it stops short, those left out each
  wait for another of them, which is a cycle;
* the inductive invariant `Inv` adds to the type: `Counted` (the unions never leave
  fewer clusters than there are slots or actors), `Seen` (the edges that united are
  no larger than the ones still to come, and a plain edge that has been looked at
  has its ends together), `Siblings` (consumers of a family with one root have
  a used edge outside the family in their cluster), `Finished` (the threads are the
  clusters, and each is danced) and `Dealt`. The step that matters is `UnionInv`:
  `UnionFields` says which roots a union makes equal and that it takes exactly one
  away, and a lane that would bring two siblings together would have one of them
  on either side, where `GluesSiblings` holds it back;
* `EveryActorPackedOnce`, `SmallestFirst`, `SiblingsApart`, `OnlyMixedBundlesFail`
  and `ProducersComeFirst`: all the properties of the run, from `Inv`.

For every set of sessions, all lengths of messages, fragments and rings
(`StreamSubscriber_proofs`; the assumptions are `SubscriberAssumption` and
`FragmentsFit`, and `MessagesFit` for the last theorem only):

* the inductive invariant `Inv` says how messages are laid out (`Laid`): the bytes
  of a ring are those of a row of messages one after the other, and the first
  bytes of one that is not whole. `RingsInOrder` says it of each session's rings,
  from the oldest message that has not been flushed to the one Aeron is at;
  `Flows` of the payload ring, for the row of messages whose items are in the
  control ring or about to be pushed; `Delivered` of what was taken.
  `RoomLeft` counts the room for the fragments that have been asked for;
* `NothingIsCutOff`: `fragment_consume` ignores how much its pushes have taken; this
  is sound because they always take all, while fragments are asked for;
* `BytesAlwaysComeFirst`: between the two pushes of a flush the consumer never sees
  an item without its bytes;
* `MessagesAlwaysWhole`: `Laid` at the head of the payload ring gives the message
  that is taken, and the order of the row that it is the next of its session;
* `NobodyIsForgotten`: a session with whole messages is always in the queue of
  `fragment_flush_ready`, through turns that flush all, a part or nothing (`InLine`,
  inductive together with `Inv`);
* `MoreIsAlwaysAskedFor`: with nothing in the queue `defrag_has_room_for` is not 0. In
  the middle of a message Aeron has handed over whole fragments of it (`Begun`), at
  most all but the last (`LastFragmentIsLeft`); a session without whole messages holds
  nothing else, so that `MessagesFit` leaves room (`SessionHasRoom`). The two
  theorems are a safety core of `EverythingArrives`: a session that waits is in the
  queue to be flushed, and with the queue empty more is asked for. That it does
  arrive also takes the consumer, which makes room, and fairness.

Sums and recursive functions come up in both: the bytes of the first messages in
a ring (`Bytes`, `Marks`), the steps of the linedance (`Lines`). The library's
induction takes a predicate as a parameter and is of no use here; instead, each
such proof takes the least number for which its claim fails (`LeastNatural` in
`Induction`, from the well-foundedness of the numbers) and contradicts it.

Only model-checked: liveness, which is out of the prover's reach
(`CleanStopWhenAllAgree`, `BlockReturns`, `SendReturns`, `ClosedChannelEnds`,
`SendsReturn`, `ClosedStreamEnds`, `RequestsAreTaken`, `AnswersAreHeard`,
`CloseEndsWaits`, `EverythingArrives`). Every invariant and action property of the
passing runs is a theorem.

## 6. What is not modelled

Everything marked `not_modelled` in `PROJECT.json`, with its reason: telemetry
display, statistics, code generation, service installation, serialisation and
runtime selection are I/O or computation that no actor's correctness rests on,
and they are most of the code by lines. Memory orderings are taken as
sequentially consistent. Within the modelled parts:

* channels: the 32-bit wrap of `take_count`, restarted peers' version numbers;
* streams: the counters of `is_showstopper` (`take_slice` exchanges the two,
  `core_rx_stream.rs:279-280`), `shared_into_iter`, rate estimates;
* bundles and the `await_for_*` macros: several single waits polled together, of
  which at most the counting of lanes is their own;
* lazy channels: what is established after a stop was requested leaves its
  one-shots in a vector that nobody drains any more; this needs the vector of
  `GraphLiveliness` together with a channel's waits;
* actor state and bridge: several ingress clones waiting at once (only the last
  waker is kept), and a dirty guard of one member of a troupe that makes another
  member's `is_running` panic, as the list of watched guards is the thread's;
* packing: explicit cores, which `start` never passes, and the pinning of threads;
* subscriber: joining a stream in the middle of a message (`from_defrag` would
  panic on the missing arrival time), registration with the media driver, delays;
* publishers: their `consume_messages` is in `StreamChannel`, the offering to Aeron
  with its back-pressure is not.

## 7. Next

1. `Pipeline`: producer, channel, consumer and the vote: nothing is left in a
   channel after a clean stop, given closed-and-empty closures.
2. `LazyChannel` with the one-shots of `GraphLiveliness`; `Bundle` waits.
3. The publisher's loop with Aeron's back-pressure; the threads of troupes.
