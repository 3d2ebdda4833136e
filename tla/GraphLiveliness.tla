--------------------------- MODULE GraphLiveliness ---------------------------
(***************************************************************************)
(* The shutdown protocol of a graph: graph/liveliness.rs, shutdown.rs, the *)
(* parts of graph.rs and builder.rs that request and await a stop, and the *)
(* actor side of it (steady_actor_core.rs, actor_builder/).                *)
(*                                                                         *)
(* The threads are one per actor, the owner of the Graph (Main) and the    *)
(* Ctrl-C handler thread (CtrlC).  All of them work on one GraphLiveliness *)
(* behind a reader-writer lock, and a step is what a thread does while it  *)
(* holds that lock once: every place where the code drops the lock and     *)
(* takes it again is a place where the others run, and what it learnt      *)
(* under the first hold is kept in copy.                                   *)
(*                                                                         *)
(* Abstracted: the fields of a ballot that only feed the veto report, the  *)
(* length of a timeout (expired says it has passed), and the identity of a *)
(* ballot, which is its actor.  A ballot's own mutex is held only inside   *)
(* one of these steps.  Its actor takes it while it lives and the sweeps   *)
(* for the dead only after, so that they contend with one another alone    *)
(* (HeldElsewhere).                                                        *)
(***************************************************************************)
EXTENDS Naturals, FiniteSets

CONSTANTS Actor,        \* every actor the program ever builds
          Late,         \* those that are built after the graph has started
          Vetoer,       \* those whose closure may refuse a stop
          Collector,    \* the telemetry collector, or nobody
          Requester,    \* the threads that may request a shutdown
          BarrierSize,  \* with_shutdown_barrier, or 0
          TimesOut,     \* the watchers whose timeout may pass
          EarlySignal,  \* Ctrl-C may arrive before the graph is started
          Main, CtrlC

Watcher == {Main, CtrlC}
Thread  == Actor \cup Watcher

ASSUME ConstantsAssumption ==
  /\ IsFiniteSet(Actor)
  /\ Late \subseteq Actor /\ Vetoer \subseteq Actor /\ Collector \subseteq Actor
  /\ Requester \subseteq Thread /\ TimesOut \subseteq Watcher
  /\ BarrierSize \in Nat /\ EarlySignal \in BOOLEAN
  /\ Main \notin Actor /\ CtrlC \notin Actor /\ Main # CtrlC

VARIABLES
  gstate,    \* GraphLiveliness.state
  voter,     \* registered_voters: a VoterStatus for each actor
  ballots,   \* the indices of votes
  inFavor,   \* the ballots whose in_favor is set
  total,     \* vote_in_favor_total
  oneshots,  \* the threads whose sender is in shutdown_one_shot_vec
  fired,     \* the threads whose receiver has resolved
  pc,        \* where each thread is
  copy,      \* what each thread read under a lock it has since dropped
  expired    \* the watchers whose timeout has passed

vars == <<gstate, voter, ballots, inFavor, total, oneshots, fired, pc, copy, expired>>
election == <<ballots, inFavor, total>>
notices  == <<oneshots, fired>>

GState   == {"Building", "Running", "StopRequested", "Stopped", "StoppedUncleanly"}
Starting == {"Building", "Running"}
Stopping == GState \ Starting

VoterStatus == {"None", "Registered", "Dead"}
Dead == {a \in Actor : voter[a] = "Dead"}

(* The procedure internal_request_shutdown is at one of these in any thread. *)
RequestPc == {"snapshot", "install", "collect", "count", "fire"}
ActorPc == RequestPc \cup {"unbuilt", "built", "unspawned", "run", "barrier", "request",
                           "veto", "castYes", "castNo", "exit", "panicked", "gone"}
WatchPc == {"check", "writeClean", "writeUnclean", "late", "tally"}
MainPc  == RequestPc \cup WatchPc \cup {"build", "ready", "push", "recheck", "await",
                                        "returnedOk", "returnedErr", "crashed"}
CtrlCPc == RequestPc \cup WatchPc \cup {"idle", "crashed"}

Goto(t, place) == pc' = [pc EXCEPT ![t] = place]

Init ==
  /\ gstate = "Building"
  /\ voter = [a \in Actor |-> "None"]
  /\ ballots = {} /\ inFavor = {} /\ total = 0
  /\ oneshots = {} /\ fired = {}
  /\ pc = [t \in Thread |-> IF t = Main THEN "build" ELSE IF t = CtrlC THEN "idle" ELSE "unbuilt"]
  /\ copy = [t \in Thread |-> {}]
  /\ expired = {}

-----------------------------------------------------------------------------
(* Building and starting the graph, on the owner's thread.                  *)

Constructing == \E a \in Actor : pc[a] = "built"

(* single_actor_exec_archetype leaves a shutdown sender for the actor, or    *)
(* resolves it at once when a stop has already been requested.               *)
BuildActor(a) ==
  /\ pc[a] = "unbuilt" /\ ~Constructing
  /\ IF a \in Late THEN pc[Main] = "ready" ELSE pc[Main] = "build"
  /\ IF gstate = "StopRequested"
     THEN fired' = fired \cup {a} /\ UNCHANGED oneshots
     ELSE oneshots' = oneshots \cup {a} /\ UNCHANGED fired
  /\ Goto(a, "built")
  /\ UNCHANGED <<gstate, voter, election, copy, expired>>

(* The actor is registered, and then its thread is spawned, or fails to be.  *)
RegisterActor(a) ==
  /\ pc[a] = "built"
  /\ voter' = [voter EXCEPT ![a] = "Registered"]
  /\ \E started \in {"run", "unspawned"} : Goto(a, started)
  /\ UNCHANGED <<gstate, election, notices, copy, expired>>

(* Every actor built so far is registered, so wait_for_registrations is over *)
(* at once.                                                                  *)
Start ==
  /\ pc[Main] = "build" /\ ~Constructing
  /\ gstate' = IF gstate = "Building" THEN "Running" ELSE gstate
  /\ Goto(Main, "ready")
  /\ UNCHANGED <<voter, election, notices, copy, expired>>

-----------------------------------------------------------------------------
(* The life of an actor.                                                    *)

(* is_running reads the state and drops the lock; a veto closure runs next   *)
(* when a stop is requested.  While the graph is up it only answers true.    *)
Poll(a) ==
  /\ pc[a] = "run" /\ gstate \in Stopping
  /\ Goto(a, IF gstate = "StopRequested" THEN "veto" ELSE "exit")
  /\ UNCHANGED <<gstate, voter, election, notices, copy, expired>>

(* Mutant: the collector tolerates one missing vote too many. *)
TelemetryCompleteEarly == total + 3 >= Cardinality(ballots)

(* The collector's closure asks is_shutdown_telemetry_complete(2).           *)
TelemetryComplete == total + 2 >= Cardinality(ballots)

AcceptFn(a) ==
  /\ pc[a] = "veto"
  /\ IF a \in Collector
     THEN Goto(a, IF Cardinality(ballots) < 2 THEN "panicked"
                  ELSE IF TelemetryComplete THEN "castYes" ELSE "castNo")
     ELSE \E vote \in {"castYes", "castNo"} :
            /\ vote = "castNo" => a \in Vetoer
            /\ Goto(a, vote)
  /\ UNCHANGED <<gstate, voter, election, notices, copy, expired>>

(* apply_shutdown_vote: a ballot is never taken back, and an actor with no   *)
(* ballot indexes past the end of votes.                                     *)
ApplyShutdownVote(a) ==
  /\ pc[a] \in {"castYes", "castNo"}
  /\ \/ /\ gstate = "StopRequested" /\ a \in ballots
        /\ IF pc[a] = "castYes" /\ a \notin inFavor
           THEN inFavor' = inFavor \cup {a} /\ total' = total + 1
           ELSE UNCHANGED <<inFavor, total>>
        /\ Goto(a, IF pc[a] = "castYes" THEN "exit" ELSE "run")
     \/ /\ gstate = "StopRequested" /\ a \notin ballots
        /\ Goto(a, "panicked")
        /\ UNCHANGED <<inFavor, total>>
     \/ /\ gstate \in {"Stopped", "StoppedUncleanly"}
        /\ Goto(a, "exit")
        /\ UNCHANGED <<inFavor, total>>
  /\ UNCHANGED <<gstate, voter, ballots, notices, copy, expired>>

(* The actor's future returns: exit_actor_registration marks it dead.  It    *)
(* may return early, without ever being told to stop.                        *)
Finish(a) ==
  /\ pc[a] \in {"run", "exit"}
  /\ voter' = [voter EXCEPT ![a] = "Dead"]
  /\ Goto(a, "gone")
  /\ UNCHANGED <<gstate, election, notices, copy, expired>>

(* The actor panics, or returns Err in a troupe. *)
Panic(a) ==
  /\ pc[a] \in {"run", "veto", "exit"}
  /\ Goto(a, "panicked")
  /\ UNCHANGED <<gstate, voter, election, notices, copy, expired>>

(* Mutant: the spawn loop restarts an actor that panics during the vote. *)
UnwindAlwaysRestarts(a) ==
  /\ pc[a] = "panicked" /\ Goto(a, "run")
  /\ UNCHANGED <<gstate, voter, election, notices, copy, expired>>

(* Mutant: a thread that ends by a panic skips exit_actor_registration. *)
UnwindUnregistered(a) ==
  /\ pc[a] = "panicked"
  /\ Goto(a, IF gstate \in Stopping THEN "gone" ELSE "run")
  /\ UNCHANGED <<gstate, voter, election, notices, copy, expired>>

(* The spawn loop restarts it, unless the graph is on its way down. *)
Unwind(a) ==
  /\ pc[a] = "panicked"
  /\ IF gstate \in Stopping
     THEN voter' = [voter EXCEPT ![a] = "Dead"] /\ Goto(a, "gone")
     ELSE Goto(a, "run") /\ UNCHANGED voter
  /\ UNCHANGED <<gstate, election, notices, copy, expired>>

-----------------------------------------------------------------------------
(* Requesting a shutdown: internal_request_shutdown, in any thread.         *)

(* Mutant: the owner's request ends as an actor's does. *)
ResumeAsActor(t) == IF t = CtrlC THEN "check" ELSE "run"

Resume(t) == IF t = Main THEN "ready" ELSE IF t = CtrlC THEN "check" ELSE "run"

(* actor.request_shutdown waits for with_shutdown_barrier's latch first.     *)
EnterBarrier(a) ==
  /\ a \in Requester /\ BarrierSize > 0
  /\ pc[a] = "run"
  /\ Goto(a, "barrier")
  /\ UNCHANGED <<gstate, voter, election, notices, copy, expired>>

LeaveBarrier ==
  \E party \in SUBSET {a \in Actor : pc[a] = "barrier"} :
    /\ BarrierSize > 0 /\ Cardinality(party) = BarrierSize
    /\ pc' = [t \in Thread |-> IF t \in party THEN "request" ELSE pc[t]]
    /\ UNCHANGED <<gstate, voter, election, notices, copy, expired>>

MayRequest(t) ==
  /\ t \in Requester
  /\ \/ t = Main /\ pc[t] = "ready" /\ ~Constructing
     \/ t = CtrlC /\ pc[t] = "idle" /\ (EarlySignal \/ gstate # "Building")
     \/ t \in Actor /\ pc[t] = IF BarrierSize > 0 THEN "request" ELSE "run"

(* Mutant: a request is not refused while a stop is under way. *)
RequestAgain(t) ==
  /\ MayRequest(t) /\ Goto(t, "snapshot")
  /\ UNCHANGED <<gstate, voter, election, notices, copy, expired>>

(* Nothing is requested unless the graph is seen running.                    *)
RequestShutdown(t) ==
  /\ MayRequest(t)
  /\ Goto(t, IF gstate = "Running" THEN "snapshot" ELSE Resume(t))
  /\ UNCHANGED <<gstate, voter, election, notices, copy, expired>>

(* Mutant: the dead get no ballot, so the ballots are too few to index. *)
SnapshotOfTheLiving(t) ==
  /\ pc[t] = "snapshot"
  /\ copy' = [copy EXCEPT ![t] = {a \in Actor : voter[a] = "Registered"}]
  /\ Goto(t, "install")
  /\ UNCHANGED <<gstate, voter, election, notices, expired>>

(* A ballot for each registered voter, alive or dead.                        *)
Snapshot(t) ==
  /\ pc[t] = "snapshot"
  /\ copy' = [copy EXCEPT ![t] = {a \in Actor : voter[a] # "None"}]
  /\ Goto(t, "install")
  /\ UNCHANGED <<gstate, voter, election, notices, expired>>

(* The ballots and the state are written with no second look at the state.   *)
Install(t) ==
  /\ pc[t] = "install"
  /\ gstate' = "StopRequested"
  /\ ballots' = copy[t] /\ inFavor' = {} /\ total' = 0
  /\ copy' = [copy EXCEPT ![t] = {}]
  /\ Goto(t, "collect")
  /\ UNCHANGED <<voter, notices, expired>>

(* Mutant: the vector is emptied, and only the actors among it are notified. *)
FireActorsOnly(t) ==
  /\ pc[t] = "fire"
  /\ fired' = fired \cup (oneshots \cap Actor)
  /\ oneshots' = {}
  /\ Goto(t, Resume(t))
  /\ UNCHANGED <<gstate, voter, election, copy, expired>>

(* The whole vector is drained under its own mutex.                          *)
FireOneshots(t) ==
  /\ pc[t] = "fire"
  /\ fired' = fired \cup oneshots
  /\ oneshots' = {}
  /\ Goto(t, Resume(t))
  /\ UNCHANGED <<gstate, voter, election, copy, expired>>

-----------------------------------------------------------------------------
(* vote_for_the_dead, called by a request and by every round of a watcher.   *)

(* Mutant: a dead actor is collected although its ballot is in favour. *)
CollectAllTheDead(t) ==
  /\ pc[t] = "collect" \/ (pc[t] = "late" /\ t \notin expired)
  /\ copy' = [copy EXCEPT ![t] = Dead \cap ballots]
  /\ Goto(t, IF pc[t] = "collect" THEN "count" ELSE "tally")
  /\ UNCHANGED <<gstate, voter, election, notices, expired>>

(* The ballots that another sweep may be holding just now: the read lock is  *)
(* shared, so it may look at the same time, and has either looked and not    *)
(* counted yet, or is about to look.                                         *)
HeldElsewhere(t) ==
  {a \in Actor : \E other \in Thread \ {t} :
     \/ pc[other] = "collect" \/ (pc[other] = "late" /\ other \notin expired)
     \/ pc[other] \in {"count", "tally"} /\ a \in copy[other]}

(* Under the read lock: the dead whose ballot is not in favour yet, without  *)
(* those whose ballot another sweep is looking at.  A dead actor without a   *)
(* ballot indexes past the end of votes.                                     *)
CollectTheDead(t) ==
  /\ pc[t] = "collect" \/ (pc[t] = "late" /\ t \notin expired)
  /\ IF Dead \subseteq ballots
     THEN \E missed \in SUBSET (HeldElsewhere(t) \cap (Dead \ inFavor)) :
            LET found == (Dead \ inFavor) \ missed IN
            /\ copy' = [copy EXCEPT ![t] = found]
            /\ Goto(t, IF pc[t] = "collect"
                       THEN IF found = {} THEN "fire" ELSE "count"
                       ELSE IF found = {} THEN "check" ELSE "tally")
     ELSE /\ Goto(t, IF t \in Watcher THEN "crashed" ELSE "panicked")
          /\ UNCHANGED copy
  /\ UNCHANGED <<gstate, voter, election, notices, expired>>

(* Under the write lock: each of them is counted, without asking again       *)
(* whether its ballot is in favour by now.                                   *)
CountTheDead(t) ==
  /\ pc[t] \in {"count", "tally"}
  /\ inFavor' = inFavor \cup (copy[t] \cap ballots)
  /\ total' = total + Cardinality(copy[t] \cap ballots)
  /\ copy' = [copy EXCEPT ![t] = {}]
  /\ Goto(t, IF copy[t] \subseteq ballots
             THEN IF pc[t] = "count" THEN "fire" ELSE "check"
             ELSE IF t \in Watcher THEN "crashed" ELSE "panicked")
  /\ UNCHANGED <<gstate, voter, ballots, notices, expired>>

-----------------------------------------------------------------------------
(* block_until_stopped, on the owner's thread.                               *)

BlockUntilStopped ==
  /\ pc[Main] = "ready" /\ ~Constructing
  /\ Goto(Main, IF gstate \in Starting THEN "push" ELSE "check")
  /\ UNCHANGED <<gstate, voter, election, notices, copy, expired>>

(* Mutant: the state is not looked at again once the sender is pushed. *)
PushAndAwait ==
  /\ pc[Main] = "push"
  /\ oneshots' = oneshots \cup {Main}
  /\ Goto(Main, "await")
  /\ UNCHANGED <<gstate, voter, election, fired, copy, expired>>

PushOneshot ==
  /\ pc[Main] = "push"
  /\ oneshots' = oneshots \cup {Main}
  /\ Goto(Main, "recheck")
  /\ UNCHANGED <<gstate, voter, election, fired, copy, expired>>

Recheck ==
  /\ pc[Main] = "recheck"
  /\ Goto(Main, IF gstate \in Starting THEN "await" ELSE "check")
  /\ UNCHANGED <<gstate, voter, election, notices, copy, expired>>

Await ==
  /\ pc[Main] = "await" /\ Main \in fired
  /\ Goto(Main, "check")
  /\ UNCHANGED <<gstate, voter, election, notices, copy, expired>>

-----------------------------------------------------------------------------
(* watch_shutdown: the owner's at the end of block_until_stopped, and the    *)
(* Ctrl-C handler's after its request.                                       *)

(* check_is_stopped, under the read lock. *)
Check(w) ==
  /\ pc[w] = "check"
  /\ Goto(w, IF gstate \in Starting THEN "late"
             ELSE IF total = Cardinality(ballots) \/ ballots = {} THEN "writeClean"
             ELSE IF w \in expired THEN "writeUnclean"
             ELSE "late")
  /\ UNCHANGED <<gstate, voter, election, notices, copy, expired>>

(* The verdict is written under a later hold of the lock, over whatever the  *)
(* state has become.  A round that found none gives up when the timeout has  *)
(* passed by now, in any state.                                              *)
Verdict(w) ==
  /\ \/ /\ pc[w] = "writeClean"
        /\ gstate' = "Stopped"
        /\ Goto(w, IF w = Main THEN "returnedOk" ELSE "idle")
     \/ /\ pc[w] = "writeUnclean" \/ (pc[w] = "late" /\ w \in expired)
        /\ gstate' = "StoppedUncleanly"
        /\ Goto(w, IF w = Main THEN "returnedErr" ELSE "idle")
  /\ expired' = expired \ {w}
  /\ UNCHANGED <<voter, election, notices, copy>>

Expire(w) ==
  /\ w \in TimesOut \ expired
  /\ pc[w] \in WatchPc
  /\ expired' = expired \cup {w}
  /\ UNCHANGED <<gstate, voter, election, notices, pc, copy>>

-----------------------------------------------------------------------------
(* Nothing is left to do: the owner is back from block_until_stopped, or     *)
(* waits for a stop that nobody has requested.                               *)
Quiescent ==
  /\ \/ pc[Main] \in {"returnedOk", "returnedErr", "crashed"}
     \/ pc[Main] = "await" /\ gstate = "Running"
  /\ pc[CtrlC] \in {"idle", "crashed"}
  /\ \A a \in Actor : pc[a] \in {"unbuilt", "unspawned", "barrier", "gone"}
  /\ UNCHANGED vars

ActorStep(a) ==
  \/ BuildActor(a) \/ RegisterActor(a)
  \/ Poll(a) \/ AcceptFn(a) \/ ApplyShutdownVote(a)
  \/ Finish(a) \/ Panic(a) \/ Unwind(a)
  \/ EnterBarrier(a)

RequestStep(t) ==
  \/ RequestShutdown(t) \/ Snapshot(t) \/ Install(t)
  \/ CollectTheDead(t) \/ CountTheDead(t) \/ FireOneshots(t)

MainStep == Start \/ BlockUntilStopped \/ PushOneshot \/ Recheck \/ Await

WatchStep(w) == Check(w) \/ Verdict(w) \/ Expire(w)

Next == \/ \E a \in Actor : ActorStep(a)
        \/ LeaveBarrier
        \/ \E t \in Thread : RequestStep(t)
        \/ MainStep
        \/ \E w \in Watcher : WatchStep(w)
        \/ Quiescent

Spec == Init /\ [][Next]_vars

(* Threads that are in the middle of something finish it, and an actor keeps *)
(* polling is_running.  Nobody is obliged to press Ctrl-C, to request a      *)
(* stop, to return early or to panic.                                        *)
Fairness ==
  /\ \A a \in Actor : /\ WF_vars(RegisterActor(a) \/ Poll(a) \/ AcceptFn(a)
                                   \/ ApplyShutdownVote(a) \/ Unwind(a))
                      /\ WF_vars(pc[a] = "exit" /\ Finish(a))
  /\ \A t \in Thread : WF_vars(pc[t] \in RequestPc /\ RequestStep(t))
  /\ WF_vars(PushOneshot \/ Recheck \/ Await)
  /\ \A w \in Watcher : WF_vars(Check(w) \/ Verdict(w) \/ CollectTheDead(w) \/ CountTheDead(w))

(* The timeouts are as long as it takes, or they pass. *)
PatientSpec == Spec /\ Fairness
FairSpec    == PatientSpec /\ \A w \in Watcher : WF_vars(Expire(w))

-----------------------------------------------------------------------------
TypeOK ==
  /\ gstate \in GState
  /\ voter \in [Actor -> VoterStatus]
  /\ ballots \in SUBSET Actor /\ inFavor \in SUBSET ballots
  /\ total \in Nat
  /\ oneshots \in SUBSET Thread /\ fired \in SUBSET Thread
  /\ pc \in [Thread -> ActorPc \cup MainPc \cup CtrlCPc]
  /\ \A a \in Actor : pc[a] \in ActorPc
  /\ pc[Main] \in MainPc /\ pc[CtrlC] \in CtrlCPc
  /\ copy \in [Thread -> SUBSET Actor]
  /\ expired \in SUBSET Watcher

(* A ballot is in favour only when its actor has agreed to stop or has died: *)
(* no actor that still polls is_running or runs its veto closure is counted, *)
(* whatever mixture of requests, sweeps for the dead and restarts went on.   *)
VotesAreConsented ==
  \A a \in inFavor : pc[a] \in {"exit", "panicked", "gone"}

(* A clean stop means that every ballot is in favour (graph.shutdown.veto,   *)
(* graph.block-until-stopped): check_is_stopped trusts the total alone.      *)
CleanStopNeedsAllVotes == gstate = "Stopped" => inFavor = ballots

(* A shutdown notice reaches everyone it is for: an actor since it was built *)
(* and the owner once it waits in block_until_stopped have been notified, or *)
(* their sender is where a request that has still to drain will find it.     *)
Draining(t) == pc[t] \in {"collect", "count", "fire"}

NoticeComing(t) == \/ t \in fired
                   \/ t \in oneshots /\ (gstate \in Starting \/ \E r \in Thread : Draining(r))

NoLostNotice ==
  /\ \A a \in Actor : pc[a] # "unbuilt" => NoticeComing(a)
  /\ pc[Main] = "await" => NoticeComing(Main)

(* The telemetry collector agrees to stop only when at most one other ballot *)
(* (the metrics server's) is missing, so that it outlives the actors whose   *)
(* last figures it is to gather.                                             *)
CollectorIsLast ==
  \A c \in Collector : (c \in inFavor /\ pc[c] = "exit")
                         => Cardinality(ballots \ inFavor) <= 1

(* No panic of the protocol itself: the threads that watch the shutdown, or  *)
(* request it outside the actors, are never brought down by an index past    *)
(* the end of votes.                                                         *)
WatchersSurvive == \A w \in Watcher : pc[w] # "crashed"

(* block_until_stopped comes back once a stop has been requested, if only    *)
(* because its timeout passes (graph.block-until-stopped).                   *)
BlockReturns ==
  (pc[Main] = "await" /\ gstate \in Stopping) ~> pc[Main] \in {"returnedOk", "returnedErr"}

(* When no timeout passes and every actor is, again and again, willing to    *)
(* agree or gone, the owner that watches the vote reports a clean stop       *)
(* (graph.shutdown.accept).                                                  *)
Willing(a) == pc[a] \in {"unbuilt", "castYes", "exit", "gone"}

CleanStopWhenAllAgree ==
  ([](expired = {}) /\ \A a \in Actor : []<>Willing(a))
    => ((pc[Main] = "check" /\ gstate = "StopRequested") ~> pc[Main] = "returnedOk")

(* The abstract contract: the graph's state is the phase, the ballots are    *)
(* the electorate, those in favour have agreed and the dead have left.       *)
Contract == INSTANCE Shutdown WITH
  phase <- IF gstate \in Starting THEN "up"
           ELSE IF gstate = "StopRequested" THEN "stopping"
           ELSE IF gstate = "Stopped" THEN "clean" ELSE "unclean",
  electorate <- ballots, agreed <- inFavor, left <- Dead

(* With one thread to request and to watch, the protocol implements the      *)
(* contract step by step: one request, nobody counted who has not agreed or  *)
(* left, no clean stop before all are counted, and a verdict that stands.    *)
ImplementsContract == Contract!Spec
=============================================================================
