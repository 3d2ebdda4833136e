---------------------------- MODULE LambdaService ----------------------------
(***************************************************************************)
(* A warm service: an actor that waits for the host's requests on a        *)
(* LambdaBridge, applies each to its ActorState, persists and answers, in  *)
(* the loop of examples/lambda_warm with a state added as                  *)
(* docs/spec/14-lambda.md has it.  The actor is a member of a troupe: when *)
(* it panics or returns an error it is restarted, on the same state.       *)
(*                                                                         *)
(* The actor's own code is free to forget to persist, to go on without     *)
(* answering or to give up when persisting fails, and to panic.  The       *)
(* process may be killed at any time and start again.                      *)
(***************************************************************************)
EXTENDS LambdaBridge, ActorState

CONSTANTS MaxPanics, MaxCrashes  \* bounds on the actor's and the process's ends

Values == SUBSET (1..MaxRequests)

ASSUME ServiceAssumption ==
  /\ MaxRequests \in Nat /\ MaxPanics \in Nat /\ MaxCrashes \in Nat
  /\ Kinds \subseteq {"memory", "hooks", "file"}
  /\ None # Torn /\ \A v \in Values : v \notin {None, Torn}

VARIABLES
  worker,    \* where the actor is, and the request it is at
  kept,      \* the requests that were answered after a successful persist
  lost,      \* a process has found a torn store
  panics, crashes

vars == <<bridgeVars, stateVars, worker, kept, lost, panics, crashes>>

Worker(at, request, saved) == [at |-> at, request |-> request, saved |-> saved]

Init ==
  /\ BridgeInit /\ StateInit
  /\ worker = Worker("starting", 0, FALSE)
  /\ kept = {} /\ lost = FALSE /\ panics = 0 /\ crashes = 0

Goes(at) == worker' = Worker(at, worker.request, FALSE)
SameProcess == UNCHANGED <<lost, panics, crashes>>
OnlyTheState == UNCHANGED <<bridgeVars, kept>> /\ SameProcess
OnlyTheBridge == UNCHANGED <<stateVars, kept>> /\ SameProcess

(* state.lock().await, once before the loop. *)
Start == worker.at = "starting" /\ Lock /\ Goes("checking") /\ OnlyTheState

(* is_running: the one wake point at which a dirty guard is a defect. *)
IsRunning ==
  /\ worker.at = "checking"
  /\ Goes(IF DirtyAtPark THEN "unwinding" ELSE "polling")
  /\ UNCHANGED <<bridgeVars, stateVars, kept>> /\ SameProcess

(* ingress.wait().await; None leaves the loop. *)
Poll ==
  /\ worker.at = "polling"
  /\ \/ PollTakes /\ worker' = Worker("applying", ingress.msg, FALSE)
     \/ PollParks /\ Goes("parked")
     \/ PollEnds /\ Goes("leaving")
  /\ OnlyTheBridge

Wake == worker.at = "parked" /\ Woken /\ Goes("polling") /\ OnlyTheBridge

Apply == worker.at = "applying" /\ Change(worker.request) /\ Goes("persisting") /\ OnlyTheState

Forget ==
  /\ worker.at = "persisting"
  /\ Goes("answering")
  /\ UNCHANGED <<bridgeVars, stateVars, kept>> /\ SameProcess

(* state.persist().await, in two steps when it writes a file.  On an error   *)
(* the actor goes on or gives up.                                            *)
Persisted == worker' = Worker("answering", worker.request, TRUE)
Fails == Goes("checking") \/ Goes("unwinding")

Persist ==
  /\ worker.at = "persisting"
  /\ \/ (PersistInMemory \/ PersistByHook) /\ Persisted
     \/ CreateFile /\ Goes("writing")
     \/ kind # "memory" /\ NotSaved(store) /\ Fails
  /\ OnlyTheState

Write ==
  /\ worker.at = "writing"
  /\ \/ WriteFile /\ Persisted
     \/ NotSaved(Torn) /\ Fails
  /\ OnlyTheState

Answer ==
  /\ worker.at = "answering"
  /\ Send(worker.request)
  /\ kept' = IF worker.saved THEN kept \cup {worker.request} ELSE kept
  /\ Goes("checking")
  /\ UNCHANGED stateVars /\ SameProcess

Panic ==
  /\ worker.at \in {"applying", "persisting", "answering"} /\ panics < MaxPanics
  /\ panics' = panics + 1
  /\ Goes("unwinding")
  /\ UNCHANGED <<bridgeVars, stateVars, kept, lost, crashes>>

(* The guard is dropped by the panic, the error or the end of the actor; the *)
(* troupe restarts it unless it has ended.                                   *)
Unwind ==
  /\ worker.at \in {"unwinding", "leaving"}
  /\ DropGuard
  /\ Goes(IF worker.at = "leaving" THEN "ended" ELSE "starting")
  /\ OnlyTheState

MainInspects == Inspect /\ UNCHANGED worker /\ OnlyTheState

(* The sandbox is killed and another one starts. *)
Crash ==
  /\ crashes < MaxCrashes /\ crashes' = crashes + 1
  /\ Load /\ BridgeRestarts
  /\ worker' = Worker("starting", 0, FALSE)
  /\ lost' = (lost \/ store = Torn)
  /\ UNCHANGED <<kept, panics>>

HostActs ==
  /\ \/ Inject \/ HostFinds \/ HostSeesClosed \/ HostLooks \/ HostIsLate
     \/ HostSleeps \/ HostWakes \/ HostTimesOut
  /\ UNCHANGED worker /\ OnlyTheBridge

Close ==
  /\ CloseFlags \/ CloseWakesActor \/ CloseWakesHost
  /\ UNCHANGED worker /\ OnlyTheBridge

(* The host has no more requests and the service waits, or has ended. *)
Quiescent ==
  /\ host.at = "idle" /\ requests = MaxRequests
  /\ worker.at \in {"parked", "ended"}
  /\ UNCHANGED vars

WorkerActs == Start \/ IsRunning \/ Poll \/ Wake \/ Apply \/ Forget \/ Persist
              \/ Write \/ Answer \/ Unwind

Next == WorkerActs \/ Panic \/ MainInspects \/ Crash \/ HostActs \/ Close \/ Quiescent

Spec == Init /\ [][Next]_vars

(* The executor polls the actor, the host's thread runs when it is not       *)
(* asleep and a call of close goes on.  No timeout need pass, no request be  *)
(* made and nobody need close.                                               *)
Fairness ==
  /\ WF_vars(WorkerActs)
  /\ WF_vars((HostFinds \/ HostSeesClosed \/ HostLooks \/ HostSleeps \/ HostWakes)
             /\ UNCHANGED worker /\ OnlyTheBridge)
  /\ WF_vars((CloseWakesActor \/ CloseWakesHost) /\ UNCHANGED worker /\ OnlyTheBridge)

FairSpec == Spec /\ Fairness

-----------------------------------------------------------------------------
SlotsOK == ingress \in [msg : 0..requests, waker : BOOLEAN] /\ egress \in 0..requests
FlagsOK == closed \in BOOLEAN /\ woken \in BOOLEAN /\ closing \in {"open", "flagged", "woken", "done"}
HostOK  == host \in [at : {"idle", "waiting", "looked", "sleeping"}, signalled : BOOLEAN]
CountOK == requests \in 0..MaxRequests /\ received \in Seq(1..requests)
BridgeOK == SlotsOK /\ FlagsOK /\ HostOK /\ CountOK

StateOK ==
  /\ kind \in Kinds /\ guard \in {"free", "clean", "dirty"} /\ lapsed \in BOOLEAN
  /\ value # Torn /\ value \in Values \cup {None} /\ store \in Values \cup {None, Torn}

WorkerState ==
  [at : {"starting", "checking", "polling", "parked", "applying", "persisting",
         "writing", "answering", "unwinding", "leaving", "ended"},
   request : 0..requests, saved : BOOLEAN]

TypeOK ==
  /\ BridgeOK /\ StateOK
  /\ worker \in WorkerState /\ kept \subseteq 1..requests /\ lost \in BOOLEAN
  /\ panics \in 0..MaxPanics /\ crashes \in 0..MaxCrashes

(* While the service is parked, and may be frozen and killed, the state it   *)
(* has changed is in the store (state.persist-before-park): forgetting to    *)
(* persist does not get past the wake point.  The exception is a state that  *)
(* a panic or an error has dropped unsaved: the restarted actor's guard      *)
(* starts clean, though the store is behind.                                 *)
ParkedIsDurable ==
  worker.at = "parked" /\ kind # "memory" => value \in {store, {}} \/ lapsed

(* A request that was answered after a successful persist stays in the store *)
(* over panics, restarts, failing saves and crashes, unless a process has    *)
(* died between truncating the file and writing it.                          *)
AnsweredIsDurable ==
  kind # "memory" /\ ~lost /\ kept # {} => store = Torn \/ (store # None /\ kept \subseteq store)

(* The host never receives an answer twice, or an earlier one after a later  *)
(* one, though an answer that comes too late is handed to the next request.  *)
AnswersInOrder ==
  \A i, j \in DOMAIN received : i < j => received[i] < received[j]

(* A request is taken by the actor however it interleaves with its polls and *)
(* restarts, unless the actor has left.                                      *)
RequestsAreTaken == ingress.msg # 0 ~> ingress.msg = 0 \/ worker.at = "ended"

(* An answer wakes the host without the help of its timeout. *)
AnswersAreHeard == egress # 0 /\ host.at # "idle" ~> host.at = "idle"

(* close ends the actor's wait, and so its loop; a crash takes it back. *)
CloseEndsWaits == closed ~> worker.at = "ended" \/ ~closed
=============================================================================
