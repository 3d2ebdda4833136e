---------------------------- MODULE LambdaBridge ----------------------------
(***************************************************************************)
(* The bridge between a host thread, which injects one request at a time   *)
(* and blocks until its answer or its timeout comes, and an actor that     *)
(* parks until the next request (graph/lambda_bridge.rs).                  *)
(*                                                                         *)
(* Two slots of one message, each behind a mutex: whatever is done under a *)
(* mutex in one go is one step, and the host's look at the egress slot,    *)
(* which goes to sleep with the mutex still held, is two.  The closing     *)
(* flag is read and written without them.  A request is its number, an     *)
(* answer the number of its request, and 0 no message.                     *)
(*                                                                         *)
(* The actions are those of the bridge; LambdaService joins them to the    *)
(* actor that calls them.                                                  *)
(***************************************************************************)
EXTENDS Naturals, Sequences

CONSTANT MaxRequests  \* a bound on the requests of the host

VARIABLES
  ingress,   \* the slot for requests: its message, and whether a waker is in it
  egress,    \* the slot for answers
  closed,    \* the flag
  closing,   \* how far the call of close is
  woken,     \* the actor's future has been woken and not been polled since
  host,      \* where the host is in inject and wait_output, and whether the
             \* condition variable has been signalled while it slept
  requests,  \* how many requests have been injected
  received   \* the answers handed to the host

bridgeVars == <<ingress, egress, closed, closing, woken, host, requests, received>>

Slot(msg, waker)    == [msg |-> msg, waker |-> waker]
Host(at, signalled) == [at |-> at, signalled |-> signalled]

BridgeInit ==
  /\ ingress = Slot(0, FALSE) /\ egress = 0
  /\ closed = FALSE /\ closing = "open" /\ woken = FALSE
  /\ host = Host("idle", FALSE) /\ requests = 0 /\ received = <<>>

(* A new process starts with a new bridge; the numbers go on. *)
BridgeRestarts ==
  /\ ingress' = Slot(0, FALSE) /\ egress' = 0
  /\ closed' = FALSE /\ closing' = "open" /\ woken' = FALSE
  /\ host' = Host("idle", FALSE)
  /\ UNCHANGED <<requests, received>>

-----------------------------------------------------------------------------
(* The host.                                                                *)

(* Mutant: the waker is left where it is. *)
InjectSilently ==
  /\ host.at = "idle" /\ requests < MaxRequests
  /\ requests' = requests + 1
  /\ ingress' = Slot(requests + 1, ingress.waker)
  /\ host' = Host("waiting", FALSE)
  /\ UNCHANGED <<egress, closed, closing, woken, received>>

(* An unread request is replaced. *)
Inject ==
  /\ host.at = "idle" /\ requests < MaxRequests
  /\ requests' = requests + 1
  /\ ingress' = Slot(requests + 1, FALSE)
  /\ woken' = (woken \/ ingress.waker)
  /\ host' = Host("waiting", FALSE)
  /\ UNCHANGED <<egress, closed, closing, received>>

(* Mutant: the answer is read without being taken. *)
HostTakesCopy ==
  /\ egress # 0
  /\ received' = Append(received, egress)
  /\ host' = Host("idle", FALSE)
  /\ UNCHANGED <<ingress, egress, closed, closing, woken, requests>>

HostTakes ==
  /\ egress # 0
  /\ received' = Append(received, egress) /\ egress' = 0
  /\ host' = Host("idle", FALSE)
  /\ UNCHANGED <<ingress, closed, closing, woken, requests>>

HostGoes(at) ==
  /\ host' = Host(at, FALSE)
  /\ UNCHANGED <<ingress, egress, closed, closing, woken, requests, received>>

(* With the mutex of the egress slot: a look at the slot, at the flag and at  *)
(* the clock; then the sleep, which gives the mutex back.                     *)
HostFinds == host.at = "waiting" /\ HostTakes
HostSeesClosed == host.at = "waiting" /\ egress = 0 /\ closed /\ HostGoes("idle")
HostLooks == host.at = "waiting" /\ egress = 0 /\ ~closed /\ HostGoes("looked")
HostIsLate == host.at = "looked" /\ HostGoes("idle")
HostSleeps == host.at = "looked" /\ HostGoes("sleeping")
HostWakes == host.at = "sleeping" /\ host.signalled /\ HostGoes("waiting")

(* A timed-out sleep still takes what has come. *)
HostTimesOut ==
  /\ host.at = "sleeping"
  /\ HostTakes \/ (egress = 0 /\ HostGoes("idle"))

(* close of the host, from another of its threads, or of the egress: the      *)
(* flag, then the waker, then the condition variable without its mutex.       *)
CloseFlags ==
  /\ closing = "open"
  /\ closed' = TRUE /\ closing' = "flagged"
  /\ UNCHANGED <<ingress, egress, woken, host, requests, received>>

(* Mutant: the waker stays in the slot. *)
CloseForgetsWaker ==
  /\ closing = "flagged"
  /\ closing' = "woken"
  /\ UNCHANGED <<ingress, egress, closed, woken, host, requests, received>>

CloseWakesActor ==
  /\ closing = "flagged"
  /\ woken' = (woken \/ ingress.waker)
  /\ ingress' = Slot(ingress.msg, FALSE)
  /\ closing' = "woken"
  /\ UNCHANGED <<egress, closed, host, requests, received>>

CloseWakesHost ==
  /\ closing = "woken"
  /\ host' = Host(host.at, host.at = "sleeping")
  /\ closing' = "done"
  /\ UNCHANGED <<ingress, egress, closed, woken, requests, received>>

-----------------------------------------------------------------------------
(* The actor.                                                               *)

(* IngressWait::poll, under the mutex of the ingress slot: a request, the end *)
(* or a waker left behind.                                                    *)
PollTakes ==
  /\ ingress.msg # 0
  /\ ingress' = Slot(0, ingress.waker)
  /\ UNCHANGED <<egress, closed, closing, woken, host, requests, received>>

(* The flag is looked at before and after the waker is left. *)
PollEnds ==
  /\ ingress.msg = 0 /\ closed
  /\ UNCHANGED ingress \/ ingress' = Slot(0, TRUE)
  /\ UNCHANGED <<egress, closed, closing, woken, host, requests, received>>

PollParks ==
  /\ ingress.msg = 0 /\ ~closed
  /\ ingress' = Slot(0, TRUE)
  /\ UNCHANGED <<egress, closed, closing, woken, host, requests, received>>

Woken ==
  /\ woken /\ woken' = FALSE
  /\ UNCHANGED <<ingress, egress, closed, closing, host, requests, received>>

(* Mutant: the answer is sent without the mutex. *)
SendUnlocked(answer) ==
  /\ egress' = answer
  /\ host' = Host(host.at, host.signalled \/ host.at = "sleeping")
  /\ UNCHANGED <<ingress, closed, closing, woken, requests, received>>

(* An answer that nobody has fetched is replaced. *)
Send(answer) ==
  /\ host.at # "looked"
  /\ egress' = answer
  /\ host' = Host(host.at, host.signalled \/ host.at = "sleeping")
  /\ UNCHANGED <<ingress, closed, closing, woken, requests, received>>
=============================================================================
