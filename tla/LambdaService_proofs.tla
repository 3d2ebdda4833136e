------------------------ MODULE LambdaService_proofs ------------------------
(***************************************************************************)
(* Theorems about LambdaService, for any number of requests, panics and    *)
(* crashes and every kind of state: what survives a crash, what a parked   *)
(* service has saved, and the order of the answers.                        *)
(***************************************************************************)
EXTENDS LambdaService, TLAPS

-----------------------------------------------------------------------------
(* The actor at its request: since it took it, and since it applied it.     *)
InFlight == worker.at \in {"applying", "persisting", "writing", "answering"}
Applied  == worker.at \in {"persisting", "writing", "answering"}

(* The guard is held from the start to the end of the actor's function, and  *)
(* while it is, there is a value.                                           *)
Guarded ==
  /\ guard = "free" <=> worker.at \in {"starting", "ended"}
  /\ guard # "free" => value # None
  /\ InFlight => worker.request # 0

TypeInv == TypeOK /\ Guarded

LEMMA MoreAnswers ==
  ASSUME NEW n \in Nat, NEW s \in Seq(1..n), NEW m \in Nat, n <= m
  PROVE  s \in Seq(1..m)
<1>1. \A i \in 1..Len(s) : s[i] \in 1..m
  BY SMT
<1> QED
  BY <1>1, SMT

LEMMA TypeInit == Init => TypeInv
<1> SUFFICES ASSUME Init PROVE TypeInv
  OBVIOUS
<1>0. BridgeInit /\ StateInit /\ worker = Worker("starting", 0, FALSE)
      /\ kept = {} /\ lost = FALSE /\ panics = 0 /\ crashes = 0
  BY DEF Init
<1>1. BridgeOK
  <2> USE <1>0 DEF BridgeInit, Slot, Host
  <2>1. SlotsOK  BY DEF SlotsOK
  <2>2. FlagsOK  BY DEF FlagsOK
  <2>3. HostOK   BY DEF HostOK
  <2>4. CountOK  BY ServiceAssumption DEF CountOK
  <2> QED        BY <2>1, <2>2, <2>3, <2>4 DEF BridgeOK
<1>2. StateOK
  BY <1>0, ServiceAssumption DEF StateInit, StateOK
<1>3. worker \in WorkerState
  BY <1>0 DEF BridgeInit, WorkerState, Worker
<1>4. TypeOK
  <2>1. kept \subseteq 1..requests /\ lost \in BOOLEAN
    BY <1>0
  <2>2. panics \in 0..MaxPanics /\ crashes \in 0..MaxCrashes
    BY <1>0, ServiceAssumption
  <2> QED
    BY <1>1, <1>2, <1>3, <2>1, <2>2 DEF TypeOK
<1>5. Guarded
  BY <1>0 DEF StateInit, Guarded, InFlight, Worker
<1> QED
  BY <1>4, <1>5 DEF TypeInv

(* What is done at the bridge, but for the host's own steps. *)
LEMMA BridgeStep ==
  ASSUME BridgeOK,
         \/ PollTakes \/ PollEnds \/ PollParks \/ Woken
         \/ \E answer \in 1..requests : Send(answer)
         \/ CloseFlags \/ CloseWakesActor \/ CloseWakesHost
         \/ BridgeRestarts \/ UNCHANGED bridgeVars
  PROVE  BridgeOK' /\ UNCHANGED requests
<1>1. SlotsOK /\ FlagsOK /\ HostOK /\ CountOK /\ requests \in Nat
  BY ServiceAssumption DEF BridgeOK, CountOK
<1>c. ASSUME UNCHANGED <<requests, received>> PROVE CountOK'
  BY <1>1, <1>c DEF CountOK
<1>2. CASE PollTakes
  <2>1. SlotsOK'  BY <1>1, <1>2 DEF SlotsOK, Slot, PollTakes
  <2>2. FlagsOK'  BY <1>1, <1>2 DEF FlagsOK, SlotsOK, PollTakes
  <2>3. HostOK'   BY <1>1, <1>2 DEF HostOK, Host, PollTakes
  <2>4. UNCHANGED <<requests, received>>  BY <1>2 DEF PollTakes
  <2> QED  BY <2>1, <2>2, <2>3, <2>4, <1>c DEF BridgeOK
<1>3. CASE PollEnds
  <2>0. (UNCHANGED ingress \/ ingress' = Slot(0, TRUE)) /\ UNCHANGED <<egress, requests>>
    BY <1>3 DEF PollEnds
  <2>1. SlotsOK'
    <3>1. CASE UNCHANGED ingress       BY <1>1, <2>0, <3>1 DEF SlotsOK
    <3>2. CASE ingress' = Slot(0, TRUE)  BY <1>1, <2>0, <3>2 DEF SlotsOK, Slot
    <3> QED                            BY <2>0, <3>1, <3>2
  <2>2. FlagsOK'  BY <1>1, <1>3 DEF FlagsOK, SlotsOK, PollEnds
  <2>3. HostOK'   BY <1>1, <1>3 DEF HostOK, Host, PollEnds
  <2>4. UNCHANGED <<requests, received>>  BY <1>3 DEF PollEnds
  <2> QED  BY <2>1, <2>2, <2>3, <2>4, <1>c DEF BridgeOK
<1>4. CASE PollParks
  <2>1. SlotsOK'  BY <1>1, <1>4 DEF SlotsOK, Slot, PollParks
  <2>2. FlagsOK'  BY <1>1, <1>4 DEF FlagsOK, SlotsOK, PollParks
  <2>3. HostOK'   BY <1>1, <1>4 DEF HostOK, Host, PollParks
  <2>4. UNCHANGED <<requests, received>>  BY <1>4 DEF PollParks
  <2> QED  BY <2>1, <2>2, <2>3, <2>4, <1>c DEF BridgeOK
<1>5. CASE Woken
  <2>1. SlotsOK'  BY <1>1, <1>5 DEF SlotsOK, Slot, Woken
  <2>2. FlagsOK'  BY <1>1, <1>5 DEF FlagsOK, SlotsOK, Woken
  <2>3. HostOK'   BY <1>1, <1>5 DEF HostOK, Host, Woken
  <2>4. UNCHANGED <<requests, received>>  BY <1>5 DEF Woken
  <2> QED  BY <2>1, <2>2, <2>3, <2>4, <1>c DEF BridgeOK
<1>6. CASE \E answer \in 1..requests : Send(answer)
  <2>1. SlotsOK'  BY <1>1, <1>6 DEF SlotsOK, Slot, Send
  <2>2. FlagsOK'  BY <1>1, <1>6 DEF FlagsOK, SlotsOK, Send
  <2>3. HostOK'   BY <1>1, <1>6 DEF HostOK, Host, Send
  <2>4. UNCHANGED <<requests, received>>  BY <1>6 DEF Send
  <2> QED  BY <2>1, <2>2, <2>3, <2>4, <1>c DEF BridgeOK
<1>7. CASE CloseFlags
  <2>1. SlotsOK'  BY <1>1, <1>7 DEF SlotsOK, Slot, CloseFlags
  <2>2. FlagsOK'  BY <1>1, <1>7 DEF FlagsOK, SlotsOK, CloseFlags
  <2>3. HostOK'   BY <1>1, <1>7 DEF HostOK, Host, CloseFlags
  <2>4. UNCHANGED <<requests, received>>  BY <1>7 DEF CloseFlags
  <2> QED  BY <2>1, <2>2, <2>3, <2>4, <1>c DEF BridgeOK
<1>8. CASE CloseWakesActor
  <2>1. SlotsOK'  BY <1>1, <1>8 DEF SlotsOK, Slot, CloseWakesActor
  <2>2. FlagsOK'  BY <1>1, <1>8 DEF FlagsOK, SlotsOK, CloseWakesActor
  <2>3. HostOK'   BY <1>1, <1>8 DEF HostOK, Host, CloseWakesActor
  <2>4. UNCHANGED <<requests, received>>  BY <1>8 DEF CloseWakesActor
  <2> QED  BY <2>1, <2>2, <2>3, <2>4, <1>c DEF BridgeOK
<1>9. CASE CloseWakesHost
  <2>1. SlotsOK'  BY <1>1, <1>9 DEF SlotsOK, Slot, CloseWakesHost
  <2>2. FlagsOK'  BY <1>1, <1>9 DEF FlagsOK, SlotsOK, CloseWakesHost
  <2>3. HostOK'   BY <1>1, <1>9 DEF HostOK, Host, CloseWakesHost
  <2>4. UNCHANGED <<requests, received>>  BY <1>9 DEF CloseWakesHost
  <2> QED  BY <2>1, <2>2, <2>3, <2>4, <1>c DEF BridgeOK
<1>10. CASE BridgeRestarts
  <2>1. SlotsOK'  BY <1>1, <1>10 DEF SlotsOK, Slot, BridgeRestarts
  <2>2. FlagsOK'  BY <1>1, <1>10 DEF FlagsOK, SlotsOK, BridgeRestarts
  <2>3. HostOK'   BY <1>1, <1>10 DEF HostOK, Host, BridgeRestarts
  <2>4. UNCHANGED <<requests, received>>  BY <1>10 DEF BridgeRestarts
  <2> QED  BY <2>1, <2>2, <2>3, <2>4, <1>c DEF BridgeOK
<1>11. CASE UNCHANGED bridgeVars
  <2>1. SlotsOK'  BY <1>1, <1>11 DEF SlotsOK, Slot, bridgeVars
  <2>2. FlagsOK'  BY <1>1, <1>11 DEF FlagsOK, SlotsOK, bridgeVars
  <2>3. HostOK'   BY <1>1, <1>11 DEF HostOK, Host, bridgeVars
  <2>4. UNCHANGED <<requests, received>>  BY <1>11 DEF bridgeVars
  <2> QED  BY <2>1, <2>2, <2>3, <2>4, <1>c DEF BridgeOK
<1> QED
  BY <1>2, <1>3, <1>4, <1>5, <1>6, <1>7, <1>8, <1>9, <1>10, <1>11

LEMMA HostStep ==
  ASSUME BridgeOK,
         Inject \/ HostTakes \/ \E at \in {"idle", "waiting", "looked", "sleeping"} : HostGoes(at)
  PROVE  BridgeOK' /\ requests' \in {requests, requests + 1}
<1>1. SlotsOK /\ FlagsOK /\ HostOK /\ CountOK /\ requests \in Nat
  BY ServiceAssumption DEF BridgeOK, CountOK
<1>2. CASE Inject
  <2>0. requests' = requests + 1 /\ UNCHANGED received
    BY <1>2 DEF Inject
  <2>1. SlotsOK'  BY <1>1, <1>2 DEF SlotsOK, Slot, Inject
  <2>2. FlagsOK'  BY <1>1, <1>2 DEF FlagsOK, SlotsOK, Inject
  <2>3. HostOK'   BY <1>1, <1>2 DEF HostOK, Host, Inject
  <2>4. received \in Seq(1 .. requests + 1)
    BY <1>1, MoreAnswers DEF CountOK
  <2>5. CountOK'
    BY <1>1, <1>2, <2>0, <2>4, ServiceAssumption DEF CountOK, Inject
  <2> QED  BY <2>0, <2>1, <2>2, <2>3, <2>5 DEF BridgeOK
<1>3. CASE HostTakes
  <2>1. SlotsOK'  BY <1>1, <1>3 DEF SlotsOK, HostTakes
  <2>2. FlagsOK'  BY <1>1, <1>3 DEF FlagsOK, HostTakes
  <2>3. HostOK'   BY <1>1, <1>3 DEF HostOK, Host, HostTakes
  <2>4. CountOK'  BY <1>1, <1>3 DEF CountOK, SlotsOK, HostTakes
  <2> QED  BY <1>3, <2>1, <2>2, <2>3, <2>4 DEF BridgeOK, HostTakes
<1>4. ASSUME NEW at \in {"idle", "waiting", "looked", "sleeping"}, HostGoes(at)
      PROVE  BridgeOK' /\ UNCHANGED requests
  <2>1. SlotsOK'  BY <1>1, <1>4 DEF SlotsOK, HostGoes
  <2>2. FlagsOK'  BY <1>1, <1>4 DEF FlagsOK, HostGoes
  <2>3. HostOK'   BY <1>1, <1>4 DEF HostOK, Host, HostGoes
  <2>4. CountOK'  BY <1>1, <1>4 DEF CountOK, HostGoes
  <2> QED  BY <1>4, <2>1, <2>2, <2>3, <2>4 DEF BridgeOK, HostGoes
<1> QED
  BY <1>2, <1>3, <1>4

(* What the actor does to the state it holds, and main to the one it finds.  *)
LEMMA StateStep ==
  ASSUME StateOK,
         \/ Load \/ Lock \/ PersistInMemory \/ DropGuard
         \/ guard # "free" /\ value # None
            /\ (Saved \/ NotSaved(Torn) \/ NotSaved(store)
                \/ \E request \in 1..MaxRequests : Change(request))
         \/ UNCHANGED stateVars
  PROVE  StateOK'
<1> USE ServiceAssumption DEF StateOK, Values
<1>1. CASE Load  BY <1>1 DEF Load
<1>2. CASE Lock  BY <1>2 DEF Lock
<1>3. CASE PersistInMemory  BY <1>3 DEF PersistInMemory
<1>4. CASE DropGuard  BY <1>4 DEF DropGuard
<1>5. CASE guard # "free" /\ value # None /\ Saved  BY <1>5 DEF Saved
<1>6. CASE NotSaved(Torn) \/ NotSaved(store)  BY <1>6 DEF NotSaved
<1>7. CASE guard # "free" /\ value # None /\ \E request \in 1..MaxRequests : Change(request)
  BY <1>7 DEF Change
<1>8. CASE UNCHANGED stateVars  BY <1>8 DEF stateVars
<1> QED
  BY <1>1, <1>2, <1>3, <1>4, <1>5, <1>6, <1>7, <1>8

LEMMA TypeStep == TypeInv /\ [Next]_vars => TypeInv'
<1> SUFFICES ASSUME TypeInv, [Next]_vars PROVE TypeInv'
  OBVIOUS
<1>1. /\ BridgeOK /\ StateOK /\ worker \in WorkerState /\ Guarded
      /\ requests \in Nat /\ requests \in 0..MaxRequests
      /\ kept \subseteq 1..requests /\ lost \in BOOLEAN
      /\ panics \in 0..MaxPanics /\ crashes \in 0..MaxCrashes
  BY ServiceAssumption DEF TypeInv, TypeOK, BridgeOK, CountOK
<1>b. ASSUME BridgeOK', UNCHANGED requests, StateOK', worker' \in WorkerState, Guarded',
             UNCHANGED kept, SameProcess
      PROVE  TypeInv'
  <2>1. (worker \in WorkerState)'
    BY <1>b DEF WorkerState
  <2>2. (kept \subseteq 1..requests /\ lost \in BOOLEAN)'
    BY <1>1, <1>b DEF SameProcess
  <2>3. (panics \in 0..MaxPanics /\ crashes \in 0..MaxCrashes)'
    BY <1>1, <1>b DEF SameProcess
  <2> QED
    BY <1>b, <2>1, <2>2, <2>3 DEF TypeInv, TypeOK
<1>g. ASSUME NEW at \in {"polling", "parked", "writing", "checking", "unwinding", "leaving"}, Goes(at)
      PROVE  worker' \in WorkerState
  BY <1>1, <1>g DEF Goes, Worker, WorkerState
<1>t. ASSUME BridgeOK', StateOK', (worker \in WorkerState)', Guarded',
             (kept \subseteq 1..requests /\ lost \in BOOLEAN)',
             (panics \in 0..MaxPanics /\ crashes \in 0..MaxCrashes)'
      PROVE  TypeInv'
  BY <1>t DEF TypeInv, TypeOK
<1>2. CASE Start
  <2>1. BridgeOK' /\ UNCHANGED <<requests, kept>> /\ SameProcess
    <3>1. UNCHANGED <<bridgeVars, kept>> /\ SameProcess
      BY <1>2 DEF Start, OnlyTheState
    <3> QED
      BY <1>1, <3>1, BridgeStep
  <2>2. StateOK'
    BY <1>1, <1>2, StateStep DEF Start
  <2>3. worker' \in WorkerState
    BY <1>1, <1>2 DEF Start, Goes, Worker, WorkerState
  <2>4. Guarded'
    <3>1. guard' = "clean" /\ value' # None /\ worker'.at = "checking"
      BY <1>1, <1>2, ServiceAssumption DEF Start, Goes, Worker, Lock, Values
    <3> QED
      BY <3>1 DEF Guarded, InFlight
  <2> QED
    BY <1>b, <2>1, <2>2, <2>3, <2>4
<1>3. CASE IsRunning
  <2>1. BridgeOK' /\ UNCHANGED <<requests, kept>> /\ SameProcess
    <3>1. UNCHANGED <<bridgeVars, kept>> /\ SameProcess
      BY <1>3 DEF IsRunning, OnlyTheState
    <3> QED
      BY <1>1, <3>1, BridgeStep
  <2>2. StateOK'
    BY <1>1, <1>3, StateStep DEF IsRunning, OnlyTheBridge
  <2>3. worker' \in WorkerState
    BY <1>1, <1>3 DEF IsRunning, Goes, Worker, WorkerState
  <2>4. Guarded'
    BY <1>1, <1>3 DEF IsRunning, Goes, Worker, Guarded, InFlight, stateVars
  <2> QED
    BY <1>b, <2>1, <2>2, <2>3, <2>4
<1>4. CASE Poll
  <2>1. BridgeOK' /\ UNCHANGED <<requests, kept>> /\ SameProcess
    <3>1. PollTakes \/ PollEnds \/ PollParks
      BY <1>4 DEF Poll
    <3> QED
      BY <1>1, <1>4, <3>1, BridgeStep DEF Poll, OnlyTheBridge
  <2>2. StateOK'
    BY <1>1, <1>4, StateStep DEF Poll, OnlyTheBridge
  <2>3. worker' \in WorkerState
    <3>1. ingress.msg \in 0..requests
      BY <1>1 DEF BridgeOK, SlotsOK
    <3>2. CASE worker' = Worker("applying", ingress.msg, FALSE)
      BY <3>1, <3>2 DEF Worker, WorkerState
    <3>3. CASE Goes("parked") \/ Goes("leaving")
      BY <1>g, <3>3
    <3> QED
      BY <1>4, <3>2, <3>3 DEF Poll
  <2>4. Guarded'
    <3>1. UNCHANGED <<guard, value>> /\ guard # "free" /\ value # None
      BY <1>1, <1>4 DEF Poll, Guarded, OnlyTheBridge, stateVars
    <3>2. CASE worker' = Worker("applying", ingress.msg, FALSE) /\ PollTakes
      BY <3>1, <3>2 DEF Worker, PollTakes, Guarded, InFlight
    <3>3. CASE Goes("parked") \/ Goes("leaving")
      BY <3>1, <3>3 DEF Goes, Worker, Guarded, InFlight
    <3> QED
      BY <1>4, <3>2, <3>3 DEF Poll
  <2> QED
    BY <1>b, <2>1, <2>2, <2>3, <2>4
<1>5. CASE Wake
  <2>1. BridgeOK' /\ UNCHANGED <<requests, kept>> /\ SameProcess
    <3>1. Woken
      BY <1>5 DEF Wake
    <3> QED
      BY <1>1, <1>5, <3>1, BridgeStep DEF Wake, OnlyTheBridge
  <2>2. StateOK'
    BY <1>1, <1>5, StateStep DEF Wake, OnlyTheBridge
  <2>3. worker' \in WorkerState
    BY <1>1, <1>5 DEF Wake, Goes, Worker, WorkerState
  <2>4. Guarded'
    BY <1>1, <1>5 DEF Wake, Goes, Worker, Guarded, InFlight, OnlyTheBridge, stateVars
  <2> QED
    BY <1>b, <2>1, <2>2, <2>3, <2>4
<1>6. CASE Apply
  <2>1. BridgeOK' /\ UNCHANGED <<requests, kept>> /\ SameProcess
    <3>1. UNCHANGED <<bridgeVars, kept>> /\ SameProcess
      BY <1>6 DEF Apply, OnlyTheState
    <3> QED
      BY <1>1, <3>1, BridgeStep
  <2>2. StateOK'
    <3>1. worker.request \in 1..MaxRequests
      BY <1>1, <1>6, ServiceAssumption DEF Apply, Guarded, InFlight, WorkerState
    <3>2. guard # "free" /\ value # None /\ Change(worker.request)
      BY <1>1, <1>6 DEF Apply, Guarded
    <3> QED
      BY <1>1, <3>1, <3>2, StateStep
  <2>3. worker' \in WorkerState
    BY <1>1, <1>6 DEF Apply, Goes, Worker, WorkerState, Change
  <2>4. Guarded'
    <3>1. guard # "free" /\ value \in Values /\ worker.request # 0
      BY <1>1, <1>6 DEF Apply, Guarded, InFlight, StateOK
    <3>2. value' \in Values
      <4>1. worker.request \in 1..MaxRequests /\ value' = value \cup {worker.request}
        BY <1>1, <1>6, <3>1, ServiceAssumption DEF Apply, Change, WorkerState
      <4> QED
        BY <3>1, <4>1 DEF Values
    <3>3. guard' # "free" /\ value' # None
      BY <1>6, <3>1, <3>2, ServiceAssumption DEF Apply, Change
    <3>4. worker'.at = "persisting" /\ worker'.request = worker.request
      BY <1>6 DEF Apply, Goes, Worker
    <3> QED
      BY <3>1, <3>3, <3>4 DEF Guarded, InFlight
  <2> QED
    BY <1>b, <2>1, <2>2, <2>3, <2>4
<1>7. CASE Forget
  <2>1. BridgeOK' /\ UNCHANGED <<requests, kept>> /\ SameProcess
    <3>1. UNCHANGED <<bridgeVars, kept>> /\ SameProcess
      BY <1>7 DEF Forget, OnlyTheState
    <3> QED
      BY <1>1, <3>1, BridgeStep
  <2>2. StateOK'
    BY <1>1, <1>7, StateStep DEF Forget, OnlyTheBridge
  <2>3. worker' \in WorkerState
    BY <1>1, <1>7 DEF Forget, Goes, Worker, WorkerState
  <2>4. Guarded'
    BY <1>1, <1>7 DEF Forget, Goes, Worker, Guarded, InFlight, stateVars
  <2> QED
    BY <1>b, <2>1, <2>2, <2>3, <2>4
<1>8. CASE Persist
  <2>1. BridgeOK' /\ UNCHANGED <<requests, kept>> /\ SameProcess
    <3>1. UNCHANGED <<bridgeVars, kept>> /\ SameProcess
      BY <1>8 DEF Persist, OnlyTheState
    <3> QED
      BY <1>1, <3>1, BridgeStep
  <2>2. StateOK'
    BY <1>1, <1>8, StateStep DEF Persist, Guarded, PersistInMemory, PersistByHook, CreateFile
  <2>3. worker' \in WorkerState
    <3>1. CASE Persisted
      BY <1>1, <3>1 DEF Persisted, Worker, WorkerState
    <3>2. CASE Goes("writing") \/ Goes("checking") \/ Goes("unwinding")
      BY <1>g, <3>2
    <3> QED
      BY <1>8, <3>1, <3>2 DEF Persist, Fails
  <2>4. Guarded'
    BY <1>1, <1>8 DEF Persist, Goes, Worker, Guarded, InFlight, PersistInMemory, PersistByHook, CreateFile, Saved, NotSaved, Persisted, Fails
  <2> QED
    BY <1>b, <2>1, <2>2, <2>3, <2>4
<1>9. CASE Write
  <2>1. BridgeOK' /\ UNCHANGED <<requests, kept>> /\ SameProcess
    <3>1. UNCHANGED <<bridgeVars, kept>> /\ SameProcess
      BY <1>9 DEF Write, OnlyTheState
    <3> QED
      BY <1>1, <3>1, BridgeStep
  <2>2. StateOK'
    BY <1>1, <1>9, StateStep DEF Write, Guarded, WriteFile
  <2>3. worker' \in WorkerState
    <3>1. CASE Persisted
      BY <1>1, <3>1 DEF Persisted, Worker, WorkerState
    <3>2. CASE Goes("checking") \/ Goes("unwinding")
      BY <1>g, <3>2
    <3> QED
      BY <1>9, <3>1, <3>2 DEF Write, Fails
  <2>4. Guarded'
    BY <1>1, <1>9 DEF Write, Goes, Worker, Guarded, InFlight, WriteFile, Saved, NotSaved, Persisted, Fails
  <2> QED
    BY <1>b, <2>1, <2>2, <2>3, <2>4
<1>10. CASE Unwind
  <2>1. BridgeOK' /\ UNCHANGED <<requests, kept>> /\ SameProcess
    <3>1. UNCHANGED <<bridgeVars, kept>> /\ SameProcess
      BY <1>10 DEF Unwind, OnlyTheState
    <3> QED
      BY <1>1, <3>1, BridgeStep
  <2>2. StateOK'
    BY <1>1, <1>10, StateStep DEF Unwind
  <2>3. worker' \in WorkerState
    BY <1>1, <1>10 DEF Unwind, Goes, Worker, WorkerState, DropGuard
  <2>4. Guarded'
    BY <1>1, <1>10 DEF Unwind, Goes, Worker, Guarded, InFlight, DropGuard
  <2> QED
    BY <1>b, <2>1, <2>2, <2>3, <2>4
<1>11. CASE Answer
  <2>1. Send(worker.request) /\ worker.request \in 1..requests
    BY <1>1, <1>11 DEF Answer, Guarded, InFlight, WorkerState
  <2>2. BridgeOK' /\ UNCHANGED requests
    BY <1>1, <2>1, BridgeStep
  <2>3. StateOK'
    BY <1>1, <1>11, StateStep DEF Answer
  <2>4. (worker \in WorkerState)'
    BY <1>1, <1>11, <2>2 DEF Answer, Goes, Worker, WorkerState
  <2>5. Guarded'
    BY <1>1, <1>11 DEF Answer, Goes, Worker, Guarded, InFlight, stateVars
  <2>6. (kept \subseteq 1..requests /\ lost \in BOOLEAN)'
    BY <1>1, <1>11, <2>1, <2>2 DEF Answer, SameProcess
  <2>7. (panics \in 0..MaxPanics /\ crashes \in 0..MaxCrashes)'
    BY <1>1, <1>11 DEF Answer, SameProcess
  <2> QED
    BY <1>t, <2>2, <2>3, <2>4, <2>5, <2>6, <2>7
<1>12. CASE Panic
  <2>1. BridgeOK' /\ UNCHANGED requests
    BY <1>1, <1>12, BridgeStep DEF Panic
  <2>2. StateOK'
    BY <1>1, <1>12, StateStep DEF Panic
  <2>3. (worker \in WorkerState)'
    BY <1>1, <1>12, <2>1 DEF Panic, Goes, Worker, WorkerState
  <2>4. Guarded'
    BY <1>1, <1>12 DEF Panic, Goes, Worker, Guarded, InFlight, stateVars
  <2>5. (kept \subseteq 1..requests /\ lost \in BOOLEAN)'
    BY <1>1, <1>12, <2>1 DEF Panic
  <2>6. (panics \in 0..MaxPanics /\ crashes \in 0..MaxCrashes)'
    BY <1>1, <1>12, ServiceAssumption DEF Panic
  <2> QED
    BY <1>t, <2>1, <2>2, <2>3, <2>4, <2>5, <2>6
<1>13. CASE MainInspects
  <2>1. BridgeOK' /\ UNCHANGED <<requests, kept>> /\ SameProcess
    BY <1>1, <1>13, BridgeStep DEF MainInspects, OnlyTheState
  <2>2. StateOK'
    BY <1>1, <1>13, StateStep DEF MainInspects, Inspect
  <2>3. worker' \in WorkerState
    BY <1>1, <1>13, <2>1 DEF MainInspects
  <2>4. Guarded'
    BY <1>1, <1>13 DEF MainInspects, Inspect, DropGuard, Guarded, InFlight
  <2> QED
    BY <1>b, <2>1, <2>2, <2>3, <2>4
<1>14. CASE Crash
  <2>1. BridgeOK' /\ UNCHANGED <<requests, kept, panics>>
    BY <1>1, <1>14, BridgeStep DEF Crash
  <2>2. StateOK'
    BY <1>1, <1>14, StateStep DEF Crash
  <2>3. (worker \in WorkerState)'
    BY <1>1, <1>14, <2>1 DEF Crash, Worker, WorkerState
  <2>4. Guarded'
    BY <1>1, <1>14 DEF Crash, Load, Worker, Guarded, InFlight
  <2>5. (kept \subseteq 1..requests /\ lost \in BOOLEAN)'
    BY <1>1, <1>14, <2>1 DEF Crash
  <2>6. (panics \in 0..MaxPanics /\ crashes \in 0..MaxCrashes)'
    BY <1>1, <1>14, ServiceAssumption DEF Crash
  <2> QED
    BY <1>t, <2>1, <2>2, <2>3, <2>4, <2>5, <2>6
<1>15. CASE HostActs
  <2>1. UNCHANGED <<stateVars, kept, worker>> /\ SameProcess
    BY <1>15 DEF HostActs, OnlyTheBridge
  <2>2. BridgeOK' /\ requests' \in {requests, requests + 1}
    <3>1. Inject \/ HostTakes \/ \E at \in {"idle", "waiting", "looked", "sleeping"} : HostGoes(at)
      BY <1>15 DEF HostActs, HostFinds, HostSeesClosed, HostLooks, HostIsLate, HostSleeps,
                   HostWakes, HostTimesOut
    <3> QED
      BY <1>1, <3>1, HostStep
  <2>3. StateOK'
    BY <1>1, <2>1, StateStep
  <2>4. (worker \in WorkerState)'
    BY <1>1, <2>1, <2>2 DEF WorkerState
  <2>5. Guarded'
    BY <1>1, <2>1 DEF Guarded, InFlight, stateVars
  <2>6. (kept \subseteq 1..requests /\ lost \in BOOLEAN)'
    BY <1>1, <2>1, <2>2 DEF SameProcess
  <2>7. (panics \in 0..MaxPanics /\ crashes \in 0..MaxCrashes)'
    BY <1>1, <2>1 DEF SameProcess
  <2> QED
    BY <1>t, <2>2, <2>3, <2>4, <2>5, <2>6, <2>7
<1>16. CASE Close
  <2>1. UNCHANGED <<stateVars, worker>>
    BY <1>16 DEF Close, OnlyTheBridge
  <2>2. BridgeOK' /\ UNCHANGED <<requests, kept>> /\ SameProcess
    BY <1>1, <1>16, BridgeStep DEF Close, OnlyTheBridge
  <2>3. StateOK'
    BY <1>1, <2>1, StateStep
  <2>4. worker' \in WorkerState
    BY <1>1, <2>1, <2>2 DEF WorkerState
  <2>5. Guarded'
    BY <1>1, <2>1 DEF Guarded, InFlight, stateVars
  <2> QED
    BY <1>b, <2>2, <2>3, <2>4, <2>5
<1>17. CASE UNCHANGED vars
  <2>1. UNCHANGED <<bridgeVars, stateVars, worker, kept>> /\ SameProcess
    BY <1>17 DEF vars, SameProcess
  <2>2. BridgeOK' /\ UNCHANGED requests
    BY <1>1, <2>1, BridgeStep
  <2>3. StateOK'
    BY <1>1, <2>1, StateStep
  <2>4. worker' \in WorkerState
    BY <1>1, <2>1, <2>2 DEF WorkerState
  <2>5. Guarded'
    BY <1>1, <2>1 DEF Guarded, InFlight, stateVars
  <2> QED
    BY <1>b, <2>1, <2>2, <2>3, <2>4, <2>5
<1> QED
  BY <1>2, <1>3, <1>4, <1>5, <1>6, <1>7, <1>8, <1>9, <1>10, <1>11, <1>12, <1>13, <1>14, <1>15,
     <1>16, <1>17 DEF Next, WorkerActs, Quiescent

LEMMA AlwaysTyped == Spec => []TypeInv
BY TypeInit, TypeStep, PTL DEF Spec

(* The service never leaves its types, whatever the number of its requests,  *)
(* panics and crashes: no request, answer or state appears from nowhere.     *)
THEOREM TypeCorrect == Spec => []TypeOK
<1>1. TypeInv => TypeOK
  BY DEF TypeInv
<1> QED
  BY <1>1, AlwaysTyped, PTL

-----------------------------------------------------------------------------
(* A service that gets past the wake point has a clean guard, one that has   *)
(* applied a request and not persisted it a dirty one, and a guard that is   *)
(* not dirty stands for a value that is in the store, or that an earlier     *)
(* guard has dropped unsaved.                                                *)
AtRest  == worker.at \in {"polling", "parked", "applying"} => guard = "clean"
Unsaved == kind # "memory" /\ worker.at \in {"persisting", "writing"} => guard = "dirty"
Behind  == kind # "memory" /\ guard # "dirty" => value \in {store, {}, None} \/ lapsed

ParkInv == AtRest /\ Unsaved /\ Behind

LEMMA ParkInit == Init => ParkInv
BY DEF Init, StateInit, Worker, ParkInv, AtRest, Unsaved, Behind

LEMMA ParkStep == TypeInv /\ ParkInv /\ [Next]_vars => ParkInv'
<1> SUFFICES ASSUME TypeInv, ParkInv, [Next]_vars PROVE ParkInv'
  OBVIOUS
<1>1. StateOK /\ worker \in WorkerState /\ Guarded /\ AtRest /\ Unsaved /\ Behind
  BY DEF TypeInv, TypeOK, ParkInv
<1>g. ASSUME NEW at, Goes(at) PROVE worker'.at = at
  BY <1>g DEF Goes, Worker
<1>h. ASSUME UNCHANGED stateVars PROVE UNCHANGED <<kind, value, store, guard, lapsed>> /\ Behind'
  BY <1>1, <1>h DEF stateVars, Behind
<1>2. CASE Start
  <2>1. worker'.at = "checking" /\ guard = "free" /\ guard' = "clean" /\ UNCHANGED <<kind, store, lapsed>>
    BY <1>2, <1>g DEF Start, Lock
  <2>2. value' = IF value = None THEN {} ELSE value
    BY <1>2 DEF Start, Lock
  <2>3. Behind'
    BY <1>1, <2>1, <2>2 DEF Behind
  <2> QED
    BY <2>1, <2>3 DEF ParkInv, AtRest, Unsaved
<1>3. CASE IsRunning
  <2>1. worker'.at = IF guard = "dirty" THEN "unwinding" ELSE "polling"
    BY <1>3, <1>g DEF IsRunning, DirtyAtPark
  <2>2. guard # "free" /\ guard' = guard /\ Behind'
    BY <1>1, <1>3, <1>h DEF IsRunning, Guarded
  <2>3. guard' # "dirty" => guard' = "clean"
    BY <1>1, <2>2 DEF StateOK
  <2> QED
    BY <2>1, <2>2, <2>3 DEF ParkInv, AtRest, Unsaved
<1>4. CASE Poll
  <2>1. worker'.at \in {"applying", "parked", "leaving"}
    BY <1>4, <1>g DEF Poll, Worker
  <2>2. guard = "clean" /\ guard' = guard /\ Behind'
    BY <1>1, <1>4, <1>h DEF Poll, OnlyTheBridge, AtRest
  <2> QED
    BY <2>1, <2>2 DEF ParkInv, AtRest, Unsaved
<1>5. CASE Wake
  <2>1. worker'.at = "polling"
    BY <1>5, <1>g DEF Wake
  <2>2. guard = "clean" /\ guard' = guard /\ Behind'
    BY <1>1, <1>5, <1>h DEF Wake, OnlyTheBridge, AtRest
  <2> QED
    BY <2>1, <2>2 DEF ParkInv, AtRest, Unsaved
<1>6. CASE Apply
  <2>1. worker'.at = "persisting" /\ kind' = kind /\ (kind # "memory" => guard' = "dirty")
    BY <1>6, <1>g DEF Apply, Change
  <2> QED
    BY <2>1 DEF ParkInv, AtRest, Unsaved, Behind
<1>7. CASE Forget \/ Answer \/ Panic
  <2>1. worker'.at \in {"answering", "checking", "unwinding"}
    BY <1>7, <1>g DEF Forget, Answer, Panic
  <2>2. Behind'
    BY <1>7, <1>h DEF Forget, Answer, Panic
  <2> QED
    BY <2>1, <2>2 DEF ParkInv, AtRest, Unsaved
<1>s. ASSUME Saved PROVE Behind'
  BY <1>s DEF Saved, Behind
<1>n. ASSUME NEW found, NotSaved(found), guard = "dirty" PROVE Behind' /\ guard' = "dirty"
  BY <1>n DEF NotSaved, Behind
<1>p. ASSUME Persisted PROVE worker'.at = "answering"
  BY <1>p DEF Persisted, Worker
<1>8. CASE Persist
  <2>1. CASE PersistInMemory /\ Persisted
    BY <2>1, <1>p DEF PersistInMemory, ParkInv, AtRest, Unsaved, Behind
  <2>2. CASE PersistByHook /\ Persisted
    BY <2>2, <1>p, <1>s DEF PersistByHook, ParkInv, AtRest, Unsaved
  <2>3. CASE CreateFile /\ Goes("writing")
    <3>1. guard = "dirty"
      BY <1>1, <1>8, <2>3 DEF Persist, CreateFile, Unsaved
    <3> QED
      BY <2>3, <3>1, <1>g, <1>n DEF CreateFile, ParkInv, AtRest, Unsaved
  <2>4. CASE kind # "memory" /\ NotSaved(store) /\ Fails
    <3>1. guard = "dirty"
      BY <1>1, <1>8, <2>4 DEF Persist, Unsaved
    <3>2. worker'.at \in {"checking", "unwinding"}
      BY <2>4, <1>g DEF Fails
    <3> QED
      BY <2>4, <3>1, <3>2, <1>n DEF ParkInv, AtRest, Unsaved
  <2> QED
    BY <1>8, <2>1, <2>2, <2>3, <2>4 DEF Persist
<1>9. CASE Write
  <2>1. CASE WriteFile /\ Persisted
    BY <2>1, <1>p, <1>s DEF WriteFile, ParkInv, AtRest, Unsaved
  <2>2. CASE NotSaved(Torn) /\ Fails
    <3>1. worker'.at \in {"checking", "unwinding"}
      BY <2>2, <1>g DEF Fails
    <3>2. kind' = kind /\ guard' = guard
      BY <2>2 DEF NotSaved
    <3>3. Behind'
      BY <1>1, <1>9, <3>2 DEF Write, Unsaved, Behind
    <3> QED
      BY <3>1, <3>3 DEF ParkInv, AtRest, Unsaved
  <2> QED
    BY <1>9, <2>1, <2>2 DEF Write
<1>d. ASSUME DropGuard PROVE Behind'
  BY <1>d DEF DropGuard, Behind
<1>10. CASE Unwind
  <2>1. worker'.at \in {"ended", "starting"}
    BY <1>10, <1>g DEF Unwind
  <2> QED
    BY <1>10, <2>1, <1>d DEF Unwind, ParkInv, AtRest, Unsaved
<1>11. CASE MainInspects
  <2>1. worker'.at \in {"ended", "starting"}
    BY <1>1, <1>11 DEF MainInspects, Inspect, Guarded
  <2> QED
    BY <1>11, <2>1, <1>d DEF MainInspects, Inspect, ParkInv, AtRest, Unsaved
<1>12. CASE Crash
  <2>1. worker'.at = "starting"
    BY <1>12 DEF Crash, Worker
  <2>2. Behind'
    BY <1>12 DEF Crash, Load, Behind
  <2> QED
    BY <2>1, <2>2 DEF ParkInv, AtRest, Unsaved
<1>13. CASE HostActs \/ Close \/ UNCHANGED vars
  <2>1. UNCHANGED <<stateVars, worker>>
    BY <1>13 DEF HostActs, Close, OnlyTheBridge, vars
  <2> QED
    BY <1>1, <2>1, <1>h DEF ParkInv, AtRest, Unsaved
<1> QED
  BY <1>2, <1>3, <1>4, <1>5, <1>6, <1>7, <1>8, <1>9, <1>10, <1>11, <1>12, <1>13
     DEF Next, WorkerActs, Quiescent

(* The wake point keeps a service from parking with changes it has not       *)
(* saved, for every kind of state, but for what an earlier guard dropped.    *)
THEOREM ParkedIsSaved == Spec => []ParkedIsDurable
<1>1. Spec => []ParkInv
  BY ParkInit, ParkStep, AlwaysTyped, PTL DEF Spec
<1>2. TypeInv /\ ParkInv => ParkedIsDurable
  BY DEF TypeInv, Guarded, ParkInv, AtRest, Behind, ParkedIsDurable
<1> QED
  BY <1>1, <1>2, AlwaysTyped, PTL

-----------------------------------------------------------------------------
(* What was answered after a successful persist is in the value in memory    *)
(* too, which is what the next save writes; a request that is persisted or   *)
(* answered has been applied; and one that is marked as saved is in a store  *)
(* that nothing has touched since.                                           *)
Remembered == kind # "memory" /\ ~lost /\ kept # {} => value # None /\ kept \subseteq value
InValue    == Applied => worker.request \in value
Marked     == worker.saved => worker.at = "answering" /\ (kind # "memory" => store = value)

DurableInv == AnsweredIsDurable /\ Remembered /\ InValue /\ Marked

LEMMA DurableInit == Init => DurableInv
BY DEF Init, StateInit, Worker, Applied, DurableInv, AnsweredIsDurable, Remembered, InValue, Marked

LEMMA DurableStep == TypeInv /\ DurableInv /\ [Next]_vars => DurableInv'
<1> SUFFICES ASSUME TypeInv, DurableInv, [Next]_vars PROVE DurableInv'
  OBVIOUS
<1>1. /\ worker \in WorkerState /\ Guarded
      /\ AnsweredIsDurable /\ Remembered /\ InValue /\ Marked
  BY DEF TypeInv, TypeOK, DurableInv
<1>g. ASSUME NEW at, Goes(at)
      PROVE  worker'.at = at /\ worker'.request = worker.request /\ ~worker'.saved
  BY <1>g DEF Goes, Worker
<1>h. ASSUME UNCHANGED <<stateVars, kept, lost>> PROVE (AnsweredIsDurable /\ Remembered)'
  BY <1>1, <1>h DEF stateVars, AnsweredIsDurable, Remembered
<1>o. ASSUME OnlyTheState PROVE UNCHANGED <<kept, lost>>
  BY <1>o DEF OnlyTheState, SameProcess
<1>u. ASSUME ~worker'.saved, worker'.at \notin {"persisting", "writing", "answering"}
      PROVE  (InValue /\ Marked)'
  BY <1>u DEF InValue, Applied, Marked
<1>2. CASE Start
  <2>1. (InValue /\ Marked)'
    BY <1>2, <1>g, <1>u DEF Start
  <2>2. value' = (IF value = None THEN {} ELSE value) /\ UNCHANGED <<kind, store, kept, lost>>
    BY <1>2, <1>o DEF Start, Lock
  <2>3. AnsweredIsDurable'
    BY <1>1, <2>2 DEF AnsweredIsDurable
  <2>4. Remembered'
    BY <1>1, <2>2 DEF Remembered
  <2> QED
    BY <2>1, <2>3, <2>4 DEF DurableInv
<1>3. CASE IsRunning
  <2>1. worker'.at \in {"unwinding", "polling"} /\ ~worker'.saved
    BY <1>3, <1>g DEF IsRunning
  <2> QED
    BY <1>3, <2>1, <1>h, <1>u DEF IsRunning, SameProcess, DurableInv
<1>4. CASE Poll \/ Wake
  <2>1. worker'.at \in {"applying", "parked", "leaving", "polling"} /\ ~worker'.saved
    BY <1>4, <1>g DEF Poll, Wake, Worker
  <2> QED
    BY <1>4, <2>1, <1>h, <1>u DEF Poll, Wake, OnlyTheBridge, SameProcess, DurableInv
<1>6. CASE Apply
  <2>1. value' = value \cup {worker.request} /\ UNCHANGED <<kind, store, kept, lost>>
    BY <1>6, <1>o DEF Apply, Change
  <2>2. worker'.at = "persisting" /\ worker'.request = worker.request /\ ~worker'.saved
    BY <1>6, <1>g DEF Apply
  <2>3. value' # None
    <3>1. TypeInv'
      BY TypeStep
    <3>2. guard # "free" /\ (guard' = guard \/ guard' = "dirty")
      BY <1>1, <1>6 DEF Guarded, Apply, Change
    <3> QED
      BY <3>1, <3>2 DEF TypeInv, Guarded
  <2>4. AnsweredIsDurable'
    BY <1>1, <2>1 DEF AnsweredIsDurable
  <2>5. Remembered'
    BY <1>1, <2>1, <2>3 DEF Remembered
  <2>6. (InValue /\ Marked)'
    BY <2>1, <2>2 DEF InValue, Marked
  <2> QED
    BY <2>4, <2>5, <2>6 DEF DurableInv
<1>7. CASE Forget
  <2>1. worker'.at = "answering" /\ worker'.request = worker.request /\ ~worker'.saved /\ value' = value
    BY <1>7, <1>g DEF Forget, stateVars
  <2>2. (InValue /\ Marked)'
    BY <1>1, <1>7, <2>1 DEF Forget, InValue, Applied, Marked
  <2> QED
    BY <1>7, <2>2, <1>h DEF Forget, SameProcess, DurableInv
<1>p. ASSUME Persisted, UNCHANGED value, Applied, kind' # "memory" => store' = value'
      PROVE  (InValue /\ Marked)'
  BY <1>1, <1>p DEF Persisted, Worker, InValue, Marked
<1>s. ASSUME Saved, OnlyTheState PROVE (AnsweredIsDurable /\ Remembered)'
  BY <1>1, <1>o, <1>s DEF Saved, AnsweredIsDurable, Remembered
<1>n. ASSUME NotSaved(Torn) \/ NotSaved(store), OnlyTheState
      PROVE  (AnsweredIsDurable /\ Remembered)'
  BY <1>1, <1>o, <1>n DEF NotSaved, AnsweredIsDurable, Remembered
<1>f. ASSUME Fails PROVE (InValue /\ Marked)'
  <2>1. worker'.at \in {"checking", "unwinding"} /\ ~worker'.saved
    BY <1>f, <1>g DEF Fails
  <2> QED
    BY <2>1, <1>u
<1>8. CASE Persist
  <2>0. OnlyTheState /\ Applied
    BY <1>8 DEF Persist, Applied
  <2>1. CASE PersistInMemory /\ Persisted
    <3>1. UNCHANGED <<kind, value, store>> /\ kind = "memory"
      BY <2>1 DEF PersistInMemory
    <3>2. (AnsweredIsDurable /\ Remembered)'
      BY <3>1 DEF AnsweredIsDurable, Remembered
    <3> QED
      BY <2>0, <2>1, <3>1, <3>2, <1>p DEF DurableInv
  <2>2. CASE PersistByHook /\ Persisted
    BY <2>0, <2>2, <1>p, <1>s DEF PersistByHook, Saved, DurableInv
  <2>3. CASE CreateFile /\ Goes("writing")
    <3>1. (InValue /\ Marked)'
      BY <1>1, <2>0, <2>3, <1>g DEF CreateFile, NotSaved, InValue, Marked
    <3> QED
      BY <2>0, <2>3, <3>1, <1>n DEF CreateFile, DurableInv
  <2>4. CASE NotSaved(store) /\ Fails
    BY <2>0, <2>4, <1>n, <1>f DEF DurableInv
  <2> QED
    BY <1>8, <2>1, <2>2, <2>3, <2>4 DEF Persist
<1>9. CASE Write
  <2>0. OnlyTheState /\ Applied
    BY <1>9 DEF Write, Applied
  <2>1. CASE WriteFile /\ Persisted
    BY <2>0, <2>1, <1>p, <1>s DEF WriteFile, Saved, DurableInv
  <2>2. CASE NotSaved(Torn) /\ Fails
    BY <2>0, <2>2, <1>n, <1>f DEF DurableInv
  <2> QED
    BY <1>9, <2>1, <2>2 DEF Write
<1>10. CASE Answer
  <2>1. /\ UNCHANGED <<kind, value, store, lost>> /\ worker.at = "answering"
        /\ kept' = IF worker.saved THEN kept \cup {worker.request} ELSE kept
    BY <1>10 DEF Answer, stateVars, SameProcess
  <2>2. (InValue /\ Marked)'
    BY <1>10, <1>g, <1>u DEF Answer
  <2>3. value # None /\ worker.request \in value
    BY <1>1, <2>1 DEF Guarded, InValue, Applied
  <2>4. Remembered'
    BY <1>1, <2>1, <2>3 DEF Remembered
  <2>5. AnsweredIsDurable'
    BY <1>1, <2>1, <2>3, <2>4 DEF AnsweredIsDurable, Marked, Remembered
  <2> QED
    BY <2>2, <2>4, <2>5 DEF DurableInv
<1>11. CASE Panic
  <2>1. (InValue /\ Marked)'
    BY <1>11, <1>g, <1>u DEF Panic
  <2> QED
    BY <1>11, <2>1, <1>h DEF Panic, DurableInv
<1>d. ASSUME DropGuard, OnlyTheState PROVE (AnsweredIsDurable /\ Remembered)'
  <2>1. store' \in {value, Torn, store} /\ UNCHANGED <<kind, value, kept, lost>>
    BY <1>d, <1>o DEF DropGuard
  <2> QED
    BY <1>1, <2>1 DEF AnsweredIsDurable, Remembered
<1>12. CASE Unwind
  <2>1. worker'.at \in {"ended", "starting"} /\ ~worker'.saved
    BY <1>12, <1>g DEF Unwind
  <2> QED
    BY <1>12, <2>1, <1>d, <1>u DEF Unwind, DurableInv
<1>13. CASE MainInspects
  <2>1. worker.at \in {"ended", "starting"} /\ UNCHANGED worker
    BY <1>1, <1>13 DEF MainInspects, Inspect, Guarded
  <2>2. (InValue /\ Marked)'
    BY <1>1, <2>1 DEF InValue, Applied, Marked
  <2> QED
    BY <1>13, <2>2, <1>d DEF MainInspects, Inspect, DurableInv
<1>14. CASE Crash
  <2>1. worker'.at = "starting" /\ ~worker'.saved
    BY <1>14 DEF Crash, Worker
  <2>2. /\ value' = (IF kind = "memory" \/ store = Torn THEN None ELSE store)
        /\ lost' = (lost \/ store = Torn) /\ UNCHANGED <<kind, store, kept>>
    BY <1>14 DEF Crash, Load
  <2>3. AnsweredIsDurable' /\ Remembered'
    BY <1>1, <2>2 DEF AnsweredIsDurable, Remembered
  <2> QED
    BY <2>1, <2>3, <1>u DEF DurableInv
<1>15. CASE HostActs \/ Close \/ UNCHANGED vars
  <2>1. UNCHANGED <<stateVars, worker, kept, lost>>
    BY <1>15 DEF HostActs, Close, OnlyTheBridge, SameProcess, vars
  <2>2. UNCHANGED <<kind, value, store, worker>>
    BY <2>1 DEF stateVars
  <2>3. (InValue /\ Marked)'
    BY <1>1, <2>2 DEF InValue, Applied, Marked
  <2> QED
    BY <2>1, <2>3, <1>h DEF DurableInv
<1> QED
  BY <1>2, <1>3, <1>4, <1>6, <1>7, <1>8, <1>9, <1>10, <1>11, <1>12, <1>13, <1>14, <1>15
     DEF Next, WorkerActs, Quiescent

(* A request that was answered after a successful persist is in the store    *)
(* after any number of panics, restarts, failing saves and crashes, until a  *)
(* process dies between truncating the file and writing it.                  *)
THEOREM AnsweredSurvives == Spec => []AnsweredIsDurable
<1>1. Spec => []DurableInv
  BY DurableInit, DurableStep, AlwaysTyped, PTL DEF Spec
<1>2. DurableInv => AnsweredIsDurable
  BY DEF DurableInv
<1> QED
  BY <1>1, <1>2, PTL

-----------------------------------------------------------------------------
(* The requests on their way through the bridge are in order: those whose    *)
(* answers the host has, the one whose answer is in the egress slot, the one *)
(* the actor is at, and the one in the ingress slot.                         *)
Fetched ==
  \A i \in DOMAIN received :
    /\ egress # 0 => received[i] < egress
    /\ InFlight => received[i] < worker.request
    /\ ingress.msg # 0 => received[i] < ingress.msg

Pending ==
  /\ egress # 0 /\ InFlight => egress < worker.request
  /\ egress # 0 /\ ingress.msg # 0 => egress < ingress.msg
  /\ InFlight /\ ingress.msg # 0 => worker.request < ingress.msg

OrderInv == AnswersInOrder /\ Fetched /\ Pending

LEMMA OrderInit == Init => OrderInv
BY DEF Init, BridgeInit, Slot, Worker, InFlight, OrderInv, AnswersInOrder, Fetched, Pending

LEMMA OrderStep == TypeInv /\ OrderInv /\ [Next]_vars => OrderInv'
<1> SUFFICES ASSUME TypeInv, OrderInv, [Next]_vars PROVE OrderInv'
  OBVIOUS
<1>1. /\ ingress.msg \in 0..requests /\ egress \in 0..requests /\ worker.request \in 0..requests
      /\ requests \in Nat /\ received \in Seq(1..requests)
      /\ AnswersInOrder /\ Fetched /\ Pending
  BY ServiceAssumption
     DEF TypeInv, TypeOK, BridgeOK, SlotsOK, CountOK, WorkerState, OrderInv
<1>o. ASSUME UNCHANGED received PROVE AnswersInOrder'
  BY <1>1, <1>o DEF AnswersInOrder
<1>f. ASSUME UNCHANGED <<egress, received>>, ingress'.msg \in {0, ingress.msg},
             InFlight' => InFlight /\ worker'.request = worker.request
      PROVE  OrderInv'
  <2>1. Fetched'
    BY <1>1, <1>f DEF Fetched
  <2>2. Pending'
    BY <1>1, <1>f DEF Pending
  <2> QED
    BY <1>f, <1>o, <2>1, <2>2 DEF OrderInv
<1>g. ASSUME NEW at, Goes(at) PROVE worker'.at = at /\ worker'.request = worker.request
  BY <1>g DEF Goes, Worker
<1>2. CASE Poll /\ PollTakes /\ worker' = Worker("applying", ingress.msg, FALSE)
  <2>1. /\ ingress.msg # 0 /\ ingress'.msg = 0 /\ UNCHANGED <<egress, received>>
        /\ worker'.request = ingress.msg
    BY <1>2 DEF PollTakes, Slot, Worker
  <2>2. Fetched'
    BY <1>1, <2>1 DEF Fetched
  <2>3. Pending'
    BY <1>1, <2>1 DEF Pending
  <2> QED
    BY <1>o, <2>1, <2>2, <2>3 DEF OrderInv
<1>3. CASE Poll /\ (PollParks \/ PollEnds) /\ (Goes("parked") \/ Goes("leaving"))
  <2>1. ingress'.msg \in {0, ingress.msg} /\ UNCHANGED <<egress, received>>
    BY <1>3 DEF PollParks, PollEnds, Slot
  <2>2. ~InFlight'
    BY <1>3, <1>g DEF InFlight
  <2> QED
    BY <1>f, <2>1, <2>2
<1>4. CASE Start \/ IsRunning \/ Wake \/ Unwind \/ Panic
  <2>1. UNCHANGED <<ingress, egress, received>>
    BY <1>4 DEF Start, IsRunning, Wake, Woken, Unwind, Panic, OnlyTheState, bridgeVars
  <2>2. worker'.at \in {"checking", "polling", "unwinding", "starting", "ended"}
    BY <1>4, <1>g DEF Start, IsRunning, Wake, Unwind, Panic
  <2> QED
    BY <1>f, <2>1, <2>2 DEF InFlight
<1>5. CASE Apply \/ Forget \/ Persist \/ Write
  <2>1. UNCHANGED <<ingress, egress, received>> /\ InFlight
    BY <1>5 DEF Apply, Forget, Persist, Write, OnlyTheState, bridgeVars, InFlight
  <2>2. worker'.request = worker.request
    BY <1>5, <1>g DEF Apply, Forget, Persist, Write, Persisted, Fails, Worker
  <2> QED
    BY <1>f, <2>1, <2>2
<1>6. CASE Answer
  <2>1. egress' = worker.request /\ UNCHANGED <<ingress, received>> /\ InFlight
    BY <1>6 DEF Answer, Send, InFlight
  <2>2. ~InFlight'
    BY <1>6, <1>g DEF Answer, InFlight
  <2>3. Fetched'
    BY <1>1, <2>1, <2>2 DEF Fetched
  <2>4. Pending'
    BY <1>1, <2>1, <2>2 DEF Pending
  <2> QED
    BY <1>o, <2>1, <2>3, <2>4 DEF OrderInv
<1>7. CASE MainInspects
  BY <1>7, <1>f DEF MainInspects, OnlyTheState, bridgeVars, InFlight
<1>8. CASE Crash
  <2>1. ingress'.msg = 0 /\ egress' = 0 /\ UNCHANGED received
    BY <1>8 DEF Crash, BridgeRestarts, Slot
  <2>2. ~InFlight'
    BY <1>8 DEF Crash, Worker, InFlight
  <2>3. Fetched' /\ Pending'
    BY <1>1, <2>1, <2>2 DEF Fetched, Pending
  <2> QED
    BY <1>o, <2>1, <2>3 DEF OrderInv
<1>9. CASE Inject /\ UNCHANGED worker
  <2>1. ingress'.msg = requests + 1 /\ UNCHANGED <<egress, received>> /\ InFlight' = InFlight
    BY <1>9 DEF Inject, Slot, InFlight
  <2>2. \A i \in DOMAIN received : received[i] \in 1..requests
    BY <1>1
  <2>3. Fetched'
    BY <1>1, <1>9, <2>1, <2>2 DEF Fetched
  <2>4. Pending'
    BY <1>1, <1>9, <2>1 DEF Pending
  <2> QED
    BY <1>o, <2>1, <2>3, <2>4 DEF OrderInv
<1>10. CASE HostTakes /\ UNCHANGED worker
  <2>1. /\ egress # 0 /\ egress' = 0 /\ received' = Append(received, egress)
        /\ UNCHANGED ingress /\ InFlight' = InFlight
    BY <1>10 DEF HostTakes, InFlight
  <2>2. /\ DOMAIN received' = 1 .. Len(received) + 1
        /\ \A i \in DOMAIN received : received'[i] = received[i]
        /\ received'[Len(received) + 1] = egress
    BY <1>1, <2>1
  <2>3. AnswersInOrder'
    BY <1>1, <2>1, <2>2 DEF AnswersInOrder, Fetched
  <2>4. Fetched'
    BY <1>1, <1>10, <2>1, <2>2 DEF Fetched, Pending
  <2>5. Pending'
    BY <1>1, <1>10, <2>1 DEF Pending
  <2> QED
    BY <2>3, <2>4, <2>5 DEF OrderInv
<1>11. ASSUME NEW at, HostGoes(at), UNCHANGED worker PROVE OrderInv'
  BY <1>11, <1>f DEF HostGoes, InFlight
<1>12. CASE HostActs
  BY <1>9, <1>10, <1>11, <1>12
     DEF HostActs, HostFinds, HostSeesClosed, HostLooks, HostIsLate, HostSleeps, HostWakes, HostTimesOut
<1>13. CASE Close
  <2>1. ingress'.msg = ingress.msg /\ UNCHANGED <<egress, received, worker>>
    BY <1>13 DEF Close, CloseFlags, CloseWakesActor, CloseWakesHost, Slot
  <2> QED
    BY <2>1, <1>f DEF InFlight
<1>14. CASE UNCHANGED vars
  BY <1>14, <1>f DEF vars, bridgeVars, InFlight
<1> QED
  BY <1>2, <1>3, <1>4, <1>5, <1>6, <1>7, <1>8, <1>12, <1>13, <1>14
     DEF Next, WorkerActs, Poll, Quiescent

(* The host gets the answers in the order of its requests and none twice,    *)
(* whatever times out, crashes or is replaced in a slot on the way.          *)
THEOREM AnswersComeInOrder == Spec => []AnswersInOrder
<1>1. Spec => []OrderInv
  BY OrderInit, OrderStep, AlwaysTyped, PTL DEF Spec
<1>2. OrderInv => AnswersInOrder
  BY DEF OrderInv
<1> QED
  BY <1>1, <1>2, PTL
=============================================================================
