----------------------- MODULE GraphLiveliness_proofs -----------------------
(***************************************************************************)
(* Theorems about GraphLiveliness, for every set of actors, requesters and *)
(* watchers, every barrier and every timing.  Three of them hold of every  *)
(* program; NoticesArrive and WatchersAlwaysSurvive need one that builds   *)
(* its actors before it starts and gets no signal before that, and         *)
(* CleanStopIsUnanimous, OwnerImplementsContract and                       *)
(* CollectorStaysToTheEnd one in which the owner alone requests the stop.  *)
(***************************************************************************)
EXTENDS GraphLiveliness, FiniteSetTheorems, TLAPS

(* A set of actors is finite, so that its size is a number. *)
LEMMA FiniteActors ==
  ASSUME NEW S \in SUBSET Actor
  PROVE  IsFiniteSet(S) /\ Cardinality(S) \in Nat
BY ConstantsAssumption, FS_Subset, FS_CardinalityType

-----------------------------------------------------------------------------
(* Type correctness: in particular the ballots in favour are ballots, and    *)
(* each thread is at a place of its own kind.                                *)
LEMMA TypeInit == Init => TypeOK
BY ConstantsAssumption DEF Init, TypeOK, GState, VoterStatus, Thread, Watcher, ActorPc, MainPc,
     CtrlCPc, RequestPc, WatchPc

LEMMA TypeStep == TypeOK /\ [Next]_vars => TypeOK'
<1> SUFFICES ASSUME TypeOK, [Next]_vars PROVE TypeOK'
  OBVIOUS
<1> USE ConstantsAssumption
<1> USE DEF TypeOK, GState, VoterStatus, Thread, Watcher, ActorPc, MainPc, CtrlCPc, RequestPc,
            WatchPc, Goto, election, notices
<1>1. ASSUME NEW a \in Actor, ActorStep(a) PROVE TypeOK'
  <2>1. CASE BuildActor(a)         BY <2>1 DEF BuildActor
  <2>2. CASE RegisterActor(a)      BY <2>2 DEF RegisterActor
  <2>3. CASE Poll(a)               BY <2>3 DEF Poll
  <2>4. CASE AcceptFn(a)           BY <2>4 DEF AcceptFn
  <2>5. CASE ApplyShutdownVote(a)  BY <2>5 DEF ApplyShutdownVote
  <2>6. CASE Finish(a)             BY <2>6 DEF Finish
  <2>7. CASE Panic(a)              BY <2>7 DEF Panic
  <2>8. CASE Unwind(a)             BY <2>8 DEF Unwind
  <2>9. CASE EnterBarrier(a)       BY <2>9 DEF EnterBarrier
  <2> QED
    BY <1>1, <2>1, <2>2, <2>3, <2>4, <2>5, <2>6, <2>7, <2>8, <2>9 DEF ActorStep
<1>2. CASE LeaveBarrier
  BY <1>2 DEF LeaveBarrier
<1>3. ASSUME NEW t \in Thread, RequestStep(t) PROVE TypeOK'
  <2>1. CASE RequestShutdown(t)    BY <2>1 DEF RequestShutdown, Resume
  <2>2. CASE Snapshot(t)           BY <2>2 DEF Snapshot
  <2>3. CASE Install(t)            BY <2>3 DEF Install
  <2>4. CASE CollectTheDead(t)     BY <2>4 DEF CollectTheDead, Dead
  <2>5. CASE CountTheDead(t)
    <3>1. Cardinality(copy[t] \cap ballots) \in Nat
      BY FiniteActors
    <3> QED
      BY <2>5, <3>1 DEF CountTheDead
  <2>6. CASE FireOneshots(t)       BY <2>6 DEF FireOneshots, Resume
  <2> QED
    BY <1>3, <2>1, <2>2, <2>3, <2>4, <2>5, <2>6 DEF RequestStep
<1>4. CASE MainStep
  BY <1>4 DEF MainStep, Start, BlockUntilStopped, PushOneshot, Recheck, Await
<1>5. ASSUME NEW w \in Watcher, WatchStep(w) PROVE TypeOK'
  BY <1>5 DEF WatchStep, Check, Verdict, Expire
<1>6. CASE UNCHANGED vars
  BY <1>6 DEF vars
<1> QED
  BY <1>1, <1>2, <1>3, <1>4, <1>5, <1>6 DEF Next, Quiescent

THEOREM TypeCorrect == Spec => []TypeOK
BY TypeInit, TypeStep, PTL DEF Spec

-----------------------------------------------------------------------------
(* The total never falls behind the ballots in favour, in any program: a     *)
(* step that marks ballots adds at least as many to the total as it marks,   *)
(* and a second request that replaces the ballots sets both back.  (It may   *)
(* run ahead of them: two sweeps may count one dead actor.)                  *)
NeverUndercounted == Cardinality(inFavor) <= total

LEMMA CountInit == Init => NeverUndercounted
BY FS_EmptySet DEF Init, NeverUndercounted

LEMMA CountStep == TypeOK /\ NeverUndercounted /\ [Next]_vars => NeverUndercounted'
<1> SUFFICES ASSUME TypeOK, NeverUndercounted, [Next]_vars PROVE NeverUndercounted'
  OBVIOUS
<1> USE DEF election
<1>0. /\ inFavor \in SUBSET Actor /\ total \in Nat
      /\ IsFiniteSet(inFavor) /\ Cardinality(inFavor) \in Nat
  BY FiniteActors DEF TypeOK
<1>1. ASSUME NEW a \in Actor, ApplyShutdownVote(a) PROVE NeverUndercounted'
  <2>1. CASE inFavor' = inFavor \cup {a} /\ total' = total + 1 /\ a \notin inFavor
    BY <1>0, <2>1, FS_AddElement DEF NeverUndercounted
  <2>2. CASE UNCHANGED <<inFavor, total>>
    BY <2>2 DEF NeverUndercounted
  <2> QED
    BY <1>1, <2>1, <2>2 DEF ApplyShutdownVote
<1>2. ASSUME NEW t \in Thread, CountTheDead(t) PROVE NeverUndercounted'
  <2> DEFINE found == copy[t] \cap ballots
  <2>1. found \in SUBSET Actor
    BY DEF TypeOK
  <2>2. IsFiniteSet(found) /\ Cardinality(found) \in Nat
    BY <2>1, FiniteActors
  <2>3. Cardinality(inFavor \cap found) \in Nat
    BY <2>1, FiniteActors
  <2>4. Cardinality(inFavor \cup found)
          = Cardinality(inFavor) + Cardinality(found) - Cardinality(inFavor \cap found)
    BY <1>0, <2>2, FS_Union
  <2>5. inFavor' = inFavor \cup found /\ total' = total + Cardinality(found)
    BY <1>2 DEF CountTheDead
  <2> HIDE DEF found
  <2> QED
    BY <1>0, <2>2, <2>3, <2>4, <2>5 DEF NeverUndercounted
<1>3. ASSUME NEW t \in Thread, Install(t) PROVE NeverUndercounted'
  BY <1>3, FS_EmptySet DEF Install, NeverUndercounted
<1>4. CASE UNCHANGED <<inFavor, total>>
  BY <1>4 DEF NeverUndercounted
<1> QED
  BY <1>1, <1>2, <1>3, <1>4
     DEF Next, ActorStep, BuildActor, RegisterActor, Poll, AcceptFn, Finish, Panic, Unwind,
         EnterBarrier, LeaveBarrier, RequestStep, RequestShutdown, Snapshot, CollectTheDead,
         FireOneshots, MainStep, Start, BlockUntilStopped, PushOneshot, Recheck, Await,
         WatchStep, Check, Verdict, Expire, Quiescent, vars

(* A unanimous vote is never mistaken for one that lacks a voter.            *)
THEOREM TotalCoversBallots == Spec => []NeverUndercounted
BY TypeCorrect, CountInit, CountStep, PTL DEF Spec

-----------------------------------------------------------------------------
(* Nobody is counted without having agreed or died.  A vote alone does not   *)
(* carry this through: an actor that agreed may panic, and is restarted when *)
(* the graph is up, so there must be no ballots then; and those a sweep      *)
(* found dead must still be dead when it counts them.                        *)
NoBallotsWhileUp == gstate \in Starting => ballots = {}
DeadAreGone      == \A a \in Dead : pc[a] = "gone"
FoundAreGone     == \A t \in Thread : pc[t] \in {"count", "tally"} =>
                      \A a \in copy[t] : voter[a] = "Dead"

ConsentInv == /\ TypeOK
              /\ NoBallotsWhileUp
              /\ DeadAreGone
              /\ FoundAreGone
              /\ VotesAreConsented

LEMMA ConsentInit == Init => ConsentInv
BY TypeInit, ConstantsAssumption
   DEF Init, ConsentInv, NoBallotsWhileUp, DeadAreGone, FoundAreGone, VotesAreConsented, Dead,
       Thread, Watcher

LEMMA ConsentStep == ConsentInv /\ [Next]_vars => ConsentInv'
<1> SUFFICES ASSUME ConsentInv, [Next]_vars PROVE ConsentInv'
  OBVIOUS
<1>0. TypeOK'
  BY TypeStep DEF ConsentInv
<1> USE <1>0, ConstantsAssumption
<1> USE DEF ConsentInv, NoBallotsWhileUp, DeadAreGone, FoundAreGone, VotesAreConsented, TypeOK,
            Dead, Thread, Watcher, Starting, Stopping, GState, Goto, election, notices
<1>1. ASSUME NEW a \in Actor, ActorStep(a) PROVE ConsentInv'
  <2>1. CASE BuildActor(a)         BY <2>1 DEF BuildActor
  <2>2. CASE RegisterActor(a)      BY <2>2 DEF RegisterActor
  <2>3. CASE Poll(a)               BY <2>3 DEF Poll
  <2>4. CASE AcceptFn(a)           BY <2>4 DEF AcceptFn
  <2>5. CASE ApplyShutdownVote(a)  BY <2>5 DEF ApplyShutdownVote
  <2>6. CASE Finish(a)             BY <2>6 DEF Finish
  <2>7. CASE Panic(a)              BY <2>7 DEF Panic
  <2>8. CASE Unwind(a)             BY <2>8 DEF Unwind
  <2>9. CASE EnterBarrier(a)       BY <2>9 DEF EnterBarrier
  <2> QED
    BY <1>1, <2>1, <2>2, <2>3, <2>4, <2>5, <2>6, <2>7, <2>8, <2>9 DEF ActorStep
<1>2. CASE LeaveBarrier
  BY <1>2 DEF LeaveBarrier
<1>3. ASSUME NEW t \in Thread, RequestStep(t) PROVE ConsentInv'
  <2>1. CASE RequestShutdown(t)    BY <2>1 DEF RequestShutdown, MayRequest, Resume
  <2>2. CASE Snapshot(t)           BY <2>2 DEF Snapshot
  <2>3. CASE Install(t)            BY <2>3 DEF Install
  <2>4. CASE CollectTheDead(t)     BY <2>4 DEF CollectTheDead
  <2>5. CASE CountTheDead(t)       BY <2>5 DEF CountTheDead
  <2>6. CASE FireOneshots(t)       BY <2>6 DEF FireOneshots, Resume
  <2> QED
    BY <1>3, <2>1, <2>2, <2>3, <2>4, <2>5, <2>6 DEF RequestStep
<1>4. CASE MainStep
  BY <1>4 DEF MainStep, Start, BlockUntilStopped, PushOneshot, Recheck, Await
<1>5. ASSUME NEW w \in Watcher, WatchStep(w) PROVE ConsentInv'
  BY <1>5 DEF WatchStep, Check, Verdict, Expire
<1>6. CASE UNCHANGED vars
  BY <1>6 DEF vars
<1> QED
  BY <1>1, <1>2, <1>3, <1>4, <1>5, <1>6 DEF Next, Quiescent

THEOREM OnlyConsentIsCounted == Spec => []VotesAreConsented
<1>1. ConsentInv => VotesAreConsented
  BY DEF ConsentInv
<1> QED
  BY <1>1, ConsentInit, ConsentStep, PTL DEF Spec

-----------------------------------------------------------------------------
(* With the owner alone requesting and watching, the total is exactly the    *)
(* number of ballots in favour: no sweep runs beside another, so those found *)
(* dead are still uncounted when they are counted.  That is what makes       *)
(* check_is_stopped's comparison of two numbers mean a unanimous vote.       *)
OwnerAlone == Requester \subseteq {Main}

SoleRequester == /\ pc[CtrlC] = "idle"
                 /\ \A a \in Actor : pc[a] \notin RequestPc \cup {"barrier", "request"}
ExactTotal    == total = Cardinality(inFavor)
FreshFinds    == pc[Main] \in {"count", "tally"} => copy[Main] \cap inFavor = {}
SoundVerdict  == pc[Main] = "writeClean" => inFavor = ballots
OwnerPlace    == /\ pc[Main] = "build" => gstate = "Building"
                 /\ pc[Main] \in {"snapshot", "install"} => gstate = "Running"
                 /\ pc[Main] \in WatchPc \cup {"collect", "count", "fire"}
                      => gstate = "StopRequested"
                 /\ gstate \in {"Stopped", "StoppedUncleanly"}
                      => pc[Main] \in {"returnedOk", "returnedErr"}
                 /\ gstate \in Starting => fired = {}

OwnerInv == /\ ConsentInv
            /\ SoleRequester
            /\ ExactTotal
            /\ FreshFinds
            /\ SoundVerdict
            /\ OwnerPlace
            /\ CleanStopNeedsAllVotes

LEMMA OwnerInit == Init => OwnerInv
<1> SUFFICES ASSUME Init PROVE OwnerInv
  OBVIOUS
<1>1. ConsentInv
  BY ConsentInit
<1>2. ExactTotal
  BY FS_EmptySet DEF Init, ExactTotal
<1> QED
  BY <1>1, <1>2, ConstantsAssumption
     DEF Init, OwnerInv, SoleRequester, FreshFinds, SoundVerdict, OwnerPlace, WatchPc, RequestPc,
         CleanStopNeedsAllVotes, Thread, Watcher, Starting

LEMMA OwnerTotal ==
  ASSUME OwnerInv, [Next]_vars
  PROVE  ExactTotal'
<1> USE DEF election
<1>0. /\ inFavor \in SUBSET Actor /\ total = Cardinality(inFavor)
      /\ IsFiniteSet(inFavor) /\ Cardinality(inFavor) \in Nat
  BY FiniteActors DEF OwnerInv, ExactTotal, ConsentInv, TypeOK
<1>1. ASSUME NEW a \in Actor, ApplyShutdownVote(a) PROVE ExactTotal'
  <2>1. CASE inFavor' = inFavor \cup {a} /\ total' = total + 1 /\ a \notin inFavor
    BY <1>0, <2>1, FS_AddElement DEF ExactTotal
  <2>2. CASE UNCHANGED <<inFavor, total>>
    BY <1>0, <2>2 DEF ExactTotal
  <2> QED
    BY <1>1, <2>1, <2>2 DEF ApplyShutdownVote
<1>2. ASSUME NEW t \in Thread, CountTheDead(t) PROVE ExactTotal'
  <2> DEFINE found == copy[t] \cap ballots
  <2>1. t = Main
    BY <1>2 DEF OwnerInv, SoleRequester, CountTheDead, ConsentInv, TypeOK, ActorPc, Thread,
                Watcher, RequestPc
  <2>2. found \in SUBSET Actor /\ inFavor \cap found = {}
    BY <1>2, <2>1 DEF OwnerInv, FreshFinds, CountTheDead, ConsentInv, TypeOK
  <2>3. IsFiniteSet(found) /\ Cardinality(found) \in Nat
    BY <2>2, FiniteActors
  <2>4. inFavor' = inFavor \cup found /\ total' = total + Cardinality(found)
    BY <1>2 DEF CountTheDead
  <2> HIDE DEF found
  <2>5. Cardinality(inFavor \cup found) = Cardinality(inFavor) + Cardinality(found)
    <3>1. Cardinality(inFavor \cap found) = 0
      BY <2>2, FS_EmptySet
    <3>2. Cardinality(inFavor \cup found)
            = Cardinality(inFavor) + Cardinality(found) - Cardinality(inFavor \cap found)
      BY <1>0, <2>3, FS_Union
    <3> QED
      BY <1>0, <2>3, <3>1, <3>2
  <2> QED
    BY <1>0, <2>4, <2>5 DEF ExactTotal
<1>3. ASSUME NEW t \in Thread, Install(t) PROVE ExactTotal'
  BY <1>3, FS_EmptySet DEF Install, ExactTotal
<1>4. CASE UNCHANGED <<inFavor, total>>
  BY <1>0, <1>4 DEF ExactTotal
<1> QED
  BY <1>1, <1>2, <1>3, <1>4
     DEF Next, ActorStep, BuildActor, RegisterActor, Poll, AcceptFn, Finish, Panic, Unwind,
         EnterBarrier, LeaveBarrier, RequestStep, RequestShutdown, Snapshot, CollectTheDead,
         FireOneshots, MainStep, Start, BlockUntilStopped, PushOneshot, Recheck, Await,
         WatchStep, Check, Verdict, Expire, Quiescent, vars

LEMMA OwnerStep ==
  ASSUME OwnerAlone
  PROVE  OwnerInv /\ [Next]_vars => OwnerInv'
<1> SUFFICES ASSUME OwnerInv, [Next]_vars PROVE OwnerInv'
  OBVIOUS
<1>0. ConsentInv' /\ TypeOK' /\ ExactTotal'
  BY ConsentStep, OwnerTotal DEF OwnerInv, ConsentInv
<1> USE <1>0, ConstantsAssumption
<1> USE DEF OwnerAlone, OwnerInv, SoleRequester, FreshFinds, SoundVerdict, OwnerPlace,
            CleanStopNeedsAllVotes, ConsentInv, DeadAreGone, FoundAreGone, NoBallotsWhileUp,
            VotesAreConsented, TypeOK, Dead, RequestPc, WatchPc, Thread, Watcher, Starting,
            Stopping, GState, Goto, election, notices
<1>1. ASSUME NEW a \in Actor, ActorStep(a) PROVE OwnerInv'
  <2>1. CASE BuildActor(a)         BY <2>1 DEF BuildActor
  <2>2. CASE RegisterActor(a)      BY <2>2 DEF RegisterActor
  <2>3. CASE Poll(a)               BY <2>3 DEF Poll
  <2>4. CASE AcceptFn(a)           BY <2>4 DEF AcceptFn
  <2>5. CASE ApplyShutdownVote(a)  BY <2>5 DEF ApplyShutdownVote
  <2>6. CASE Finish(a)             BY <2>6 DEF Finish
  <2>7. CASE Panic(a)              BY <2>7 DEF Panic
  <2>8. CASE Unwind(a)             BY <2>8 DEF Unwind
  <2>9. CASE EnterBarrier(a)       BY <2>9 DEF EnterBarrier
  <2> QED
    BY <1>1, <2>1, <2>2, <2>3, <2>4, <2>5, <2>6, <2>7, <2>8, <2>9 DEF ActorStep
<1>2. CASE LeaveBarrier
  <2>1. {a \in Actor : pc[a] = "barrier"} = {}
    OBVIOUS
  <2>2. PICK party \in SUBSET {} : BarrierSize > 0 /\ Cardinality(party) = BarrierSize
    BY <1>2, <2>1 DEF LeaveBarrier
  <2>3. party = {} /\ Cardinality({}) = 0
    BY FS_EmptySet
  <2> QED
    BY <2>2, <2>3
<1>3. ASSUME NEW t \in Thread, RequestStep(t) PROVE OwnerInv'
  <2>0. t = Main
    BY <1>3 DEF RequestStep, RequestShutdown, MayRequest, Snapshot, Install, CollectTheDead,
                CountTheDead, FireOneshots, ActorPc
  <2>1. CASE RequestShutdown(t)    BY <2>0, <2>1 DEF RequestShutdown, MayRequest, Resume
  <2>2. CASE Snapshot(t)           BY <2>0, <2>2 DEF Snapshot
  <2>3. CASE Install(t)            BY <2>0, <2>3 DEF Install
  <2>4. CASE CollectTheDead(t)     BY <2>0, <2>4 DEF CollectTheDead
  <2>5. CASE CountTheDead(t)       BY <2>0, <2>5 DEF CountTheDead
  <2>6. CASE FireOneshots(t)       BY <2>0, <2>6 DEF FireOneshots, Resume
  <2> QED
    BY <1>3, <2>1, <2>2, <2>3, <2>4, <2>5, <2>6 DEF RequestStep
<1>4. CASE MainStep
  BY <1>4 DEF MainStep, Start, BlockUntilStopped, PushOneshot, Recheck, Await
<1>5. ASSUME NEW w \in Watcher, WatchStep(w) PROVE OwnerInv'
  <2>1. CASE Check(w)
    <3>1. w = Main
      BY <2>1 DEF Check
    <3>2. total = Cardinality(ballots) => inFavor = ballots
      BY FiniteActors, FS_Subset DEF ExactTotal
    <3> QED
      BY <2>1, <3>1, <3>2 DEF Check
  <2>2. CASE Verdict(w)            BY <2>2 DEF Verdict
  <2>3. CASE Expire(w)             BY <2>3 DEF Expire
  <2> QED
    BY <1>5, <2>1, <2>2, <2>3 DEF WatchStep
<1>6. CASE UNCHANGED vars
  BY <1>6 DEF vars
<1> QED
  BY <1>1, <1>2, <1>3, <1>4, <1>5, <1>6 DEF Next, Quiescent

(* A graph stopped cleanly has every ballot in favour, if the owner alone    *)
(* requests the stop.                                                        *)
THEOREM CleanStopIsUnanimous ==
  ASSUME OwnerAlone
  PROVE  Spec => []CleanStopNeedsAllVotes
<1>1. OwnerInv => CleanStopNeedsAllVotes
  BY DEF OwnerInv
<1> QED
  BY <1>1, OwnerInit, OwnerStep, PTL DEF Spec

-----------------------------------------------------------------------------
(* The owner alone implements the contract: the initial state maps to an     *)
(* initial state and every step to a step of the contract or a stutter.      *)
LEMMA ContractInit == Init => Contract!Init
BY DEF Init, Contract!Init, Starting, Dead

LEMMA ContractStep ==
  ASSUME OwnerAlone
  PROVE  OwnerInv /\ OwnerInv' /\ [Next]_vars => [Contract!Next]_(Contract!vars)
<1> SUFFICES ASSUME OwnerInv, OwnerInv', [Next]_vars
             PROVE  [Contract!Next]_(Contract!vars)
  OBVIOUS
<1> USE ConstantsAssumption
<1> USE DEF OwnerInv, ConsentInv, TypeOK, Dead, Starting, Stopping, GState, election, notices
<1>1. ASSUME NEW a \in Actor, ActorStep(a) PROVE [Contract!Next]_(Contract!vars)
  <2>1. CASE ApplyShutdownVote(a)
    <3>1. CASE UNCHANGED inFavor
      BY <2>1, <3>1 DEF ApplyShutdownVote, Contract!vars
    <3>2. CASE inFavor' = inFavor \cup {a} /\ gstate = "StopRequested" /\ a \in ballots
      <4>1. a \notin Dead
        BY <2>1 DEF ApplyShutdownVote, DeadAreGone
      <4>2. Contract!Agree(a)
        BY <2>1, <3>2, <4>1 DEF ApplyShutdownVote, Contract!Agree
      <4> QED
        BY <4>2 DEF Contract!Next
    <3> QED
      BY <2>1, <3>1, <3>2 DEF ApplyShutdownVote
  <2>2. CASE Finish(a)
    <3>1. Contract!Leave(a)
      BY <2>2 DEF Finish, Contract!Leave
    <3> QED
      BY <3>1 DEF Contract!Next
  <2>3. CASE Unwind(a)
    <3>1. Contract!Leave(a) \/ UNCHANGED Contract!vars
      BY <2>3 DEF Unwind, Contract!Leave, Contract!vars
    <3> QED
      BY <3>1 DEF Contract!Next
  <2>4. CASE RegisterActor(a)
    <3>1. a \notin Dead
      BY <2>4 DEF RegisterActor, DeadAreGone
    <3>2. Dead' = Dead
      BY <2>4, <3>1 DEF RegisterActor
    <3> QED
      BY <2>4, <3>2 DEF RegisterActor, Contract!vars
  <2> QED
    BY <1>1, <2>1, <2>2, <2>3, <2>4
       DEF ActorStep, BuildActor, Poll, AcceptFn, Panic, EnterBarrier, Contract!vars
<1>2. CASE LeaveBarrier
  BY <1>2 DEF LeaveBarrier, Contract!vars
<1>3. ASSUME NEW t \in Thread, RequestStep(t) PROVE [Contract!Next]_(Contract!vars)
  <2>1. CASE Install(t)
    <3>1. t = Main
      BY <2>1 DEF Install, SoleRequester, RequestPc, Thread, Watcher
    <3>2. Contract!Request
      BY <2>1, <3>1 DEF Install, OwnerPlace, NoBallotsWhileUp, Contract!Request
    <3> QED
      BY <3>2 DEF Contract!Next
  <2>2. CASE CountTheDead(t)
    <3>1. t = Main
      BY <2>2 DEF CountTheDead, SoleRequester, ActorPc, RequestPc, Thread, Watcher
    <3>2. Contract!CountLeft(copy[t] \cap ballots)
      BY <2>2, <3>1
         DEF CountTheDead, OwnerPlace, FoundAreGone, WatchPc, Contract!CountLeft
    <3>3. copy[t] \cap ballots \in SUBSET Actor
      OBVIOUS
    <3> QED
      BY <3>2, <3>3 DEF Contract!Next
  <2> QED
    BY <1>3, <2>1, <2>2
       DEF RequestStep, RequestShutdown, Snapshot, CollectTheDead, FireOneshots, Contract!vars
<1>4. CASE MainStep
  BY <1>4 DEF MainStep, Start, BlockUntilStopped, PushOneshot, Recheck, Await, Contract!vars
<1>5. ASSUME NEW w \in Watcher, WatchStep(w) PROVE [Contract!Next]_(Contract!vars)
  <2>1. CASE Verdict(w)
    <3>1. w = Main
      BY <2>1 DEF Verdict, SoleRequester, Watcher
    <3>2. gstate = "StopRequested"
      BY <2>1, <3>1 DEF Verdict, OwnerPlace, WatchPc
    <3>3. Contract!StopCleanly \/ Contract!StopUncleanly
      BY <2>1, <3>1, <3>2
         DEF Verdict, SoundVerdict, Contract!StopCleanly, Contract!StopUncleanly
    <3> QED
      BY <3>3 DEF Contract!Next
  <2> QED
    BY <1>5, <2>1 DEF WatchStep, Check, Expire, Contract!vars
<1>6. CASE UNCHANGED vars
  BY <1>6 DEF vars, Contract!vars
<1> QED
  BY <1>1, <1>2, <1>3, <1>4, <1>5, <1>6 DEF Next, Quiescent

(* The protocol of a graph whose owner alone requests the stop implements    *)
(* the abstract contract of Shutdown.                                        *)
THEOREM OwnerImplementsContract ==
  ASSUME OwnerAlone
  PROVE  Spec => ImplementsContract
BY OwnerInit, OwnerStep, ContractInit, ContractStep, PTL
   DEF Spec, ImplementsContract, Contract!Spec

-----------------------------------------------------------------------------
(* No notice is lost, whoever requests and however often, when every actor   *)
(* is built before the start and no signal comes before it: from the start   *)
(* on the registered actors are fixed, so that each request installs a       *)
(* ballot for all of them and no sweep is cut short before the drain; and    *)
(* a watcher, which stops a graph, only runs after a request.                *)
BuiltBeforeStart == Late = {} /\ EarlySignal = FALSE

Members == {a \in Actor : voter[a] # "None"}

StartPlace    == /\ pc[Main] = "build" <=> gstate = "Building"
                 /\ gstate # "Building" => ~Constructing
                 /\ gstate = "Building" => pc[CtrlC] = "idle"
                 /\ \A a \in Actor : pc[a] \in {"unbuilt", "built"} \/ a \in Members
FullBallots   == /\ \A t \in Thread : pc[t] = "install" => copy[t] = Members
                 /\ \A t \in Thread : pc[t] \in {"snapshot", "install"} => gstate # "Building"
                 /\ \A t \in Thread : pc[t] \in {"count", "tally"} => copy[t] \subseteq Members
                 /\ gstate \in Stopping => ballots = Members
StopIsUnderway == /\ \A t \in Thread : Draining(t) => gstate \in Stopping
                  /\ \A w \in Watcher : pc[w] \in WatchPc => gstate \in Stopping
                  /\ fired # {} => gstate \in Stopping
OwnerListens  == pc[Main] = "recheck" /\ gstate \in Starting => Main \in oneshots

NoticeInv == /\ TypeOK
             /\ StartPlace
             /\ FullBallots
             /\ StopIsUnderway
             /\ OwnerListens
             /\ NoLostNotice

LEMMA NoticeInit == Init => NoticeInv
BY TypeInit, ConstantsAssumption
   DEF Init, NoticeInv, StartPlace, FullBallots, StopIsUnderway, OwnerListens, NoLostNotice,
       Constructing, Draining, WatchPc, Stopping, Starting, GState, Thread, Watcher

LEMMA NoticeStep ==
  ASSUME BuiltBeforeStart
  PROVE  NoticeInv /\ [Next]_vars => NoticeInv'
<1> SUFFICES ASSUME NoticeInv, [Next]_vars PROVE NoticeInv'
  OBVIOUS
<1>0. TypeOK'
  BY TypeStep DEF NoticeInv
<1> USE <1>0, ConstantsAssumption
<1> USE DEF BuiltBeforeStart, NoticeInv, StartPlace, FullBallots, StopIsUnderway, OwnerListens,
            NoLostNotice, NoticeComing, Constructing, Draining, Members, TypeOK, Thread, Watcher,
            RequestPc, WatchPc, ActorPc, Starting, Stopping, GState, Goto, election, notices
<1>1. ASSUME NEW a \in Actor, ActorStep(a) PROVE NoticeInv'
  <2>1. CASE BuildActor(a)         BY <2>1 DEF BuildActor
  <2>2. CASE RegisterActor(a)      BY <2>2 DEF RegisterActor
  <2>3. CASE Poll(a)               BY <2>3 DEF Poll
  <2>4. CASE AcceptFn(a)           BY <2>4 DEF AcceptFn
  <2>5. CASE ApplyShutdownVote(a)  BY <2>5 DEF ApplyShutdownVote
  <2>6. CASE Finish(a)             BY <2>6 DEF Finish
  <2>7. CASE Panic(a)              BY <2>7 DEF Panic
  <2>8. CASE Unwind(a)             BY <2>8 DEF Unwind
  <2>9. CASE EnterBarrier(a)       BY <2>9 DEF EnterBarrier
  <2> QED
    BY <1>1, <2>1, <2>2, <2>3, <2>4, <2>5, <2>6, <2>7, <2>8, <2>9 DEF ActorStep
<1>2. CASE LeaveBarrier
  BY <1>2 DEF LeaveBarrier
<1>3. ASSUME NEW t \in Thread, RequestStep(t) PROVE NoticeInv'
  <2>1. CASE RequestShutdown(t)    BY <2>1 DEF RequestShutdown, MayRequest, Resume
  <2>2. CASE Snapshot(t)           BY <2>2 DEF Snapshot
  <2>3. CASE Install(t)            BY <2>3 DEF Install
  <2>4. CASE CollectTheDead(t)     BY <2>4 DEF CollectTheDead, Dead
  <2>5. CASE CountTheDead(t)       BY <2>5 DEF CountTheDead
  <2>6. CASE FireOneshots(t)       BY <2>6 DEF FireOneshots, Resume
  <2> QED
    BY <1>3, <2>1, <2>2, <2>3, <2>4, <2>5, <2>6 DEF RequestStep
<1>4. CASE MainStep
  <2>1. CASE Start                 BY <2>1 DEF Start
  <2>2. CASE BlockUntilStopped     BY <2>2 DEF BlockUntilStopped
  <2>3. CASE PushOneshot           BY <2>3 DEF PushOneshot
  <2>4. CASE Recheck               BY <2>4 DEF Recheck
  <2>5. CASE Await                 BY <2>5 DEF Await
  <2> QED
    BY <1>4, <2>1, <2>2, <2>3, <2>4, <2>5 DEF MainStep
<1>5. ASSUME NEW w \in Watcher, WatchStep(w) PROVE NoticeInv'
  <2>1. CASE Check(w)              BY <2>1 DEF Check
  <2>2. CASE Verdict(w)            BY <2>2 DEF Verdict
  <2>3. CASE Expire(w)             BY <2>3 DEF Expire
  <2> QED
    BY <1>5, <2>1, <2>2, <2>3 DEF WatchStep
<1>6. CASE UNCHANGED vars
  BY <1>6 DEF vars
<1> QED
  BY <1>1, <1>2, <1>3, <1>4, <1>5, <1>6 DEF Next, Quiescent

(* Every actor and the waiting owner are notified of a stop.                 *)
THEOREM NoticesArrive ==
  ASSUME BuiltBeforeStart
  PROVE  Spec => []NoLostNotice
<1>1. NoticeInv => NoLostNotice
  BY DEF NoticeInv
<1> QED
  BY <1>1, NoticeInit, NoticeStep, PTL DEF Spec

-----------------------------------------------------------------------------
(* A sweep finds no dead actor without a ballot, and counts nobody else: a   *)
(* sweep is of ballots that are installed, for all that are registered.      *)
LEMMA SurviveStep ==
  ASSUME NoticeInv, WatchersSurvive, [Next]_vars
  PROVE  WatchersSurvive'
<1>0. TypeOK /\ WatchersSurvive
  BY DEF NoticeInv
<1>1. ASSUME NEW t \in Thread, CollectTheDead(t) PROVE WatchersSurvive'
  <2>1. gstate \in Stopping
    BY <1>1 DEF CollectTheDead, NoticeInv, StopIsUnderway, Draining, WatchPc, NoticeInv, TypeOK,
                ActorPc, RequestPc, Thread, Watcher
  <2>2. Dead \subseteq ballots
    BY <2>1 DEF NoticeInv, FullBallots, Dead, Members
  <2>3. \E next \in {"fire", "count", "check", "tally"} : Goto(t, next)
    BY <1>1, <2>2 DEF CollectTheDead
  <2> QED
    BY <1>0, <2>3 DEF WatchersSurvive, TypeOK, Goto, Thread
<1>2. ASSUME NEW t \in Thread, CountTheDead(t) PROVE WatchersSurvive'
  <2>1. gstate \in Stopping
    BY <1>2 DEF CountTheDead, NoticeInv, StopIsUnderway, Draining, WatchPc, TypeOK, ActorPc,
                RequestPc, Thread, Watcher
  <2>2. copy[t] \subseteq ballots
    BY <1>2, <2>1 DEF CountTheDead, NoticeInv, FullBallots
  <2>3. Goto(t, "fire") \/ Goto(t, "check")
    BY <1>2, <2>2 DEF CountTheDead
  <2> QED
    BY <1>0, <2>3 DEF WatchersSurvive, TypeOK, Goto, Thread
<1>3. ASSUME NEW a \in Actor, ActorStep(a) PROVE WatchersSurvive'
  BY <1>0, <1>3, ConstantsAssumption
     DEF WatchersSurvive, TypeOK, Goto, Thread, Watcher, ActorStep, BuildActor, RegisterActor, Poll,
         AcceptFn, ApplyShutdownVote, Finish, Panic, Unwind, EnterBarrier
<1>4. CASE LeaveBarrier
  BY <1>0, <1>4 DEF WatchersSurvive, TypeOK, Thread, LeaveBarrier
<1>5. ASSUME NEW t \in Thread, RequestStep(t), ~CollectTheDead(t), ~CountTheDead(t)
      PROVE  WatchersSurvive'
  BY <1>0, <1>5 DEF WatchersSurvive, TypeOK, Goto, Thread, RequestStep, RequestShutdown, Resume,
                    Snapshot, Install, FireOneshots
<1>6. CASE MainStep
  BY <1>0, <1>6 DEF WatchersSurvive, TypeOK, Goto, Thread, MainStep, Start, BlockUntilStopped,
                    PushOneshot, Recheck, Await
<1>7. ASSUME NEW w \in Watcher, WatchStep(w) PROVE WatchersSurvive'
  BY <1>0, <1>7 DEF WatchersSurvive, TypeOK, Goto, Thread, WatchStep, Check, Verdict, Expire
<1>8. CASE UNCHANGED vars
  BY <1>0, <1>8 DEF WatchersSurvive, vars
<1> QED
  BY <1>1, <1>2, <1>3, <1>4, <1>5, <1>6, <1>7, <1>8 DEF Next, Quiescent

(* Neither the owner nor the Ctrl-C handler is ever brought down by an index *)
(* past the end of votes, when every actor is built before the start.        *)
THEOREM WatchersAlwaysSurvive ==
  ASSUME BuiltBeforeStart
  PROVE  Spec => []WatchersSurvive
<1>1. Init => WatchersSurvive
  BY DEF Init, WatchersSurvive, Thread, Watcher
<1>2. Spec => []NoticeInv
  BY NoticeInit, NoticeStep, PTL DEF Spec
<1>3. NoticeInv /\ WatchersSurvive /\ [Next]_vars => WatchersSurvive'
  BY SurviveStep
<1> QED
  BY <1>1, <1>2, <1>3, PTL DEF Spec

-----------------------------------------------------------------------------
(* The telemetry collector compares two numbers; with the owner alone the    *)
(* first is the number of ballots in favour.  That it has agreed is not yet  *)
(* its vote: until it casts it, two ballots may be missing, its own and one. *)
NoVoteWhileUp   == gstate \in Starting =>
                     \A a \in Actor : pc[a] \notin {"veto", "castYes", "castNo"}
CollectorAgrees == \A c \in Collector :
                     pc[c] = "castYes" => Cardinality(ballots \ inFavor) <= 2

LastInv == NoVoteWhileUp /\ CollectorAgrees /\ CollectorIsLast

LEMMA LastInit == Init => LastInv
BY ConstantsAssumption
   DEF Init, LastInv, NoVoteWhileUp, CollectorAgrees, CollectorIsLast, Thread, Watcher

(* Fewer ballots are missing when more are in favour. *)
LEMMA FewerMissing ==
  ASSUME TypeOK, UNCHANGED ballots, inFavor \subseteq inFavor', NEW n \in Nat,
         Cardinality(ballots \ inFavor) <= n
  PROVE  Cardinality((ballots \ inFavor)') <= n
<1>1. ballots \ inFavor \in SUBSET Actor /\ (ballots \ inFavor)' \subseteq ballots \ inFavor
  BY DEF TypeOK
<1>2. IsFiniteSet(ballots \ inFavor) /\ Cardinality(ballots \ inFavor) \in Nat
  BY <1>1, FiniteActors
<1>3. /\ Cardinality((ballots \ inFavor)') \in Nat
      /\ Cardinality((ballots \ inFavor)') <= Cardinality(ballots \ inFavor)
  BY <1>1, <1>2, FS_Subset, FS_CardinalityType
<1> QED
  BY <1>2, <1>3

LEMMA LastStep ==
  ASSUME OwnerAlone, OwnerInv, LastInv, [Next]_vars
  PROVE  LastInv'
<1>0. /\ TypeOK /\ TypeOK' /\ VotesAreConsented /\ VotesAreConsented' /\ ExactTotal
      /\ NoVoteWhileUp /\ CollectorAgrees /\ CollectorIsLast
      /\ Collector \subseteq Actor /\ Main \notin Actor /\ CtrlC \notin Actor
  BY OwnerStep, ConstantsAssumption DEF OwnerInv, ConsentInv, LastInv
<1>k. ASSUME UNCHANGED ballots, inFavor \subseteq inFavor',
             gstate' \in Starting => gstate \in Starting,
             \A a \in Actor : pc'[a] \in {"veto", "castYes", "castNo"} =>
                                \/ pc[a] \in {"veto", "castYes", "castNo"}
                                \/ gstate' \notin Starting,
             \A c \in Collector : pc'[c] = "castYes" => pc[c] = "castYes",
             \A c \in Collector : pc'[c] = "exit" /\ c \in inFavor' => pc[c] = "exit" /\ c \in inFavor
      PROVE  LastInv'
  <2>1. NoVoteWhileUp'
    BY <1>0, <1>k DEF NoVoteWhileUp
  <2>2. CollectorAgrees'
    BY <1>0, <1>k, FewerMissing DEF CollectorAgrees
  <2>3. CollectorIsLast'
    BY <1>0, <1>k, FewerMissing DEF CollectorIsLast
  <2> QED
    BY <2>1, <2>2, <2>3 DEF LastInv
<1>1. ASSUME NEW a \in Actor, AcceptFn(a) PROVE LastInv'
  <2>1. /\ UNCHANGED <<gstate, ballots, inFavor, total>> /\ pc[a] = "veto"
        /\ \E next \in {"panicked", "castYes", "castNo"} : pc' = [pc EXCEPT ![a] = next]
    BY <1>1 DEF AcceptFn, Goto, election
  <2>2. ASSUME a \in Collector, pc'[a] = "castYes" PROVE Cardinality(ballots \ inFavor) <= 2
    <3>1. Cardinality(inFavor) + 2 >= Cardinality(ballots)
      BY <1>0, <1>1, <2>1, <2>2 DEF AcceptFn, TelemetryComplete, ExactTotal, Goto, TypeOK, Thread
    <3>2. /\ IsFiniteSet(ballots) /\ IsFiniteSet(inFavor) /\ ballots \cap inFavor = inFavor
          /\ Cardinality(ballots) \in Nat /\ Cardinality(inFavor) \in Nat
      BY <1>0, FiniteActors DEF TypeOK
    <3>3. Cardinality(ballots \ inFavor) = Cardinality(ballots) - Cardinality(ballots \cap inFavor)
      BY <3>2, FS_Difference
    <3> QED
      BY <3>1, <3>2, <3>3
  <2>3. NoVoteWhileUp'
    BY <1>0, <2>1 DEF NoVoteWhileUp, TypeOK, Thread
  <2>4. CollectorAgrees'
    BY <1>0, <2>1, <2>2 DEF CollectorAgrees, TypeOK, Thread
  <2>5. CollectorIsLast'
    BY <1>0, <2>1 DEF CollectorIsLast, TypeOK, Thread
  <2> QED
    BY <2>3, <2>4, <2>5 DEF LastInv
<1>2. ASSUME NEW a \in Actor, ApplyShutdownVote(a) PROVE LastInv'
  <2>1. /\ UNCHANGED <<gstate, ballots>> /\ inFavor \subseteq inFavor'
        /\ pc[a] \in {"castYes", "castNo"}
        /\ \E next \in {"exit", "run", "panicked"} : pc' = [pc EXCEPT ![a] = next]
    BY <1>2 DEF ApplyShutdownVote, Goto
  <2>2. CASE a \in Collector /\ a \in inFavor'
    <3>1. a \notin inFavor
      BY <1>0, <2>1 DEF VotesAreConsented
    <3>2. /\ inFavor' = inFavor \cup {a} /\ pc[a] = "castYes" /\ a \in ballots
          /\ pc' = [pc EXCEPT ![a] = "exit"]
      BY <1>2, <2>2, <3>1 DEF ApplyShutdownVote, Goto
    <3>3. Cardinality(ballots \ inFavor) <= 2
      BY <1>0, <2>2, <3>2 DEF CollectorAgrees
    <3>4. (ballots \ inFavor)' = (ballots \ inFavor) \ {a} /\ a \in ballots \ inFavor
      BY <2>1, <3>1, <3>2
    <3>5. IsFiniteSet(ballots \ inFavor) /\ Cardinality(ballots \ inFavor) \in Nat
      BY <1>0, FiniteActors DEF TypeOK
    <3>6. Cardinality((ballots \ inFavor) \ {a}) = Cardinality(ballots \ inFavor) - 1
      BY <3>4, <3>5, FS_RemoveElement
    <3>7. Cardinality(ballots' \ inFavor') <= 1
      BY <3>3, <3>4, <3>5, <3>6
    <3>8. NoVoteWhileUp'
      BY <1>0, <2>1 DEF NoVoteWhileUp, TypeOK, Thread
    <3>9. CollectorAgrees' /\ CollectorIsLast'
      <4>1. Cardinality(ballots' \ inFavor') <= 2
        BY <3>3, <3>4, <3>5, <3>6
      <4> QED
        BY <3>7, <4>1 DEF CollectorAgrees, CollectorIsLast
    <3> QED
      BY <3>8, <3>9 DEF LastInv
  <2>3. CASE ~(a \in Collector /\ a \in inFavor')
    <3>1. \A c \in Actor : c # a => pc'[c] = pc[c]
      BY <1>0, <2>1 DEF TypeOK, Thread
    <3>2. pc'[a] \notin {"veto", "castYes", "castNo"}
      BY <1>0, <2>1 DEF TypeOK, Thread
    <3>3. \A c \in Collector : pc'[c] = "exit" /\ c \in inFavor' => pc[c] = "exit" /\ c \in inFavor
      BY <1>0, <1>2, <2>3, <3>1 DEF ApplyShutdownVote
    <3> QED
      BY <1>0, <1>k, <2>1, <3>1, <3>2, <3>3
  <2> QED
    BY <2>2, <2>3
<1>3. ASSUME NEW a \in Actor, ActorStep(a), ~AcceptFn(a), ~ApplyShutdownVote(a) PROVE LastInv'
  <2>1. /\ UNCHANGED <<gstate, ballots, inFavor>>
        /\ \A c \in Actor : c # a => pc'[c] = pc[c]
        /\ pc'[a] \notin {"castYes", "castNo"}
        /\ pc'[a] = "veto" => gstate = "StopRequested"
        /\ pc'[a] = "exit" => pc[a] = "run"
    BY <1>0, <1>3
       DEF ActorStep, BuildActor, RegisterActor, Poll, Finish, Panic, Unwind, EnterBarrier, Goto,
           election, TypeOK, Thread
  <2>2. pc[a] = "run" => a \notin inFavor
    BY <1>0 DEF VotesAreConsented
  <2> QED
    BY <1>0, <1>k, <2>1, <2>2 DEF Starting
<1>4. CASE LeaveBarrier
  <2>1. /\ UNCHANGED <<gstate, ballots, inFavor>>
        /\ \A c \in Actor : pc'[c] = pc[c] \/ pc'[c] = "request"
    BY <1>0, <1>4 DEF LeaveBarrier, election, Thread
  <2> QED
    BY <1>0, <1>k, <2>1
<1>o. ASSUME NEW t \in Thread, RequestStep(t) PROVE t = Main
  BY <1>0, <1>o DEF OwnerInv, SoleRequester, OwnerAlone, RequestStep, RequestShutdown, MayRequest,
                    Snapshot, Install, CollectTheDead, CountTheDead, FireOneshots, TypeOK, ActorPc,
                    RequestPc, Thread, Watcher
<1>5. ASSUME NEW t \in Thread, Install(t) PROVE LastInv'
  <2>1. t = Main /\ gstate = "Running"
    BY <1>5, <1>o DEF RequestStep, Install, OwnerInv, OwnerPlace
  <2>2. /\ gstate' = "StopRequested" /\ inFavor' = {} /\ pc' = [pc EXCEPT ![Main] = "collect"]
    BY <1>5, <2>1 DEF Install, Goto
  <2>3. \A c \in Actor : pc'[c] \notin {"veto", "castYes", "castNo"}
    BY <1>0, <2>1, <2>2 DEF NoVoteWhileUp, TypeOK, Thread, Starting
  <2> QED
    BY <1>0, <2>2, <2>3 DEF LastInv, NoVoteWhileUp, CollectorAgrees, CollectorIsLast, Starting
<1>6. ASSUME NEW t \in Thread, RequestStep(t), ~Install(t) PROVE LastInv'
  <2>1. t = Main
    BY <1>6, <1>o
  <2>2. UNCHANGED <<gstate, ballots>> /\ inFavor \subseteq inFavor' /\ \A c \in Actor : pc'[c] = pc[c]
    BY <1>0, <1>6, <2>1 DEF RequestStep, RequestShutdown, Snapshot, CollectTheDead, CountTheDead,
                            FireOneshots, Goto, election, TypeOK, Thread
  <2>3. \A c \in Actor : pc'[c] = "exit" /\ c \in inFavor' => c \in inFavor
    BY <1>0, <1>6, <2>1, <2>2
       DEF RequestStep, RequestShutdown, Snapshot, CollectTheDead, CountTheDead, FireOneshots,
           election, OwnerInv, ConsentInv, DeadAreGone, FoundAreGone, Dead, Thread, Watcher
  <2> QED
    BY <1>0, <1>k, <2>2, <2>3
<1>7. CASE MainStep \/ \E w \in Watcher : WatchStep(w)
  <2>1. /\ UNCHANGED <<ballots, inFavor>>
        /\ gstate' \in Starting => gstate \in Starting
        /\ \A c \in Actor : pc'[c] = pc[c]
    BY <1>0, <1>7 DEF MainStep, Start, BlockUntilStopped, PushOneshot, Recheck, Await, WatchStep,
                      Check, Verdict, Expire, Goto, election, TypeOK, Thread, Watcher, Starting
  <2> QED
    BY <1>0, <1>k, <2>1
<1>8. CASE UNCHANGED vars
  BY <1>0, <1>8, <1>k DEF vars
<1> QED
  BY <1>1, <1>2, <1>3, <1>4, <1>5, <1>6, <1>7, <1>8 DEF Next, Quiescent

(* The telemetry collector outlives every actor but one, if the owner alone  *)
(* requests the stop.                                                        *)
THEOREM CollectorStaysToTheEnd ==
  ASSUME OwnerAlone
  PROVE  Spec => []CollectorIsLast
<1>1. OwnerInv /\ LastInv /\ [Next]_vars => LastInv'
  BY LastStep
<1>2. Spec => []OwnerInv
  BY OwnerInit, OwnerStep, PTL DEF Spec
<1>3. LastInv => CollectorIsLast
  BY DEF LastInv
<1> QED
  BY <1>1, <1>2, <1>3, LastInit, PTL DEF Spec
=============================================================================
