------------------------------ MODULE Shutdown ------------------------------
(***************************************************************************)
(* What the graph promises about shutdown, with no threads and no locks:   *)
(* a stop is requested once, against an electorate fixed at that moment;   *)
(* each member of the electorate agrees, or leaves and is then counted as  *)
(* agreeing; the graph stops cleanly only when the whole electorate is     *)
(* counted, may give up uncleanly at any time after the request, and a     *)
(* stopped graph never changes its verdict.                                *)
(*                                                                         *)
(* It is the contract that docs/spec/05-graph-and-shutdown.md gives        *)
(* (graph.shutdown.veto, graph.shutdown.accept, graph.block-until-stopped) *)
(* and that graph/liveliness.rs and graph/shutdown.rs are to meet;         *)
(* GraphLiveliness is shown to implement it.                               *)
(***************************************************************************)
CONSTANT Actor

VARIABLES phase,        \* "up", "stopping", "clean" or "unclean"
          electorate,   \* the actors whose ballot counts
          agreed,       \* the members counted in favour of the stop
          left          \* the actors that have ended

vars == <<phase, electorate, agreed, left>>

Init == /\ phase = "up"
        /\ electorate = {}
        /\ agreed = {}
        /\ left = {}

Request == /\ phase = "up"
           /\ phase' = "stopping"
           /\ electorate' \in SUBSET Actor
           /\ UNCHANGED <<agreed, left>>

(* An actor that has not left agrees for itself. *)
Agree(a) == /\ phase = "stopping"
            /\ a \in electorate \ left
            /\ agreed' = agreed \cup {a}
            /\ UNCHANGED <<phase, electorate, left>>

(* Some of the actors that have left are counted in favour. *)
CountLeft(S) == /\ phase # "up"
                /\ S \subseteq electorate \cap left
                /\ agreed' = agreed \cup S
                /\ UNCHANGED <<phase, electorate, left>>

Leave(a) == /\ left' = left \cup {a}
            /\ UNCHANGED <<phase, electorate, agreed>>

StopCleanly == /\ phase = "stopping"
               /\ agreed = electorate
               /\ phase' = "clean"
               /\ UNCHANGED <<electorate, agreed, left>>

StopUncleanly == /\ phase = "stopping"
                 /\ phase' = "unclean"
                 /\ UNCHANGED <<electorate, agreed, left>>

Next == \/ Request
        \/ \E a \in Actor : Agree(a) \/ Leave(a)
        \/ \E S \in SUBSET Actor : CountLeft(S)
        \/ StopCleanly
        \/ StopUncleanly

Spec == Init /\ [][Next]_vars
=============================================================================
