------------------------------ MODULE Packing ------------------------------
(***************************************************************************)
(* Packing the actors of the dynamic troupes into threads when the graph   *)
(* starts: Graph::finalize_dynamic_troupes (graph/graph.rs), the algorithms *)
(* of actor_builder/pack.rs and the budget of actor_builder/slot_budget.rs. *)
(*                                                                         *)
(* A channel is an edge when both its ends are held by actors that declared *)
(* their ports, which the members of every troupe may and a solo actor may *)
(* not.  The edges are looked at one by one, the smallest capacity first,  *)
(* and the clusters of their ends united until there are no more of them   *)
(* than slots.  The lanes of a bundle are held back when they would bring  *)
(* two consumers of one producer's lanes together.                         *)
(*                                                                         *)
(* A graph is what main has built when it calls start:                     *)
(*   place      where each actor is: in a bag (a dynamic troupe), in the   *)
(*              normal troupe, or solo on a thread of its own              *)
(*   from, to   the actors at the ends of each channel                     *)
(*   capacity   of each channel                                            *)
(*   detected   the parallelism, pinned or found                           *)
(* The footprint that breaks ties between capacities is eight times the    *)
(* capacity (channel_builder_lazy.rs) and never does; start passes no      *)
(* explicit cores.                                                         *)
(***************************************************************************)
EXTENDS Naturals, FiniteSets, Sequences, SequencesExt

CONSTANTS Channels,
          Bundles,   \* the channels of each bundle, its lanes
          Graphs     \* the graphs that main may build

ASSUME BundlesAssumption ==
  /\ Bundles \subseteq SUBSET Channels
  /\ \A b, d \in Bundles : b = d \/ b \cap d = {}

ASSUME GraphsAssumption ==
  \A g \in Graphs :
    /\ DOMAIN g.place \subseteq Nat /\ IsFiniteSet(DOMAIN g.place)
    /\ {g.from, g.to} \subseteq [Channels -> DOMAIN g.place]
    /\ g.capacity \in [Channels -> Nat] /\ g.detected \in Nat

VARIABLES
  graph,
  phase,     \* of start: "building", "merging", "done", "failed" by a panic
  todo,      \* the edges still to be looked at
  root,      \* of each packable actor's cluster in the union-find forest
  rank,
  merged,    \* for the properties: the edges that united two clusters
  spread,    \* for the properties: the actors were dealt out in turn
  troupes    \* the clusters that have been spawned, as sequences of actors

vars == <<graph, phase, todo, root, rank, merged, spread, troupes>>

-----------------------------------------------------------------------------
(* What start finds.                                                        *)

Actors == DOMAIN graph.place
Packable == {a \in Actors : graph.place[a] \in {"bag1", "bag2"}}

(* The elements of a set one after the other, by an order given as pairs. *)
Sorted(S, order) ==
  CHOOSE line \in [1..Cardinality(S) -> S] :
    \A i, j \in DOMAIN line : i < j => <<line[i], line[j]>> \in order

Ascending(S) == {pair \in S \X S : pair[1] < pair[2]}
InOrder(S) == Sorted(S, Ascending(S))

(* Bag by bag, and in each bag as the actors were built. *)
BagByBag ==
  {pair \in Packable \X Packable :
     \/ graph.place[pair[1]] = "bag1" /\ graph.place[pair[2]] = "bag2"
     \/ graph.place[pair[1]] = graph.place[pair[2]] /\ pair[1] < pair[2]}

ActorIds == Sorted(Packable, BagByBag)

(* The threads of the solo actors and of the normal troupe are not for the   *)
(* packer; the telemetry's actors are solo.                                  *)
Reserved ==
  Cardinality({a \in Actors : graph.place[a] = "solo"})
  + (IF \E a \in Actors : graph.place[a] = "normal" THEN 1 ELSE 0)

AtLeastOne(n) == IF n = 0 THEN 1 ELSE n
Least(a, b) == IF a < b THEN a ELSE b
Slots == AtLeastOne(IF graph.detected > Reserved THEN graph.detected - Reserved ELSE 0)

Ends(c) == {graph.from[c], graph.to[c]}
Edges == {c \in Channels : /\ graph.from[c] # graph.to[c]
                           /\ \A a \in Ends(c) : graph.place[a] # "solo"}

-----------------------------------------------------------------------------
(* pack.rs                                                                  *)

(* even_split *)
EvenSplit(ids) ==
  LET n == Least(Slots, Len(ids))
      Dealt(k) == {i \in 1..Len(ids) : (i - 1) % n = k - 1}
  IN [k \in 1..n |-> [i \in 1..Cardinality(Dealt(k)) |-> ids[InOrder(Dealt(k))[i]]]]

Roots == {root[a] : a \in Packable}

(* Mutant: one cluster more is given away. *)
EnoughLate == Cardinality(Roots) < Slots

Enough == Cardinality(Roots) <= Slots

Before(c, d) ==
  \/ graph.capacity[c] < graph.capacity[d]
  \/ graph.capacity[c] = graph.capacity[d]
     /\ \/ graph.from[c] < graph.from[d]
        \/ graph.from[c] = graph.from[d] /\ graph.to[c] < graph.to[d]

(* Mutant: the edges as they come. *)
SmallestOfAny(c) == c \in todo

(* Edges that are alike come in any order. *)
Smallest(c) == c \in todo /\ \A d \in todo : ~Before(d, c)

(* Mutant: whatever the producer feeds. *)
ConsumersOfProducer(c) == {graph.to[d] : d \in {e \in Edges : graph.from[e] = graph.from[c]}}

(* The lanes of a bundle that one producer has are a family. *)
Family(c) == {d \in Edges : graph.from[d] = graph.from[c] /\ \E b \in Bundles : {c, d} \subseteq b}

(* The consumers of the family of a lane. *)
Consumers(c) == {graph.to[d] : d \in Family(c)}

(* Mutant: a lane is a channel like another. *)
NeverGlues(c) == FALSE

(* would_merge_bundle_siblings.  A lane is only held back for its own family, *)
(* and a channel of no bundle never.                                         *)
GluesSiblings(c) == \A a \in Ends(c) : \E b \in Consumers(c) \cap Packable : root[a] = root[b]

(* The consumers are looked up in the forest until one is found on the       *)
(* producer's side, and again on the other side.  The forest has no node for *)
(* a consumer that is not packable, and its lookup panics; the consumers     *)
(* come in any order.                                                        *)
MayPanic(c) == ~(Consumers(c) \subseteq Packable)
MustPanic(c) == MayPanic(c) /\ ~GluesSiblings(c)

(* Mutant: the order in which they were built. *)
AsBuilt(ids) == ids

(* The members of a crew whose producers have their place in the line. *)
Followers(crew, line) ==
  {a \in crew \ ToSet(line) :
     \A c \in Edges : graph.to[c] = a /\ graph.from[c] \in crew => graph.from[c] \in ToSet(line)}

(* The line after each step of linedance_order, which takes the first that   *)
(* may follow.                                                               *)
Lines(crew, steps) ==
  LET line[n \in 0..steps] ==
        IF n = 0 THEN <<>>
        ELSE IF Followers(crew, line[n - 1]) = {} THEN line[n - 1]
        ELSE Append(line[n - 1], Min(Followers(crew, line[n - 1])))
  IN line

(* linedance_order: left as it is when there is a cycle. *)
Linedance(ids) ==
  LET line == Lines(ToSet(ids), Len(ids))[Len(ids)]
  IN IF Len(line) = Len(ids) THEN line ELSE ids

(* The clusters, by their roots. *)
Clusters ==
  [k \in 1..Cardinality(Roots) |->
     Sorted({a \in Packable : root[a] = InOrder(Roots)[k]}, BagByBag)]

(* The actors of all clusters, one cluster after the other. *)
ClusterByCluster ==
  {pair \in Packable \X Packable :
     \/ root[pair[1]] < root[pair[2]]
     \/ root[pair[1]] = root[pair[2]] /\ pair \in BagByBag}

-----------------------------------------------------------------------------
Init ==
  /\ graph \in Graphs
  /\ phase = "building" /\ todo = {} /\ merged = {} /\ spread = FALSE /\ troupes = <<>>
  /\ root = [a \in Packable |-> a] /\ rank = [a \in Packable |-> 0]

Spawn(clusters) == phase' = "done" /\ troupes' = clusters /\ UNCHANGED <<graph, root, rank, merged>>

(* Graph::start takes the bags, counts the threads and collects the edges.   *)
StartWithoutEdges ==
  /\ phase = "building" /\ Edges = {}
  /\ Spawn(EvenSplit(ActorIds)) /\ spread' = TRUE
  /\ UNCHANGED todo

Start ==
  /\ phase = "building" /\ Edges # {}
  /\ phase' = "merging" /\ todo' = Edges
  /\ UNCHANGED <<graph, root, rank, merged, spread, troupes>>

Apart(c) == \E a, b \in Ends(c) : root[a] # root[b]

PassOver(c) ==
  /\ todo' = todo \ {c}
  /\ UNCHANGED <<graph, phase, root, rank, merged, spread, troupes>>

Union(c) ==
  LET a == root[graph.from[c]]
      b == root[graph.to[c]]
      winner == IF rank[a] < rank[b] THEN b ELSE a
  IN /\ root' = [x \in Packable |-> IF root[x] \in {a, b} THEN winner ELSE root[x]]
     /\ rank' = IF rank[a] = rank[b] THEN [rank EXCEPT ![a] = @ + 1] ELSE rank
     /\ merged' = merged \cup {c} /\ todo' = todo \ {c}
     /\ UNCHANGED <<graph, phase, spread, troupes>>

Panic == phase' = "failed" /\ UNCHANGED <<graph, todo, root, rank, merged, spread, troupes>>

LookAt(c) ==
  /\ phase = "merging" /\ ~Enough /\ Smallest(c)
  /\ \/ ~(Ends(c) \subseteq Packable) /\ PassOver(c)
     \/ /\ Ends(c) \subseteq Packable
        /\ \/ ~Apart(c) /\ PassOver(c)
           \/ Apart(c) /\ ~MustPanic(c) /\ GluesSiblings(c) /\ PassOver(c)
           \/ Apart(c) /\ ~MustPanic(c) /\ ~GluesSiblings(c) /\ Union(c)
           \/ Apart(c) /\ MayPanic(c) /\ Panic

(* One thread for each cluster.  Too many clusters are taken apart again.    *)
Finish ==
  /\ phase = "merging" /\ (Enough \/ todo = {})
  /\ \/ Enough /\ Spawn([k \in DOMAIN Clusters |-> Linedance(Clusters[k])]) /\ UNCHANGED spread
     \/ ~Enough /\ Spawn(EvenSplit(Sorted(Packable, ClusterByCluster))) /\ spread' = TRUE
  /\ UNCHANGED todo

Next == StartWithoutEdges \/ Start \/ (\E c \in Channels : LookAt(c)) \/ Finish

Spec == Init /\ [][Next]_vars

-----------------------------------------------------------------------------
Together(a, b) == \E k \in DOMAIN troupes : {a, b} \subseteq ToSet(troupes[k])
Packed == phase = "done" /\ ~spread

(* Every member of a dynamic troupe is on exactly one thread, and exactly as *)
(* many threads are spawned as the budget has slots for, or as there are     *)
(* actors (troupe.dynamic-slot-budget): whichever way the union-find and the *)
(* fallback that deals the clusters out again went, no actor is dropped on   *)
(* the way, spawned twice, or left in an empty thread.                       *)
PackedOnce ==
  phase = "done" =>
    /\ \A k \in DOMAIN troupes :
         troupes[k] # <<>> /\ ToSet(troupes[k]) \subseteq Packable /\ IsInjective(troupes[k])
    /\ \A a \in Packable : \E k \in DOMAIN troupes :
         \A l \in DOMAIN troupes : a \in ToSet(troupes[l]) <=> l = k
    /\ Len(troupes) = Least(Slots, Cardinality(Packable))

(* The clusters are the ones of the smallest channels: no plain channel      *)
(* between two threads is smaller than one that was used to unite actors     *)
(* (troupe.dynamic-kruskal-capacity), whatever the ties, the detours and the *)
(* held-back lanes.                                                          *)
SmallestChannelsFirst ==
  Packed =>
    \A c \in Edges \ UNION Bundles :
      Ends(c) \subseteq Packable /\ ~(\E k \in DOMAIN troupes : Ends(c) \subseteq ToSet(troupes[k]))
        => \A m \in merged : graph.capacity[m] <= graph.capacity[c]

(* Two consumers of one family share a thread only if a channel outside the  *)
(* family was used in that thread: its lanes alone never bring them together *)
(* (troupe.dynamic-bundle-siblings, which has no such exception).            *)
LanesApart ==
  Packed =>
    \A c \in Edges : \A d \in Family(c) :
      graph.to[c] # graph.to[d] /\ Together(graph.to[c], graph.to[d])
        => \E m \in merged \ Family(c) : Together(graph.to[c], graph.from[m])

(* start fails only when the family of a packable producer feeds packable    *)
(* actors and others.                                                        *)
FailsOnMixedBundles ==
  phase = "failed" =>
    \E c \in Edges : \E d \in Family(c) : Ends(c) \subseteq Packable /\ graph.to[d] \notin Packable

(* Producers are polled before their consumers on one thread, unless the     *)
(* channels inside it form a cycle (troupe.dynamic-linedance-order).         *)
ProducersFirst ==
  Packed =>
    \A k \in DOMAIN troupes :
      LET t == troupes[k]
          Inside(crew) == {c \in Edges : Ends(c) \subseteq crew}
          Cyclic == \E crew \in SUBSET ToSet(t) \ {{}} :
                      \A a \in crew : \E c \in Inside(crew) : graph.to[c] = a
      IN ~Cyclic => \A i, j \in DOMAIN t : i < j =>
                      ~(\E c \in Edges : graph.from[c] = t[j] /\ graph.to[c] = t[i])
=============================================================================
