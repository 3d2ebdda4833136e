----------------------------- MODULE MCPacking -----------------------------
(* Four actors, a bundle of the two lanes 1 and 2 and the plain channels 3 and *)
(* 4.  The lanes have one capacity, as a bundle is built; they fan out from    *)
(* one actor or meet at one.                                                   *)
EXTENDS Packing

MCChannels == 1..4
MCBundles == {{1, 2}}

Ids == 0..3

MCPlaces ==
  {[a \in Ids |-> "bag1"],
   [a \in Ids |-> IF a \in {0, 2} THEN "bag2" ELSE "bag1"],
   [a \in Ids |-> IF a = 1 THEN "normal" ELSE "bag1"],
   [a \in Ids |-> IF a = 1 THEN "solo" ELSE "bag1"]}

(* The second plain channel repeats or extends the first. *)
MCWirings ==
  {w \in [p : Ids, q : Ids, a : Ids, b : Ids, f : Ids, t : Ids, g : Ids] :
     /\ w.p # w.a /\ w.q # w.b /\ w.f # w.t /\ w.t # w.g
     /\ \/ w.p = w.q /\ w.a <= w.b
        \/ w.p < w.q /\ w.a = w.b}

MCCapacities == [lane : {2}, plain : {1, 2, 3}, last : {2, 3}]

MCGraphs ==
  {[place    |-> place,
    from     |-> <<w.p, w.q, w.f, w.t>>,
    to       |-> <<w.a, w.b, w.t, w.g>>,
    capacity |-> <<c.lane, c.lane, c.plain, c.last>>,
    detected |-> n] :
     place \in MCPlaces, w \in MCWirings, c \in MCCapacities, n \in {2, 3}}
=============================================================================
