-------------------------- MODULE MCGraphLiveliness --------------------------
(***************************************************************************)
(* Small instances of GraphLiveliness for TLC.                             *)
(***************************************************************************)
EXTENDS GraphLiveliness, TLC

CONSTANTS a1, a2, a3, main, ctrlc

MCNone    == {}
MCPair    == {a1, a2}
MCTriple  == {a1, a2, a3}
MCFirst   == {a1}
MCSecond  == {a2}
MCThird   == {a3}
MCOwner   == {main}
MCSignal  == {ctrlc}
MCWatch   == {main, ctrlc}
MCAnybody == {a1, a2, ctrlc}
=============================================================================
