---------------------------- MODULE MCNamedGraph ----------------------------
(***************************************************************************)
(* Layers b and d both descend from a: a fork, so that heads can move      *)
(* forwards (a to b), backwards (b to a) and sideways (b to d).            *)
(***************************************************************************)
EXTENDS NamedGraph, TLC

CONSTANTS a, b, d

MCLayers == {a, b, d}
MCParent == (a :> NoLayer) @@ (b :> a) @@ (d :> a)
=============================================================================
