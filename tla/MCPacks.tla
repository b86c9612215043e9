------------------------------- MODULE MCPacks -------------------------------
(***************************************************************************)
(* An empty store, from which packs are imported into another one.         *)
(***************************************************************************)
EXTENDS Packs, MCLayerStore
=============================================================================
