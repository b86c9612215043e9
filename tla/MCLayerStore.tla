---------------------------- MODULE MCLayerStore ----------------------------
(***************************************************************************)
(* Instances of LayerStore: an empty store in which clients build layers,  *)
(* and stores that start with a chain of committed layers, every chain of  *)
(* changes that commit can have produced.                                  *)
(***************************************************************************)
EXTENDS LayerInvariants, TLC

CONSTANT Chain     \* committed layers of the initial store, oldest first

\* The names that are not yet in use are interchangeable.
Spare == Names \ {Chain[i] : i \in DOMAIN Chain}
Symmetry == Permutations(Spare) \cup Permutations(Tasks)

\* The triples held after each layer of the chain.
Histories == [DOMAIN Chain -> SUBSET Triples]

Position(n) == CHOOSE i \in DOMAIN Chain : Chain[i] = n

ChainDirectory(h, i) ==
    LET old == IF i = 1 THEN {} ELSE h[i - 1] IN
    [state |-> "done", parent |-> IF i = 1 THEN None ELSE Chain[i - 1],
     add |-> h[i] \ old, rem |-> old \ h[i], rollup |-> None]

ChainInit ==
    \E h \in Histories :
        /\ disk = [n \in Names |-> IF n \in Spare THEN NoDirectory
                                   ELSE ChainDirectory(h, Position(n))]
        /\ truth = [n \in Names |-> IF n \in Spare THEN None ELSE h[Position(n)]]
        /\ cache = [n \in Names |-> None]
        /\ task = [t \in Tasks |-> Idle]

ChainSpec == ChainInit /\ [][Next]_vars
FairChainSpec == ChainSpec /\ \A t \in Tasks : WF_vars(Step(t))

NoChain == <<>>
CONSTANTS c1, c2, c3, c4
Chain3 == <<c1, c2, c3>>
Chain4 == <<c1, c2, c3, c4>>
=============================================================================
