-------------------------- MODULE MCLayerContents --------------------------
(***************************************************************************)
(* Instances of LayerContents for TLC.  Strings sort so that the ones that *)
(* come later in the chain may come before, between and after those of the *)
(* base layer, and share prefixes of different lengths.                    *)
(***************************************************************************)
EXTENDS LayerContents

Node(string) == [kind |-> "node", str |-> string]
Value(string) == [kind |-> "value", str |-> string]

\* The second triple has the object of the first as its subject; a node and a value
\* have the string <<2>>.  The five nodes fill two blocks of three, the second one
\* with one string or two.
MCUniverse ==
    {[s |-> <<1, 1, 2>>, p |-> <<2>>, o |-> Node(<<1, 2>>)],
     [s |-> <<1, 2>>, p |-> <<1>>, o |-> Value(<<2>>)],
     [s |-> <<1, 2>>, p |-> <<2>>, o |-> Value(<<1, 1>>)],
     [s |-> <<1, 1, 1>>, p |-> <<1>>, o |-> Node(<<2>>)],
     [s |-> <<2, 1>>, p |-> <<2>>, o |-> Value(<<2>>)]}

MCChanges == <<2, 2, 1>>
=============================================================================
