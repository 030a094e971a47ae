--------------------------- MODULE MCOverlayRebase ---------------------------
(* Instances of OverlayRebase for TLC.                                     *)
EXTENDS OverlayRebase, TLC

CONSTANTS a, b, x, y

(* A directory, an empty file in it or beside it, or in both.              *)
Tree(names) ==
    [names |-> names,
     nodes |-> (1 :> Dir) @@ (2 :> Dir) @@
               (3 :> [File(x) EXCEPT !.links = Cardinality({e \in DOMAIN names : names[e] = 3})])]

Beside == {Tree((<<1, a>> :> 2) @@ (<<1, b>> :> 3))}
Within == {Tree((<<1, a>> :> 2) @@ (<<2, a>> :> 3))}
Linked == {Tree((<<1, a>> :> 2) @@ (<<2, a>> :> 3) @@ (<<1, b>> :> 3))}

AllTrees == Beside \cup Within \cup Linked
=============================================================================
