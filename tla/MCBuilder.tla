----------------------------- MODULE MCBuilder -----------------------------
(***************************************************************************)
(* Two drafts and three calls on them: the subtrees of the root and of /a, *)
(* paths and a subtree of /b, which lie beside the one and inside the      *)
(* other.                                                                  *)
(***************************************************************************)
EXTENDS Builder

CONSTANTS a, b, x, GET, MaxPath

MCRequests == BoundedSeq({a, b, x, Empty}, MaxPath) \ {<< >>}

Leaf(node) == [node |-> node, slot |-> "leaf"]
MCSubtrees == {Leaf(<< >>), [node |-> <<a>>, slot |-> "leaf_slash"]}
MCAdded == {Leaf(<<b>>)}
MCLists == {<<Leaf(<<b>>), Leaf(<<b, a>>)>>}
MCKeyLists == {<<All>>, <<GET>>}

\* A builder has no registrations to begin with.
MCBuilds == {[registrations |-> << >>, config |-> [active |-> TRUE, insensitive |-> FALSE]]}
=============================================================================
