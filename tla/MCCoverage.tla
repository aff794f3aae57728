----------------------------- MODULE MCCoverage -----------------------------
(***************************************************************************)
(* Every view of up to MaxPatterns terminals over one literal and the      *)
(* wildcard with every assignment of two rules, every anchor of up to       *)
(* MaxAnchor segments that a literal takes or only the wildcard does, and   *)
(* every continuation of up to MaxRemainder segments.                          *)
(***************************************************************************)
EXTENDS Coverage, SequencesExt

CONSTANTS a, x, Literals, MaxDepth, MaxPatterns, MaxAnchor, MaxRemainder

NodeNames == BoundedSeq(Literals \cup {Star}, MaxDepth)
AllTerminals == [node : NodeNames, slot : Slots]

MCAnchors == BoundedSeq(Segments, MaxAnchor)
MCRemainders == BoundedSeq(Segments \cup {Empty}, MaxRemainder) \ {<< >>}

ViewsOf(T) ==
  LET nodes == {<< >>} \cup UNION {{SubSeq(t.node, 1, d) : d \in 0..Len(t.node)} : t \in T}
  IN  {[nodes |-> nodes, rule |-> f] : f \in [T -> Rules]}

MCViews == UNION {ViewsOf(T) : T \in UNION {kSubset(k, AllTerminals) : k \in 1..MaxPatterns}}
=============================================================================
