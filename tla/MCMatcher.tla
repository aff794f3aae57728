----------------------------- MODULE MCMatcher -----------------------------
(***************************************************************************)
(* Every table of up to MaxPatterns patterns over one literal and the      *)
(* wildcard, every path up to a bounded length that can match, miss or     *)
(* carry empty segments, and the best terminal skipped or not.              *)
(***************************************************************************)
EXTENDS Matcher, SequencesExt, FiniteSetsExt

CONSTANTS a, x, Literals, MaxDepth, MaxPatterns, MaxPath

Nodes == BoundedSeq(Literals \cup {Star}, MaxDepth)
AllTerminals == [node : Nodes, slot : Slots]

MCRequests == BoundedSeq(Segments \cup {Empty}, MaxPath) \ {<< >>}

\* The view of a set of terminals, all of one rule: which rule is not the matcher's concern.
ViewOf(T) ==
  [nodes |-> {<< >>} \cup UNION {{SubSeq(t.node, 1, d) : d \in 0..Len(t.node)} : t \in T},
   rule  |-> [t \in T |-> CHOOSE r \in Rules : TRUE]]

Tables == UNION {kSubset(k, AllTerminals) : k \in 1..MaxPatterns}

MCViews == {ViewOf(T) : T \in Tables}
=============================================================================
