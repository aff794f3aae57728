------------------------------- MODULE Reach -------------------------------
(***************************************************************************)
(* What rules lie beyond an anchor: covers, and the rules a path that      *)
(* extends an anchor can match.  Coverage.tla shows the walk of the code   *)
(* to gather exactly these.                                                *)
(***************************************************************************)
EXTENDS RouteTree

(***************************************************************************)
(* Covers: no rule, exactly one, or more than one.                         *)
(***************************************************************************)
None == [kind |-> "empty"]
Mixed == [kind |-> "mixed"]
Uniform(r) == [kind |-> "uniform", rule |-> r]

Covers == {None, Mixed} \cup {Uniform(r) : r \in Rules \cup {DEFAULT_RULE}}

Join(c, d) == IF c = None THEN d ELSE IF d = None \/ c = d THEN c ELSE Mixed

\* collect_identities: the rules of a subtree, with or without the leaf of its top.
Identities(view, n, leaf) ==
  {view.rule[t] : t \in {s \in DOMAIN view.rule :
     /\ Len(s.node) >= Len(n) /\ SubSeq(s.node, 1, Len(n)) = n
     /\ leaf \/ s # [node |-> n, slot |-> "leaf"]}}

Has(view, n, slot) == [node |-> n, slot |-> slot] \in DOMAIN view.rule

(***************************************************************************)
(* The rules a path extending an anchor can match, without a walk.         *)
(***************************************************************************)
Deep(n, anchor) == Len(n) = Len(anchor) /\ Fits(n, anchor)
Shallow(n, anchor) == Len(n) < Len(anchor) /\ Fits(n, anchor)

\* No extension of the anchor gets past this node.
Completes(view, n, anchor) ==
  /\ Has(view, n, "catchall")
  /\ \/ Shallow(n, anchor)
     \/ Deep(n, anchor) /\ Has(view, n, IF anchor = << >> THEN "leaf" ELSE "leaf_slash")

Live(view, n, anchor) == \A c \in view.nodes : Completes(view, c, anchor) => ~Precedes(c, n)

AnchorIds(view, anchor) ==
  LET live == {n \in view.nodes : Live(view, n, anchor)}
  IN  (UNION {Identities(view, n, anchor = << >>) : n \in {m \in live : Deep(m, anchor)}})
      \cup {view.rule[[node |-> n, slot |-> "catchall"]] :
              n \in {m \in live : Shallow(m, anchor) /\ Has(view, m, "catchall")}}
      \cup (IF \E n \in view.nodes : Completes(view, n, anchor) THEN {} ELSE {DEFAULT_RULE})

\* The cover of a set of rules.
CoverOf(S) ==
  IF S = {} THEN None
  ELSE IF \A r, s \in S : r = s THEN Uniform(CHOOSE r \in S : TRUE) ELSE Mixed
=============================================================================
