------------------------------ MODULE Coverage ------------------------------
(***************************************************************************)
(* The coverage query (Router::anchor_cover and its diagnostic twin        *)
(* anchor_identities): which rules can a path that extends an anchor       *)
(* reach?  A depth-first walk along the anchor's segments that stops at    *)
(* the first branch covering every extension; below the anchor it reads    *)
(* the summaries computed when the view was compiled.                      *)
(*                                                                         *)
(* The two walks of the code visit the same nodes in the same order; one   *)
(* joins covers ("cover"), the other collects rule ids ("ids").            *)
(***************************************************************************)
EXTENDS Reach, FiniteSetsExt

CONSTANTS
  Views,      \* the views to query
  Anchors,    \* the anchors: non-empty segments; the root anchor is << >>
  Remainders  \* what a backend may make of the rest of a path

ASSUME ViewsAssumption == \A v \in Views : IsView(v)
ASSUME ViewsFinite == \A v \in Views : IsFiniteSet(v.nodes)
ASSUME AnchorsAssumption == \A q \in Anchors : q \in Seq(Segments)
ASSUME RemaindersAssumption == \A s \in Remainders : s \in Paths

-----------------------------------------------------------------------------
JoinAll(covers) == FoldSet(Join, None, covers)

Slot(view, n, slot) ==
  LET t == [node |-> n, slot |-> slot]
  IN  IF t \in DOMAIN view.rule THEN Uniform(view.rule[t]) ELSE None

\* Slip: the summary of an anchor counts its own leaf, which no extension claims.
SummaryWithLeaf(view) ==
  LET Children(n) == {m \in view.nodes : Len(m) = Len(n) + 1 /\ SubSeq(m, 1, Len(n)) = n}
      all[n \in view.nodes] ==
        LET whole == JoinAll({Slot(view, n, slot) : slot \in Slots} \cup {all[m].all : m \in Children(n)})
        IN  [below |-> whole, all |-> whole]
  IN  all

\* summarize: the cover below a node without and with its own leaf, bottom-up over
\* its children.
Summary(view) ==
  LET Children(n) == {m \in view.nodes : Len(m) = Len(n) + 1 /\ SubSeq(m, 1, Len(n)) = n}
      all[n \in view.nodes] ==
        LET below == JoinAll({Slot(view, n, "leaf_slash"), Slot(view, n, "catchall")}
                             \cup {all[m].all : m \in Children(n)})
        IN  [below |-> below, all |-> Join(below, Slot(view, n, "leaf"))]
  IN  all

-----------------------------------------------------------------------------
VARIABLES
  view, anchor,    \* the arguments
  node, stages,    \* the call stack, as in Matcher
  cover, ids,      \* what the two walks have gathered
  status           \* "walking", then "complete" or "open"

arguments == <<view, anchor>>
vars == <<view, anchor, node, stages, cover, ids, status>>

Init ==
  /\ view \in Views
  /\ anchor \in Anchors
  /\ node = << >>
  /\ stages = <<"literal">>
  /\ cover = None
  /\ ids = {}
  /\ status = "walking"

Depth == Len(node)
Stage == stages[Depth + 1]
Here  == anchor[Depth + 1]
Walking == status = "walking" /\ anchor # << >>

Gather(c, S) == cover' = Join(cover, c) /\ ids' = ids \cup S

\* The answer of an incomplete walk also holds the default rule.
Open(c, S) ==
  /\ status' = "open"
  /\ Gather(Join(c, Uniform(DEFAULT_RULE)), S \cup {DEFAULT_RULE})

Then(next) == stages' = [stages EXCEPT ![Depth + 1] = next]

\* Slips: a catch-all alone ends the walk, though a trailing slash passes it by; a
\* missing child holds the walk up.
BranchOnCatchAll(child, next) ==
  /\ UNCHANGED arguments
  /\ IF child \notin view.nodes
       THEN Then(next) /\ UNCHANGED <<node, cover, ids, status>>
     ELSE IF Depth + 1 < Len(anchor)
       THEN /\ node' = child
            /\ stages' = Append([stages EXCEPT ![Depth + 1] = next], "literal")
            /\ UNCHANGED <<cover, ids, status>>
     ELSE /\ Gather(Summary(view)[child].below, Identities(view, child, FALSE))
          /\ status' = IF Has(view, child, "catchall") THEN "complete" ELSE status
          /\ Then(next)
          /\ UNCHANGED node

BranchStays(child, next) ==
  /\ UNCHANGED <<arguments, node, cover, ids, status>>
  /\ IF child \notin view.nodes THEN UNCHANGED stages ELSE Then(next)

\* A branch on a segment of the anchor: deeper, or at the anchor's depth its summary.
\* A complete branch ends the whole walk: every caller returns at once.
Branch(child, next) ==
  /\ UNCHANGED arguments
  /\ IF child \notin view.nodes
       THEN Then(next) /\ UNCHANGED <<node, cover, ids, status>>
     ELSE IF Depth + 1 < Len(anchor)
       THEN /\ node' = child
            /\ stages' = Append([stages EXCEPT ![Depth + 1] = next], "literal")
            /\ UNCHANGED <<cover, ids, status>>
     ELSE /\ Gather(Summary(view)[child].below, Identities(view, child, FALSE))
          /\ status' = IF Has(view, child, "catchall") /\ Has(view, child, "leaf_slash")
                         THEN "complete" ELSE status
          /\ Then(next)
          /\ UNCHANGED node

WalkLiteral ==
  /\ Walking /\ Stage = "literal"
  /\ Branch(Append(node, Here), "wildcard")

WalkWildcard ==
  /\ Walking /\ Stage = "wildcard"
  /\ Branch(Append(node, Star), "catchall")

\* Slip: a catch-all above the anchor forgotten.
WalkPastCatchAll ==
  /\ Walking /\ Stage = "catchall"
  /\ UNCHANGED arguments
  /\ IF Depth = 0
       THEN Open(None, {}) /\ UNCHANGED <<node, stages>>
     ELSE /\ node' = SubSeq(node, 1, Depth - 1)
          /\ stages' = SubSeq(stages, 1, Depth)
          /\ UNCHANGED <<cover, ids, status>>

\* A catch-all on the way covers every extension that reaches it.
WalkCatchAll ==
  /\ Walking /\ Stage = "catchall"
  /\ UNCHANGED arguments
  /\ IF Has(view, node, "catchall")
       THEN /\ Gather(Slot(view, node, "catchall"), {view.rule[[node |-> node, slot |-> "catchall"]]})
            /\ status' = "complete"
            /\ UNCHANGED <<node, stages>>
     ELSE IF Depth = 0
       THEN Open(None, {}) /\ UNCHANGED <<node, stages>>
     ELSE /\ node' = SubSeq(node, 1, Depth - 1)
          /\ stages' = SubSeq(stages, 1, Depth)
          /\ UNCHANGED <<cover, ids, status>>

\* The root anchor takes the whole view, the bare "/" included.
CoverRoot ==
  /\ status = "walking" /\ anchor = << >>
  /\ LET c == Summary(view)[<< >>].all
         S == Identities(view, << >>, TRUE)
     IN  IF Has(view, << >>, "leaf") /\ Has(view, << >>, "catchall")
           THEN Gather(c, S) /\ status' = "complete"
           ELSE Open(c, S)
  /\ UNCHANGED <<arguments, node, stages>>

Next == WalkLiteral \/ WalkWildcard \/ WalkCatchAll \/ CoverRoot

\* One thread runs the walk whenever it can.
Spec == Init /\ [][Next]_vars /\ WF_vars(Next)

-----------------------------------------------------------------------------
(***************************************************************************)
(* Properties.                                                             *)
(***************************************************************************)
\* The cached summaries and the diagnostic walk never disagree: the cover the verdict
\* compares is the cover of the ids an explanation shows (anchor_cover and
\* anchor_identities).
CoverAgrees == cover = CoverOf(ids)

\* The walk gathers every live branch and nothing behind a complete one, and adds the
\* default rule exactly when no branch is complete.
WalkCollects == status # "walking" => ids = AnchorIds(view, anchor)

\* The premise of the scoped verdict: whatever path a backend makes out of the anchor
\* by appending to it, the rule it matches is one the walk reported, backtracking and
\* fall-through to the default rule included.
NoRuleOutsideCover ==
  status # "walking" =>
    \A remainder \in Remainders : RuleOf(view, anchor \o remainder) \in ids

\* The walk always returns.
Terminates == <>(status # "walking")
=============================================================================
