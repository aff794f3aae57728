------------------------------- MODULE Lookup -------------------------------
(***************************************************************************)
(* What a lookup promises its caller, without the walk: one answer, the    *)
(* best match or none, in any view and for any path.  Matcher implements   *)
(* it.                                                                     *)
(***************************************************************************)
EXTENDS RouteTree

VARIABLES view, path, ignored, outcome

vars == <<view, path, ignored, outcome>>

Searching == [found |-> FALSE, over |-> FALSE]
NoMatch   == [found |-> FALSE, over |-> TRUE]
Claimed(t) == [found |-> TRUE, over |-> TRUE, terminal |-> t]

\* A diagnostic (never about the bare root) ignores the terminal a lookup before it
\* has claimed.
Init ==
  /\ IsView(view)
  /\ path \in Paths
  /\ \/ ignored = {}
     \/ /\ path # Bare
        /\ \E t \in DOMAIN view.rule : /\ IsBest(t, Candidates(view, path, {}))
                                       /\ ignored = {t}
  /\ outcome = Searching

Answer ==
  /\ outcome = Searching
  /\ LET candidates == Candidates(view, path, ignored)
     IN  \/ \E t \in candidates : IsBest(t, candidates) /\ outcome' = Claimed(t)
         \/ candidates = {} /\ outcome' = NoMatch
  /\ UNCHANGED <<view, path, ignored>>

Safety == Init /\ [][Answer]_vars

Spec == Safety /\ WF_vars(Answer)
=============================================================================
