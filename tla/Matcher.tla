------------------------------ MODULE Matcher ------------------------------
(***************************************************************************)
(* The matcher (Router::at, route_skipping, descend): a depth-first walk   *)
(* of the tree with backtracking.  The call stack of route_skipping is the *)
(* path of edges to the current node, with one stage per call: the branch  *)
(* the call tries next.                                                    *)
(***************************************************************************)
EXTENDS RouteTree

CONSTANTS
  Views,        \* the views to match in
  Requests      \* the paths to match

ASSUME ViewsAssumption == \A v \in Views : IsView(v)
ASSUME RequestsAssumption == \A p \in Requests : p \in Paths

VARIABLES
  view, path,   \* the arguments
  ignored,      \* the terminal a diagnostic skips, or none (a set of at most one)
  node,         \* node of the innermost call
  stages,       \* stages[d + 1] is the next branch of the call at depth d
  outcome       \* Searching, NoMatch, or the terminal claimed

arguments == <<view, path, ignored>>
vars == <<view, path, ignored, node, stages, outcome>>

Searching == [found |-> FALSE, over |-> FALSE]
NoMatch   == [found |-> FALSE, over |-> TRUE]
Claimed(t) == [found |-> TRUE, over |-> TRUE, terminal |-> t]

Init ==
  /\ view \in Views
  /\ path \in Requests
  /\ \/ ignored = {}
     \/ /\ path # Bare
        /\ \E t \in DOMAIN view.rule : /\ IsBest(t, Candidates(view, path, {}))
                                       /\ ignored = {t}
  /\ node = << >>
  /\ stages = <<"literal">>
  /\ outcome = Searching

-----------------------------------------------------------------------------
Running == ~outcome.over /\ path # Bare

Depth == Len(node)
Stage == stages[Depth + 1]
Here  == path[Depth + 1]

\* Slip: the terminal to ignore claimed again.
AvailableEvenIgnored(n, slot) ==
  [node |-> n, slot |-> slot] \in DOMAIN view.rule

Available(n, slot) ==
  [node |-> n, slot |-> slot] \in DOMAIN view.rule \ ignored

Claim(n, slot) == outcome' = Claimed([node |-> n, slot |-> slot])

\* descend(child): a terminal of the child when the path ends there, else a call on
\* the child.  Whatever comes back empty-handed finds the caller at its next stage.
Descend(child, next) ==
  /\ UNCHANGED arguments
  /\ LET slot == IF EndsAt(Depth + 1, path) THEN "leaf" ELSE "leaf_slash"
     IN  IF MoreAt(Depth + 1, path)
           THEN /\ node' = child
                /\ stages' = Append([stages EXCEPT ![Depth + 1] = next], "literal")
                /\ UNCHANGED outcome
         ELSE IF Available(child, slot)
           THEN Claim(child, slot) /\ UNCHANGED <<node, stages>>
         ELSE /\ stages' = [stages EXCEPT ![Depth + 1] = next]
              /\ UNCHANGED <<node, outcome>>

\* There is no such branch: on to the next stage.
Skip(next) ==
  /\ stages' = [stages EXCEPT ![Depth + 1] = next]
  /\ UNCHANGED <<arguments, node, outcome>>

\* Slip: the wildcard is only tried where there is no literal.
TryLiteralInstead ==
  /\ Running /\ Stage = "literal"
  /\ LET child == Append(node, Here)
     IN  IF child \in view.nodes THEN Descend(child, "catchall") ELSE Skip("wildcard")

TryLiteral ==
  /\ Running /\ Stage = "literal"
  /\ LET child == Append(node, Here)
     IN  IF child \in view.nodes THEN Descend(child, "wildcard") ELSE Skip("wildcard")

\* The wildcard takes only a segment that is not empty.
TryWildcard ==
  /\ Running /\ Stage = "wildcard"
  /\ LET child == Append(node, Star)
     IN  IF Here # Empty /\ child \in view.nodes
           THEN Descend(child, "catchall") ELSE Skip("catchall")

\* Slip: the first dead end ends the walk.
TryCatchAllOnce ==
  /\ Running /\ Stage = "catchall"
  /\ IF Available(node, "catchall") THEN Claim(node, "catchall") ELSE outcome' = NoMatch
  /\ UNCHANGED <<arguments, node, stages>>

\* The catch-all takes the whole remainder; without one the call returns to its caller.
TryCatchAll ==
  /\ Running /\ Stage = "catchall"
  /\ UNCHANGED arguments
  /\ IF Available(node, "catchall")
       THEN Claim(node, "catchall") /\ UNCHANGED <<node, stages>>
     ELSE IF Depth = 0
       THEN outcome' = NoMatch /\ UNCHANGED <<node, stages>>
     ELSE /\ node' = SubSeq(node, 1, Depth - 1)
          /\ stages' = SubSeq(stages, 1, Depth)
          /\ UNCHANGED outcome

\* The bare root path never enters the walk.
MatchBareRoot ==
  /\ ~outcome.over /\ path = Bare
  /\ IF Available(<< >>, "leaf") THEN Claim(<< >>, "leaf") ELSE outcome' = NoMatch
  /\ UNCHANGED <<arguments, node, stages>>

Next == TryLiteral \/ TryWildcard \/ TryCatchAll \/ MatchBareRoot

\* One thread runs the recursion whenever it can.
Spec == Init /\ [][Next]_vars /\ WF_vars(Next)

-----------------------------------------------------------------------------
(***************************************************************************)
(* Properties.                                                             *)
(***************************************************************************)
Claimable == Candidates(view, path, ignored)

\* Type invariant: the call stack fits the path, always has a segment to read, and a
\* waiting call is in the branch before its next stage.
TypeOK ==
  /\ IF outcome.found THEN outcome = Claimed(outcome.terminal) /\ outcome.terminal \in Terminals
                      ELSE outcome \in {Searching, NoMatch}
  /\ path # Bare =>
       /\ node \in view.nodes
       /\ Fits(node, path)
       /\ MoreAt(Depth, path)
       /\ stages \in Seq({"literal", "wildcard", "catchall"})
       /\ Len(stages) = Depth + 1
       /\ \A i \in 1..Depth :
            \/ stages[i] = "wildcard" /\ node[i] = path[i]
            \/ stages[i] = "catchall" /\ node[i] = Star

\* The walk with backtracking claims the terminal of highest precedence among all
\* that match, and gives up only when none does: a branch that dead-ends deep in the
\* tree never hides a match elsewhere (route_skipping, descend).
ClaimsBestMatch ==
  outcome.over => IF outcome.found THEN IsBest(outcome.terminal, Claimable) ELSE Claimable = {}

\* While it searches, nothing that could be claimed lies in a branch already given up:
\* a claimable terminal that shares the first i - 1 edges with the current node goes on
\* through the branch call i is in or through one it has yet to try.
NothingGivenUp ==
  ~outcome.over /\ path # Bare =>
    \A t \in Claimable : \A i \in 1..(Depth + 1) :
      (Len(t.node) >= i /\ \A j \in 1..(i - 1) : t.node[j] = node[j]) =>
        \/ stages[i] = "literal"
        \/ stages[i] = "wildcard" /\ t.node[i] = Star
        \/ i <= Depth /\ t.node[i] = node[i]

\* To its caller the walk, with all its backtracking, is one step: whatever it does in
\* between changes nothing the caller sees, it answers once, with the best match or with
\* none when there is none, and it always answers (Router::at, Router::method_gap).
Caller == INSTANCE Lookup
ImplementsLookup == Caller!Spec
=============================================================================
