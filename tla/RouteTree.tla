----------------------------- MODULE RouteTree -----------------------------
(***************************************************************************)
(* One compiled method view of the route table (Node in route_tree.rs) and *)
(* what matching a path against it means.                                  *)
(*                                                                         *)
(* A node is named by the edges that lead to it: a sequence of literal     *)
(* segments and Star (the wildcard edge).  A terminal is a node and one of *)
(* its three slots.  A view is a set of nodes and a rule for every         *)
(* terminal that is not empty.                                             *)
(*                                                                         *)
(* A path is its segments: "/" is <<Empty>>, "/a" is <<a>>, "/a/" is       *)
(* <<a, Empty>> and "/a//b" is <<a, Empty, b>>.                            *)
(***************************************************************************)
EXTENDS Integers, Sequences

CONSTANTS
  Segments,     \* non-empty path segments
  Empty,        \* the empty segment
  Star,         \* the wildcard edge
  Rules,        \* rule ids a terminal can carry, DENIED_RULE included
  DENIED_RULE,  \* the rule of a terminal that blocks
  DEFAULT_RULE  \* the rule of a path that matches nothing

ASSUME SegmentsAssumption == Empty \notin Segments /\ Star \notin Segments /\ Empty # Star
ASSUME RulesAssumption == DEFAULT_RULE \notin Rules

Paths == Seq(Segments \cup {Empty}) \ {<< >>}
Bare == <<Empty>>

Addresses == Seq(Segments \cup {Star})
Slots == {"leaf", "leaf_slash", "catchall"}
Terminals == [node : Addresses, slot : Slots]

\* A terminal's node is reached through nodes of the view.
IsView(view) ==
  /\ << >> \in view.nodes
  /\ \A n \in view.nodes :
       /\ n \in Addresses
       /\ \A d \in 0..Len(n) : SubSeq(n, 1, d) \in view.nodes
  /\ \A t \in DOMAIN view.rule :
       /\ t \in Terminals
       /\ t.node \in view.nodes
       /\ view.rule[t] \in Rules

(***************************************************************************)
(* Matching.                                                               *)
(***************************************************************************)
\* An edge takes a segment: a literal its own, the wildcard any that is not empty.
Takes(edge, segment) == edge = segment \/ (edge = Star /\ segment # Empty)

\* The edges of a node take the first segments of a path.
Fits(node, path) ==
  /\ Len(node) <= Len(path)
  /\ \A i \in 1..Len(node) : Takes(node[i], path[i])

\* What a node leaves of the path is nothing, one trailing slash, or more.
EndsAt(d, path) == d = Len(path)
SlashAt(d, path) == d + 1 = Len(path) /\ path[d + 1] = Empty
MoreAt(d, path) == d < Len(path) /\ ~SlashAt(d, path)

\* A terminal the path can claim.  The bare root claims the leaf of the root and
\* nothing else; the root has no trailing slash of its own.
Claims(t, path) ==
  LET d == Len(t.node)
  IN  IF path = Bare THEN d = 0 /\ t.slot = "leaf"
      ELSE /\ Fits(t.node, path)
           /\ \/ t.slot = "leaf" /\ EndsAt(d, path)
              \/ t.slot = "leaf_slash" /\ SlashAt(d, path) /\ d # 0
              \/ t.slot = "catchall" /\ MoreAt(d, path)

\* Precedence between two nodes that fit the same path: at the first edge that
\* differs, literal before wildcard, and both before stopping short (catch-all).
Precedes(m, n) ==
  \E k \in 1..Len(m) :
    /\ Len(n) >= k - 1
    /\ \A j \in 1..(k - 1) : m[j] = n[j]
    /\ \/ Len(n) = k - 1
       \/ Len(n) >= k /\ m[k] # Star /\ n[k] = Star

\* The terminals a path can claim in a view, one of them ignored (or none).
Candidates(view, path, ignored) == {t \in DOMAIN view.rule \ ignored : Claims(t, path)}

IsBest(t, candidates) ==
  t \in candidates /\ \A c \in candidates : ~Precedes(c.node, t.node)

\* The rule a path resolves to; a path that matches nothing has the default one.
RuleOf(view, path) ==
  LET candidates == Candidates(view, path, {})
  IN  IF candidates = {} THEN DEFAULT_RULE
      ELSE view.rule[CHOOSE t \in candidates : IsBest(t, candidates)]
=============================================================================
