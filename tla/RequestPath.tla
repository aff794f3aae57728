---------------------------- MODULE RequestPath ----------------------------
(***************************************************************************)
(* The bytes of a path as the route tree reads them: a segment is the      *)
(* sequence of its bytes, and a path that does not start with a slash      *)
(* matches nothing.                                                        *)
(***************************************************************************)
EXTENDS Percent, RouteTree

Asterisk == 42

\* The segments after the leading slash.
PathOf(b) ==
  LET slashes == InOrder({i \in 1..Len(b) : b[i] = Slash}, Len(b))
      cuts    == Append(slashes, Len(b) + 1)
  IN  [k \in 1..Len(slashes) |-> SubSeq(b, cuts[k] + 1, cuts[k + 1] - 1)]

Rooted(b) == b # << >> /\ b[1] = Slash

Resolve(table, b) == IF Rooted(b) THEN RuleOf(table, PathOf(b)) ELSE DEFAULT_RULE

IsRequestPath(b) == (Rooted(b) \/ b = <<Asterisk>>) /\ \A i \in DOMAIN b : b[i] \notin {Question, Hash}
=============================================================================
