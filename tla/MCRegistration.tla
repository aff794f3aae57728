--------------------------- MODULE MCRegistration ---------------------------
(***************************************************************************)
(* Four families of registrations: an exclusive catch-all beside every     *)
(* pattern, pairs of method tables on nearby terminals, chains of three    *)
(* that inherit, and the ways a registration can be wrong on its own.      *)
(***************************************************************************)
EXTENDS Registration, SequencesExt

CONSTANTS a, b, x, Structured, Upper, GET, POST, Bad, MaxDepth, MaxPath

MCRequests == BoundedSeq({a, b, x, Empty}, MaxPath) \ {<< >>}

T(node, slot) == [node |-> node, slot |-> slot]
AllPatterns == {T(n, s) : n \in BoundedSeq({a, b, Star}, MaxDepth), s \in Slots}

Reg(patterns, rules, exclusive, inherit) ==
  [patterns |-> patterns, rules |-> rules, exclusive |-> exclusive, inherit |-> inherit]

Plain == [active |-> TRUE, insensitive |-> FALSE, diagnose |-> FALSE]
Settings == {Plain, [Plain EXCEPT !.insensitive = TRUE], [Plain EXCEPT !.active = FALSE, !.insensitive = TRUE]}

Under(setting, seqs) == {[registrations |-> s, config |-> setting] : s \in seqs}

Subtree(node) == <<T(node, "leaf"), T(node, "leaf_slash"), T(node, "catchall")>>

ExclusivePairs ==
  {<<Reg(<<T(n, "catchall")>>, <<<<All>>>>, TRUE, FALSE), Reg(<<t>>, <<<<GET>>>>, FALSE, i)>> :
     n \in BoundedSeq({a, Star}, MaxDepth), t \in AllPatterns, i \in BOOLEAN}

Tables == {<< >>, <<<<All>>>>, <<<<GET>>>>, <<<<GET, POST>>, <<All>>>>}

NearbyTerminals == {T(n, s) : n \in {<<a>>, <<Star>>}, s \in {"leaf", "catchall"}} \cup {T(<<a>>, "leaf_slash")}
MethodPairs ==
  {<<Reg(Subtree(<< >>), r, FALSE, i), Reg(<<t, T(<<a, Star>>, "leaf")>>, q, FALSE, j), Reg(<<u>>, <<<<POST>>>>, FALSE, j)>> :
     t \in NearbyTerminals, u \in NearbyTerminals, r \in Tables, q \in Tables, i \in BOOLEAN, j \in BOOLEAN}

Chain == {T(<<a>>, "leaf"), T(<<Star>>, "leaf"), T(<< >>, "catchall")}
Links == {Reg(<<t>>, r, FALSE, i) : t \in Chain, r \in {<< >>, <<<<All>>>>, <<<<GET>>>>}, i \in BOOLEAN}
Chains == {<<l, m, n>> : l \in Links, m \in Links, n \in Links}

Faulty ==
  {Reg(<< >>, <<<<All>>>>, FALSE, FALSE), Reg(<<T(<<a>>, "leaf")>>, <<<<All>>, << >>>>, FALSE, FALSE),
   Reg(<<Bad>>, << >>, FALSE, FALSE), Reg(<<T(<<b>>, "leaf"), T(<<b>>, "leaf")>>, <<<<All>>>>, FALSE, FALSE),
   Reg(<<T(<<b>>, "leaf"), T(<<b>>, "leaf")>>, << >>, FALSE, TRUE),
   Reg(<<T(<<b>>, "leaf")>>, <<<<GET, GET>>>>, FALSE, FALSE),
   Reg(<<T(<<b>>, "leaf")>>, <<<<GET>>, <<POST>>, <<All>>>>, FALSE, FALSE),
   Reg(<<T(<<a, Structured>>, "leaf")>>, <<<<All>>>>, FALSE, FALSE),
   Reg(<<T(<<Upper, Star>>, "leaf_slash")>>, <<<<All>>>>, FALSE, FALSE),
   Reg(<<T(<<Upper, Structured>>, "catchall")>>, << >>, TRUE, FALSE),
   Reg(<<T(<<a>>, "leaf")>>, <<<<GET>>, <<POST>>>>, FALSE, TRUE)}

MCBuilds ==
  Under(Plain, ExclusivePairs \cup MethodPairs \cup Chains)
  \cup UNION {Under(s, {<<f>> : f \in Faulty} \cup {<<f, g>> : f \in Faulty, g \in Faulty}) : s \in Settings}
=============================================================================
