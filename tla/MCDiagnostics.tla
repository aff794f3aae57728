--------------------------- MODULE MCDiagnostics ---------------------------
(***************************************************************************)
(* The registrations of MCRegistration, built and left; and, built and     *)
(* linted, every pair of single patterns, the first with or without a rule *)
(* for one method and the second serving all, two or an extension method,  *)
(* and triples whose third pattern may spell the name meant for captures.  *)
(***************************************************************************)
EXTENDS MCRegistration, Diagnostics

CONSTANTS c1, c2, EXT

MCStandard == <<GET, POST>>
MCCaptures == <<c1, c2>>

Open(patterns, rules, inherit) == Reg(patterns, rules, FALSE, inherit)

LintPatterns == {T(n, s) : n \in BoundedSeq({a, Star}, MaxDepth), s \in Slots}
Blocking == {<< >>, <<<<GET>>>>}
\* Whether a pattern with a rule for every method inherits makes no difference.
Serving == {<<<<<<All>>>>, FALSE>>} \cup {<<q, i>> : q \in {<<<<GET>>, <<POST>>>>, <<<<EXT>>>>}, i \in BOOLEAN}

Pairs == {<<Open(<<t>>, r, FALSE), Open(<<u>>, q[1], q[2])>> :
            t \in LintPatterns, u \in LintPatterns, r \in Blocking, q \in Serving}

Thirds == {T(<<c1>>, "leaf"), T(<<a, Star>>, "leaf"), T(<<Star>>, "catchall")}
Triples == {<<Open(<<t>>, << >>, FALSE), Open(<<u>>, <<<<GET, EXT>>>>, i), Open(<<w>>, q, i)>> :
              t \in {T(n, s) : n \in {<<a>>, <<Star>>, <<a, Star>>}, s \in Slots},
              u \in {T(n, s) : n \in {<< >>, <<Star>>}, s \in Slots},
              w \in Thirds, q \in {<< >>, <<<<POST>>>>}, i \in BOOLEAN}

Linted == Under([active |-> FALSE, insensitive |-> FALSE, diagnose |-> TRUE], Pairs \cup Triples)
BuiltOrLinted == MCBuilds \cup Linted
=============================================================================
