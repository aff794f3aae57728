----------------------------- MODULE MCBackend -----------------------------
(***************************************************************************)
(* The requests of MCGuard, longer ones of the few tokens that climb and    *)
(* split, and short ones with the spellings of a backslash, against a wide  *)
(* configuration and one that recognises fullwidth forms alone, in either   *)
(* mode, and every backend of the family.                                   *)
(***************************************************************************)
EXTENDS MCGuard, Backend

CONSTANTS Climbing, MaxClimbing, Spelled, MaxSpelled

Text(s) == <<Slash>> \o FlattenSeq([k \in DOMAIN s |-> Token(s[k])])

BackendRequests ==
  MCRequests
  \cup {Text(<<"a">> \o s) : s \in BoundedSeq(Climbing, MaxClimbing)}
  \cup {Text(s) : s \in BoundedSeq(Spelled, MaxSpelled)}

\* The tables of MCGuard, one of them with a backslash and with escapes in literals.
BackendTables ==
  (MCTables \ {ViewOf(Crossing)})
  \cup {ViewOf(Crossing \cup {<<<<<<Backslash>>, SegA>>, "leaf", 1>>,
                              <<<<Token("%61") \o Token("%61")>>, "leaf", 2>>})}

\* Of all recognitions only that of fullwidth forms.
Fullwidth(mode) == [Conf(mode, FALSE, FALSE, FALSE, 100, << >>) EXCEPT !.enc.unicode = TRUE]

BackendConfigs ==
  {Conf("RejectAmbiguous", TRUE, TRUE, TRUE, 100, << >>),
   Conf("RequireCanonical", TRUE, TRUE, TRUE, 100, << >>),
   Fullwidth("RejectAmbiguous"), Fullwidth("RequireCanonical")}
=============================================================================
