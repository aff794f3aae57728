------------------------------ MODULE Explain ------------------------------
(***************************************************************************)
(* Explaining a request (RuleRouter::explain): the raw match of the        *)
(* original spelling, then the checks of the guard, then, for a structural *)
(* denial, the coverage it was judged by.  Match and coverage are computed *)
(* again, apart from the verdict they are to explain.                      *)
(***************************************************************************)
EXTENDS Guard

VARIABLES
  raw_match,    \* what inspect_raw found, or none (a set)
  structural_explanation,   \* the coverage shown, or none (a set)
  returned

allvars == <<vars, raw_match, structural_explanation, returned>>

EInit == Init /\ raw_match = {} /\ structural_explanation = {} /\ returned = FALSE

MethodDenied == [kind |-> "MethodDenied"]
Default      == [kind |-> "Default"]
Matched(id)  == [kind |-> "Matched", id |-> id]

\* Slip: a blocking method gap shown like any match.
InspectAny ==
  /\ raw_match = {} /\ ~returned
  /\ IF ~IsRequestPath(request) THEN returned' = TRUE /\ UNCHANGED raw_match
     ELSE /\ raw_match' = {IF RawRule = DEFAULT_RULE THEN Default ELSE Matched(RawRule)}
          /\ UNCHANGED returned
  /\ UNCHANGED <<vars, structural_explanation>>

\* inspect_raw; what is no request path is an error of the call itself.
InspectRaw ==
  /\ raw_match = {} /\ ~returned
  /\ IF ~IsRequestPath(request) THEN returned' = TRUE /\ UNCHANGED raw_match
     ELSE /\ raw_match' = {IF RawRule = DENIED_RULE THEN MethodDenied
                           ELSE IF RawRule = DEFAULT_RULE THEN Default
                           ELSE Matched(RawRule)}
          /\ UNCHANGED returned
  /\ UNCHANGED <<vars, structural_explanation>>

\* checked, once the raw match is known.
Check == raw_match # {} /\ Next /\ UNCHANGED <<raw_match, structural_explanation, returned>>

Coverage(anchor) ==
  LET ids == RulesBeyond(table, anchor)
  IN  [anchor                 |-> anchor,
       registrations          |-> ids \ {DEFAULT_RULE, DENIED_RULE},
       includes_default       |-> DEFAULT_RULE \in ids,
       includes_method_denial |-> DENIED_RULE \in ids]

\* explain, once the verdict is known (structural_explanation).
Return ==
  /\ Done /\ raw_match # {} /\ ~returned
  /\ structural_explanation' =
       IF ~verdict.allowed /\ verdict.reason[1] = "Structural"
         THEN {Coverage(q) : q \in StructuralAnchor(config, request)} ELSE {}
  /\ returned' = TRUE
  /\ UNCHANGED <<vars, raw_match>>

ENext == InspectRaw \/ Check \/ Return

ESpec == EInit /\ [][ENext]_allvars

\* ResolveError::kind, by the reason's name.
Kind(reason) ==
  CASE reason[1] = "InvalidRuleId"       -> "Internal"
    [] reason[1] = "MethodNotConfigured" -> "PolicyDenied"
    [] OTHER                             -> "InvalidInput"

(***************************************************************************)
(* Properties.                                                             *)
(***************************************************************************)
Explained == returned /\ raw_match # {}
Denied == ~verdict.allowed

\* The rules the explanation names.
Shown(e) == e.registrations \cup (IF e.includes_default THEN {DEFAULT_RULE} ELSE {})
                           \cup (IF e.includes_method_denial THEN {DENIED_RULE} ELSE {})
Identity(match) == CASE match.kind = "Matched"      -> match.id
                     [] match.kind = "Default"      -> DEFAULT_RULE
                     [] match.kind = "MethodDenied" -> DENIED_RULE

\* The raw match shown beside a verdict is the match the verdict is about: an answered
\* request has no denial and the rule it would get, a policy denial is one of the
\* original spelling, and a method gap in the original spelling is never answered
\* (inspect_raw and rule_for_id map the same id separately).
RawMatchAgrees ==
  Explained =>
    \A match \in raw_match :
      /\ ~Denied => Identity(match) = verdict.rule
      /\ (Denied /\ Kind(verdict.reason) = "PolicyDenied") => match = MethodDenied
      /\ match = MethodDenied => Denied

\* Coverage is shown for exactly the structural denials that were judged by it, and
\* shows the reason: the anchor is the one the verdict used, and beyond it lies some
\* rule other than the raw match (structural_anchor restates the early returns of
\* positional_deny and scans again).
ExplanationTellsWhy ==
  Explained =>
    /\ structural_explanation # {} <=>
         Denied /\ verdict.reason[1] = "Structural" /\ "Truncation" \notin structural.classes
    /\ \A e \in structural_explanation, match \in raw_match :
         /\ e.anchor = AnchorFor(request, structural, config.insensitive)
         /\ Shown(e) \ {Identity(match)} # {}
=============================================================================
