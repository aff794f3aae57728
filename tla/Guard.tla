------------------------------- MODULE Guard -------------------------------
(***************************************************************************)
(* The verdict on one request (RuleRouter::resolve over                    *)
(* PathConfusionGuard::checked): validate the input, scan and route every  *)
(* permitted interpretation, judge the structural findings against the     *)
(* rules beyond the anchor, ask the custom probes, and only then hand out  *)
(* the rule of the original spelling.                                      *)
(*                                                                         *)
(* Router and scanner are used through what Matcher, Coverage and Scanner  *)
(* show them to compute: RuleOf, AnchorIds and ScanOf.  Here a segment is  *)
(* the sequence of its bytes.  "No rule" of the code is DEFAULT_RULE.      *)
(***************************************************************************)
EXTENDS Permission

CONSTANTS
  Tables,        \* the method views to route in
  Configs,       \* the guard configurations
  Requests       \* the request paths

ASSUME TablesAssumption == \A v \in Tables : IsView(v)
ASSUME ConfigsAssumption == \A c \in Configs : c \in Config
ASSUME RequestsAssumption ==
  \A r \in Requests : r \in Seq(Byte) /\ r # << >> /\ Len(r) < NoOffset

Denial(reason) == [allowed |-> FALSE, reason |-> reason]
Allowed(rule)  == [allowed |-> TRUE, rule |-> rule]

-----------------------------------------------------------------------------
VARIABLES
  table, config, request,   \* the arguments
  stage,        \* "input", "interpret", "positional", "strict", "probe", "answer", "done"
  depth,        \* interpretations seen
  structural,   \* their joined scan results
  relocation,   \* the first relocation found, or none (a set)
  verdict       \* meaningful when done

arguments == <<table, config, request>>
vars == <<table, config, request, stage, depth, structural, relocation, verdict>>

Undecided == [allowed |-> FALSE, reason |-> <<"Undecided">>]

Init ==
  /\ table \in Tables
  /\ config \in Configs
  /\ request \in Requests
  /\ stage = "input"
  /\ depth = 0
  /\ structural = EmptyResult
  /\ relocation = {}
  /\ verdict = Undecided

RawRule == Resolve(table, request)
TooLong == Len(request) > config.max_len

Deny(reason) == verdict' = Denial(reason) /\ stage' = "done"
Goto(next) == stage' = next /\ UNCHANGED verdict

\* Slip: a long path denied though there is nothing in it to analyse.
ValidateInputByLength ==
  /\ stage = "input"
  /\ IF ~IsRequestPath(request) THEN Deny(<<"InvalidPathInput">>)
     ELSE IF config.mode = "Disabled" THEN Goto("answer")
     ELSE IF TooLong THEN Deny(<<"TooLong">>)
     ELSE Goto(IF config.mode = "RejectAmbiguous" THEN "interpret" ELSE "strict")
  /\ UNCHANGED <<arguments, depth, structural, relocation>>

ValidateInput ==
  /\ stage = "input"
  /\ IF ~IsRequestPath(request) THEN Deny(<<"InvalidPathInput">>)
     ELSE CASE config.mode = "Disabled"         -> Goto("answer")
            [] config.mode = "RejectAmbiguous"  ->
                 IF TooLong /\ \E i \in DOMAIN request : request[i] = PercentSign
                   THEN Deny(<<"TooLong">>) ELSE Goto("interpret")
            [] config.mode = "RequireCanonical" ->
                 IF TooLong /\ HasEscape(request) THEN Deny(<<"TooLong">>) ELSE Goto("strict")
  /\ UNCHANGED <<arguments, depth, structural, relocation>>

\* interpretation_rule_deny: the denials of routing one interpretation.
RuleDeny(view) ==
  LET folds == config.insensitive /\ HasUppercase(view.bytes)
      bytes == IF folds THEN Lowered(view.bytes) ELSE view.bytes
  IN  IF ~view.decoded /\ ~folds THEN {}
      ELSE IF TooLong THEN {<<"TooLong">>}
      ELSE IF Resolve(table, bytes) = RawRule THEN {}
      ELSE IF view.decoded THEN {<<"DecodeRuleChange">>} ELSE {<<"CaseFoldRuleChange">>}

\* The closure of interpretations_deny on the next interpretation.
Interpret ==
  LET views == Interpretations(request, config.up_to_two)
      view  == views[depth + 1]
      found == Include(structural, ScanOf(view, Positional(config), config.enc))
      settled == \/ "Truncation" \in found.classes
                 \/ TooLong /\ found.classes \cap Positional(config) # {}
  IN  /\ stage = "interpret"
      /\ structural' = found
      /\ relocation' = IF settled \/ relocation # {} THEN relocation ELSE RuleDeny(view)
      /\ depth' = depth + 1
      /\ Goto(IF depth + 1 = Len(views) THEN "positional" ELSE "interpret")
      /\ UNCHANGED arguments

\* Slip: the relocation found on the way forgotten.
JudgePositionsOnly ==
  LET present == structural.classes \cap Positional(config)
      anchor  == AnchorFor(request, structural, config.insensitive)
      safe    == "Truncation" \notin present /\ RulesBeyond(table, anchor) = {RawRule}
  IN  /\ stage = "positional"
      /\ IF present # {} /\ TooLong THEN Deny(<<"TooLong">>)
         ELSE IF present # {} /\ ~safe THEN Deny(<<"Structural", PrimaryClass(present)>>)
         ELSE Goto("probe")
      /\ UNCHANGED <<arguments, depth, structural, relocation>>

\* positional_deny, then the relocation found on the way.
JudgePositions ==
  LET present == structural.classes \cap Positional(config)
      anchor  == AnchorFor(request, structural, config.insensitive)
      safe    == /\ "Truncation" \notin present
                 /\ structural.earliest # NoOffset
                 /\ RulesBeyond(table, anchor) = {RawRule}
  IN  /\ stage = "positional"
      /\ IF present # {} /\ TooLong THEN Deny(<<"TooLong">>)
         ELSE IF present # {} /\ ~safe THEN Deny(<<"Structural", PrimaryClass(present)>>)
         ELSE IF relocation # {} THEN Deny(CHOOSE reason \in relocation : TRUE)
         ELSE Goto("probe")
      /\ UNCHANGED <<arguments, depth, structural, relocation>>

\* Slip: an escape without structure passes for canonical.
RequireCanonicalStructure ==
  LET present == ScanAll(config, request, Strict(config)).classes \cap Strict(config)
  IN  /\ stage = "strict"
      /\ IF present # {} THEN Deny(<<"NonCanonical", PrimaryClass(present)>>) ELSE Goto("probe")
      /\ UNCHANGED <<arguments, depth, structural, relocation>>

\* noncanonical_deny, then escape_present.
RequireCanonical ==
  LET present == ScanAll(config, request, Strict(config)).classes \cap Strict(config)
  IN  /\ stage = "strict"
      /\ IF present # {} /\ TooLong THEN Deny(<<"TooLong">>)
         ELSE IF present # {} THEN Deny(<<"NonCanonical", PrimaryClass(present)>>)
         ELSE IF HasEscape(request) THEN Deny(<<"NonCanonicalEscape">>)
         ELSE Goto("probe")
      /\ UNCHANGED <<arguments, depth, structural, relocation>>

\* Slip: the last probe that matches named in place of the first.
LastMatch == CHOOSE k \in DOMAIN config.probes :
               config.probes[k] /\ \A j \in DOMAIN config.probes : j > k => ~config.probes[j]

FirstMatch == CHOOSE k \in DOMAIN config.probes :
                config.probes[k] /\ \A j \in 1..(k - 1) : ~config.probes[j]

AskProbes ==
  /\ stage = "probe"
  /\ IF config.probes = << >> THEN Goto("answer")
     ELSE IF TooLong THEN Deny(<<"TooLong">>)
     ELSE IF TRUE \in Range(config.probes) THEN Deny(<<"Probe", FirstMatch>>)
     ELSE Goto("answer")
  /\ UNCHANGED <<arguments, depth, structural, relocation>>

Answer ==
  /\ stage = "answer"
  /\ stage' = "done"
  /\ verdict' = IF RawRule = DENIED_RULE THEN Denial(<<"MethodNotConfigured">>) ELSE Allowed(RawRule)
  /\ UNCHANGED <<arguments, depth, structural, relocation>>

Next == ValidateInput \/ Interpret \/ JudgePositions \/ RequireCanonical \/ AskProbes \/ Answer

Spec == Init /\ [][Next]_vars

-----------------------------------------------------------------------------
Done == stage = "done"

Promise == INSTANCE Gate WITH outcome <-
  IF ~Done THEN [decided |-> FALSE]
  ELSE IF verdict.allowed THEN [decided |-> TRUE, allowed |-> TRUE, rule |-> verdict.rule]
  ELSE [decided |-> TRUE, allowed |-> FALSE]

(***************************************************************************)
(* Properties.                                                             *)
(***************************************************************************)

\* The pipeline with its early returns, shared lazy match and accumulated findings
\* decides as Gate does in one step: it permits a request exactly when no
\* reinterpretation can reach another rule, and then answers the rule of the original
\* spelling (checked, interpretations_deny, positional_deny, noncanonical_deny,
\* custom_probe_deny).
ImplementsGate == Promise!Safety

\* Two exceptions apart (FoldedAway, StrayPercentOverBudget), turning any knob to its
\* stricter side never turns a denial into an answer: class, encoding, decode depth, case,
\* budget, probe and mode.  The contract (docs/reference/contract.md:77) and the tests
\* l2_monotone and l5_noncanonical_dominates (guard.rs) make no exception.
StricterOnlyDenies ==
  (Done /\ verdict.allowed) =>
    \A d \in Configs : AtLeastAsStrict(config, d) =>
      \/ Permits(table, d, request)
      \/ FoldedAway(table, config, d, request)
      \/ StrayPercentOverBudget(config, d, request)

\* A plain path is never denied for its spelling, whatever the table and the
\* configuration: only a method gap or a probe can deny it.
PlainPasses ==
  (Done /\ Plain(request) /\ config.probes = << >>) =>
    verdict = IF RawRule = DENIED_RULE THEN Denial(<<"MethodNotConfigured">>) ELSE Allowed(RawRule)

\* A custom probe denies only what everything before it would have let through, and the
\* denial names the first one that matches (checked, custom_probe_deny).
ProbesComeLast ==
  (Done /\ config.mode # "Disabled" /\ TRUE \in Range(config.probes)) =>
    LET unprobed == [config EXCEPT !.probes = << >>]
        passes == /\ IsRequestPath(request) /\ ~TooLong
                  /\ IF config.mode = "RejectAmbiguous"
                       THEN Unambiguous(table, unprobed, request)
                       ELSE Canonical(unprobed, request)
    IN  /\ passes <=> ~verdict.allowed /\ verdict.reason[1] = "Probe"
        /\ passes => LET k == verdict.reason[2]
                     IN  config.probes[k] /\ TRUE \notin Range(SubSeq(config.probes, 1, k - 1))
=============================================================================
