---------------------------- MODULE GuardProofs ----------------------------
(***************************************************************************)
(* For every table, configuration and request, the pipeline of early       *)
(* returns decides what Gate decides in one step, an explanation names why *)
(* and a backend leaves a canonical request as it came.  The inductive     *)
(* invariant relates what the pass over the interpretations has            *)
(* accumulated to the findings and routes of the interpretations seen.     *)
(***************************************************************************)
EXTENDS Explain, Backend, PathProofs

Present == structural.classes \cap Positional(config)

\* The findings are those of the first d interpretations.
Gathered(d) == structural = Joined(Views, Positional(config), config.enc)[d]

\* Denied whatever the routes are.
Settled == "Truncation" \in structural.classes \/ (TooLong /\ Present # {})

\* Unless settled, a relocation is recorded exactly when one of the first d
\* interpretations has one.
Compared(d) == ~Settled => (relocation = {} <=> \A k \in 1..d : RuleDeny(Views[k]) = {})

\* What a stage may rely on, and what the verdict is.
Reading(d) ==
  /\ config.mode = "RejectAmbiguous"
  /\ TooLong => \A i \in DOMAIN request : request[i] # PercentSign
  /\ Gathered(d) /\ Compared(d)

PassedChecks == \/ config.mode = "RejectAmbiguous" /\ Unambiguous(table, config, request)
                \/ config.mode = "RequireCanonical" /\ Canonical(config, request)

Stages == {"input", "interpret", "positional", "strict", "probe", "answer", "done"}

Arguments == table \in Tables /\ config \in Configs /\ request \in Requests

\* The inductive invariant.
IInv ==
  /\ Arguments
  /\ stage \in Stages
  /\ stage # "done" => verdict = Undecided
  /\ stage \notin {"input", "done"} => IsRequestPath(request)
  /\ stage = "input" => depth = 0 /\ structural = EmptyResult /\ relocation = {}
  /\ stage = "interpret" => depth \in 0..(Len(Views) - 1) /\ Reading(depth)
  /\ stage = "positional" => Reading(Len(Views))
  /\ stage = "strict" => config.mode = "RequireCanonical"
  /\ stage = "probe" => PassedChecks
  /\ stage = "answer" => config.mode = "Disabled" \/ (PassedChecks /\ ProbesPass(config, request))
  /\ stage = "done" => /\ verdict.allowed <=> Permits(table, config, request)
                       /\ verdict.allowed => verdict.rule = RawRule

-----------------------------------------------------------------------------
LEMMA ArgumentFacts ==
  ASSUME Arguments
  PROVE  /\ config \in Config /\ config.mode \in Modes
         /\ request \in Seq(Byte) /\ request # << >>
         /\ Len(Views) \in 1..3
<1>1. config \in Config /\ request \in Seq(Byte) /\ request # << >>
  BY ConfigsAssumption, RequestsAssumption DEF Arguments
<1>2. config.mode \in Modes
  BY <1>1 DEF Config
<1>3. Len(Views) \in 1..3
  <2>1. Shaped(Views, request)
    BY ViewsShape DEF Views
  <2> QED BY <2>1 DEF Shaped
<1> QED BY <1>1, <1>2, <1>3

\* ViewsShape, for the request in hand.
LEMMA ViewsFacts ==
  ASSUME Arguments
  PROVE  /\ DOMAIN Views = 1..Len(Views) /\ 1 \in 1..Len(Views)
         /\ Views[1].decoded = FALSE /\ Views[1].bytes = request
         /\ \A k \in 2..Len(Views) :
              /\ Views[k].decoded = TRUE
              /\ HasEscape(request)
              /\ Views[k].bytes = [i \in DOMAIN Views[k].bytes |-> Views[k].bytes[i]]
         /\ \A k \in 1..Len(Views) : k = 1 \/ k \in 2..Len(Views)
<1>1. Shaped(Views, request)
  BY ViewsShape DEF Views
<1>2. Views[1].decoded = FALSE /\ Views[1].bytes = request
  BY <1>1 DEF Original, Shaped
<1>3. Len(Views) \in 1..3
  BY ArgumentFacts
<1> QED BY <1>1, <1>2, <1>3 DEF Shaped

\* The bytes an interpretation is routed by.
Folds(k) == config.insensitive /\ HasUppercase(Views[k].bytes)
Routed(k) == IF Folds(k) THEN Lowered(Views[k].bytes) ELSE Views[k].bytes

\* Whether its case is folded or not, an interpretation is routed as a spelling.
LEMMA RoutedSpellings ==
  ASSUME Arguments
  PROVE  Spellings(config, request) = {Routed(k) : k \in 1..Len(Views)}
<1>1. \A k \in 1..Len(Views) : Views[k].bytes = [i \in DOMAIN Views[k].bytes |-> Views[k].bytes[i]]
  <2> SUFFICES ASSUME NEW k \in 1..Len(Views)
               PROVE  Views[k].bytes = [i \in DOMAIN Views[k].bytes |-> Views[k].bytes[i]]
    OBVIOUS
  <2>1. CASE k = 1
    BY <2>1, ViewsFacts, ArgumentFacts
  <2>2. CASE k # 1
    BY <2>2, ViewsFacts
  <2> QED BY <2>1, <2>2
<1>2. \A k \in 1..Len(Views) : Routed(k) = IF config.insensitive THEN Lowered(Views[k].bytes) ELSE Views[k].bytes
  BY <1>1, FoldingIsIdle DEF Routed, Folds
<1>3. DOMAIN Views = 1..Len(Views)
  BY ViewsFacts
<1>4. Spellings(config, request) =
        {IF config.insensitive THEN Lowered(Views[k].bytes) ELSE Views[k].bytes : k \in 1..Len(Views)}
  <2>1. CASE config.insensitive
    BY <1>3, <2>1 DEF Spellings, Views
  <2>2. CASE ~config.insensitive
    BY <1>3, <2>2 DEF Spellings, Views
  <2> QED BY <2>1, <2>2
<1> QED BY <1>2, <1>4

\* No interpretation has a relocation exactly when every spelling is routed alike and,
\* beyond the budget, there was nothing to route.
LEMMA RoutesAgree ==
  ASSUME Arguments,
         TooLong => \A i \in DOMAIN request : request[i] # PercentSign
  PROVE  (\A k \in 1..Len(Views) : RuleDeny(Views[k]) = {}) <=>
           /\ \A v \in Spellings(config, request) : Resolve(table, v) = RawRule
           /\ TooLong => \A i \in DOMAIN request : request[i] \notin ContentBytes(config.insensitive)
<1>1. 1 \in 1..Len(Views) /\ Views[1].decoded = FALSE /\ Views[1].bytes = request
  BY ViewsFacts
<1>2. \A k \in 2..Len(Views) : Views[k].decoded = TRUE /\ \E i \in DOMAIN request : request[i] = PercentSign
  BY ViewsFacts, EscapesHavePercent, ArgumentFacts
<1>3. \A k \in 1..Len(Views) : k = 1 \/ k \in 2..Len(Views)
  BY ViewsFacts
<1>4. \A k \in 1..Len(Views) : RuleDeny(Views[k]) = {} <=>
         \/ ~Views[k].decoded /\ ~Folds(k)
         \/ ~TooLong /\ Resolve(table, Routed(k)) = RawRule
  BY DEF RuleDeny, Folds, Routed
<1>5. ~Folds(1) => Routed(1) = request
  BY <1>1 DEF Routed
<1>6. Folds(1) <=> config.insensitive /\ HasUppercase(request)
  BY <1>1 DEF Folds
<1>7. PercentSign \in ContentBytes(config.insensitive)
  BY DEF ContentBytes
<1>8. ASSUME \A k \in 1..Len(Views) : RuleDeny(Views[k]) = {}
      PROVE  /\ \A v \in Spellings(config, request) : Resolve(table, v) = RawRule
             /\ TooLong => \A i \in DOMAIN request : request[i] \notin ContentBytes(config.insensitive)
  <2>1. \A k \in 1..Len(Views) : Resolve(table, Routed(k)) = RawRule
    BY <1>1, <1>2, <1>3, <1>4, <1>5, <1>8 DEF RawRule
  <2>2. TooLong => ~Folds(1)
    BY <1>1, <1>4, <1>8
  <2>3. TooLong => \A i \in DOMAIN request : request[i] \notin ContentBytes(config.insensitive)
    BY <1>6, <2>2 DEF ContentBytes, HasUppercase
  <2> QED BY <2>1, <2>3, RoutedSpellings
<1>9. ASSUME \A v \in Spellings(config, request) : Resolve(table, v) = RawRule,
             TooLong => \A i \in DOMAIN request : request[i] \notin ContentBytes(config.insensitive)
      PROVE  \A k \in 1..Len(Views) : RuleDeny(Views[k]) = {}
  <2>1. \A k \in 1..Len(Views) : Resolve(table, Routed(k)) = RawRule
    BY <1>9, RoutedSpellings
  <2>2. TooLong => ~Folds(1) /\ \A k \in 1..Len(Views) : k = 1
    BY <1>2, <1>3, <1>6, <1>7, <1>9 DEF ContentBytes, HasUppercase
  <2> QED BY <1>1, <1>4, <2>1, <2>2
<1> QED BY <1>8, <1>9

-----------------------------------------------------------------------------
\* What depends on the arguments alone does not change with them unchanged.
LEMMA ArgumentsDetermine ==
  ASSUME UNCHANGED arguments
  PROVE  /\ table' = table /\ config' = config /\ request' = request
         /\ Arguments' <=> Arguments
         /\ Views' = Views /\ TooLong' = TooLong /\ RawRule' = RawRule
         /\ \A v : RuleDeny(v)' = RuleDeny(v)
         /\ PassedChecks' <=> PassedChecks
<1>1. table' = table /\ config' = config /\ request' = request
  BY DEF arguments
<1>2. TooLong' = TooLong /\ RawRule' = RawRule /\ Views' = Views
  BY <1>1 DEF TooLong, RawRule, Views
<1>3. \A v : RuleDeny(v)' = RuleDeny(v)
  BY <1>1, <1>2 DEF RuleDeny
<1>4. (Arguments' <=> Arguments) /\ (PassedChecks' <=> PassedChecks)
  BY <1>1 DEF Arguments, PassedChecks
<1> QED BY <1>1, <1>2, <1>3, <1>4

\* A denial keeps the invariant if the request is not to be permitted.
LEMMA DenialHolds ==
  ASSUME IInv, UNCHANGED arguments, NEW reason, Deny(reason),
         ~Permits(table, config, request)
  PROVE  IInv'
<1>1. table' = table /\ config' = config /\ request' = request /\ Arguments'
  BY ArgumentsDetermine DEF IInv
<1>2. stage' = "done" /\ verdict'.allowed = FALSE
  BY DEF Deny, Denial
<1>3. ~Permits(table', config', request')
  BY <1>1
<1> QED BY <1>1, <1>2, <1>3 DEF IInv, Stages

LEMMA ValidateInputKeeps ==
  ASSUME IInv, ValidateInput
  PROVE  IInv'
<1> USE DEF IInv
<1>0. /\ stage = "input" /\ verdict = Undecided /\ Arguments
      /\ depth = 0 /\ structural = EmptyResult /\ relocation = {}
      /\ UNCHANGED <<arguments, depth, structural, relocation>>
  BY DEF ValidateInput
<1>1. config.mode \in Modes /\ request \in Seq(Byte)
  BY <1>0, ArgumentFacts
<1>2. /\ table' = table /\ config' = config /\ request' = request /\ Arguments'
      /\ Views' = Views /\ TooLong' = TooLong
  BY <1>0, ArgumentsDetermine
<1>3. CASE ~IsRequestPath(request)
  <2>1. Deny(<<"InvalidPathInput">>)
    BY <1>3 DEF ValidateInput
  <2>2. ~Permits(table, config, request)
    BY <1>3 DEF Permits
  <2> QED BY <1>0, <2>1, <2>2, DenialHolds
<1>4. CASE IsRequestPath(request) /\ config.mode = "Disabled"
  <2>1. Goto("answer")
    BY <1>4 DEF ValidateInput
  <2> QED BY <1>0, <1>2, <1>4, <2>1 DEF Goto, Stages
<1>5. CASE IsRequestPath(request) /\ config.mode = "RejectAmbiguous"
  <2>1. CASE TooLong /\ \E i \in DOMAIN request : request[i] = PercentSign
    <3>1. Deny(<<"TooLong">>)
      BY <1>5, <2>1 DEF ValidateInput
    <3>2. ~Unambiguous(table, config, request)
      BY <2>1 DEF Unambiguous, TooLong, ContentBytes
    <3>3. ~Permits(table, config, request)
      BY <1>5, <3>2 DEF Permits
    <3> QED BY <1>0, <3>1, <3>3, DenialHolds
  <2>2. CASE ~(TooLong /\ \E i \in DOMAIN request : request[i] = PercentSign)
    <3>1. Goto("interpret")
      BY <1>5, <2>2 DEF ValidateInput
    <3>2. Len(Views) \in 1..3
      BY <1>0, ArgumentFacts
    <3>3. Joined(Views, Positional(config), config.enc)[0] = EmptyResult
      BY <3>2, JoinedUnfolds
    <3>4. Gathered(0)'
      BY <1>0, <1>2, <3>3 DEF Gathered
    <3>5. Compared(0)'
      BY <1>0 DEF Compared
    <3>6. depth' \in 0..(Len(Views)' - 1) /\ depth' = 0
      BY <1>0, <1>2, <3>2
    <3>7. Reading(0)'
      BY <1>2, <1>5, <2>2, <3>4, <3>5 DEF Reading
    <3> QED BY <1>0, <1>2, <1>5, <3>1, <3>6, <3>7 DEF Goto, Stages, Reading, Gathered, Compared
  <2> QED BY <2>1, <2>2
<1>6. CASE IsRequestPath(request) /\ config.mode = "RequireCanonical"
  <2>1. CASE TooLong /\ HasEscape(request)
    <3>1. Deny(<<"TooLong">>)
      BY <1>6, <2>1 DEF ValidateInput
    <3>2. ~Permits(table, config, request)
      BY <1>6, <2>1 DEF Permits, Canonical
    <3> QED BY <1>0, <3>1, <3>2, DenialHolds
  <2>2. CASE ~(TooLong /\ HasEscape(request))
    <3>1. Goto("strict")
      BY <1>6, <2>2 DEF ValidateInput
    <3> QED BY <1>0, <1>2, <1>6, <3>1 DEF Goto, Stages
  <2> QED BY <2>1, <2>2
<1> QED BY <1>1, <1>3, <1>4, <1>5, <1>6 DEF Modes

\* Joining only adds: once settled by the findings, always settled.
LEMMA InterpretKeeps ==
  ASSUME IInv, Interpret
  PROVE  IInv'
<1> PICK d, n : d = depth /\ n = Len(Views)
  OBVIOUS
<1> DEFINE view  == Views[d + 1]
           found == Include(structural, ScanOf(view, Positional(config), config.enc))
           settled == \/ "Truncation" \in found.classes
                      \/ TooLong /\ found.classes \cap Positional(config) # {}
<1>0. /\ stage = "interpret" /\ Arguments /\ IsRequestPath(request) /\ verdict = Undecided
      /\ d \in 0..(n - 1) /\ Reading(d) /\ UNCHANGED arguments
  BY DEF IInv, Interpret
<1>1. /\ structural' = found
      /\ relocation' = IF settled \/ relocation # {} THEN relocation ELSE RuleDeny(view)
      /\ depth' = d + 1
      /\ Goto(IF d + 1 = n THEN "positional" ELSE "interpret")
  BY DEF Interpret, Views
<1>2. n \in 1..3 /\ d \in 0..n /\ d + 1 \in 1..n
  BY <1>0, ArgumentFacts
<1>3. /\ table' = table /\ config' = config /\ request' = request /\ Arguments'
      /\ Views' = Views /\ TooLong' = TooLong /\ \A v : RuleDeny(v)' = RuleDeny(v)
  BY <1>0, ArgumentsDetermine
<1>4. Gathered(d + 1)'
  <2>1. Joined(Views, Positional(config), config.enc)[d + 1] =
          Include(Joined(Views, Positional(config), config.enc)[d], ScanOf(view, Positional(config), config.enc))
    <3>1. Len(Views) \in 1..3 /\ d \in 0..(Len(Views) - 1)
      BY <1>0, <1>2
    <3>2. PICK views, enabled, enc : views = Views /\ enabled = Positional(config) /\ enc = config.enc
      OBVIOUS
    <3>3. Len(views) \in 1..3 /\ d \in 0..(Len(views) - 1)
      BY <3>1, <3>2
    <3>4. Joined(views, enabled, enc)[d + 1] =
            Include(Joined(views, enabled, enc)[d], ScanOf(views[d + 1], enabled, enc))
      BY <3>3, JoinedStep
    <3> QED BY <3>2, <3>4
  <2>2. structural = Joined(Views, Positional(config), config.enc)[d]
    BY <1>0 DEF Reading, Gathered
  <2> QED BY <1>1, <1>3, <2>1, <2>2 DEF Gathered
<1> HIDE DEF view
<1>5. Compared(d + 1)'
  <2>1. Settled' <=> settled
    BY <1>1, <1>3 DEF Settled, Present
  <2>2. ASSUME ~settled
        PROVE  relocation' = {} <=> \A k \in 1..(d + 1) : RuleDeny(Views[k]) = {}
    <3>1. ~Settled
      BY <2>2 DEF Settled, Present, Include
    <3>2. relocation = {} <=> \A k \in 1..d : RuleDeny(Views[k]) = {}
      BY <1>0, <3>1 DEF Reading, Compared
    <3>3. relocation' = {} <=> relocation = {} /\ RuleDeny(view) = {}
      BY <1>1, <2>2
    <3>4. 1..(d + 1) = 1..d \cup {d + 1}
      BY <1>2
    <3> QED BY <3>2, <3>3, <3>4 DEF view
  <2>3. \A k : RuleDeny(Views[k])' = RuleDeny(Views[k])
    BY <1>3
  <2> QED BY <2>1, <2>2, <2>3 DEF Compared
<1>6. Reading(d + 1)'
  BY <1>0, <1>3, <1>4, <1>5 DEF Reading
<1>7. CASE d + 1 = n
  <2>1. stage' = "positional" /\ verdict' = verdict
    BY <1>1, <1>7 DEF Goto
  <2>2. Reading(n)'
    BY <1>6, <1>7
  <2>3. Reading(Len(Views))'
    BY <1>3, <2>2 DEF Reading, Gathered, Compared
  <2> QED BY <1>0, <1>3, <2>1, <2>3 DEF IInv, Stages
<1>8. CASE d + 1 # n
  <2>1. stage' = "interpret" /\ verdict' = verdict
    BY <1>1, <1>8 DEF Goto
  <2>2. depth' \in 0..(Len(Views)' - 1)
    BY <1>1, <1>2, <1>3, <1>8
  <2>3. Reading(depth)'
    BY <1>1, <1>6 DEF Reading, Gathered, Compared
  <2> QED BY <1>0, <1>3, <2>1, <2>2, <2>3 DEF IInv, Stages
<1> QED BY <1>7, <1>8

\* Passing a stage keeps the invariant if the next one's premise holds.
LEMMA PassHolds ==
  ASSUME IInv, UNCHANGED arguments, IsRequestPath(request), verdict = Undecided,
         \/ Goto("probe") /\ PassedChecks
         \/ Goto("answer") /\ PassedChecks /\ ProbesPass(config, request)
  PROVE  IInv'
<1>1. /\ table' = table /\ config' = config /\ request' = request /\ Arguments'
      /\ PassedChecks' <=> PassedChecks
  BY ArgumentsDetermine DEF IInv
<1>2. verdict' = Undecided /\ stage' \in {"probe", "answer"}
  BY DEF Goto
<1>3. CASE Goto("probe") /\ PassedChecks
  BY <1>1, <1>2, <1>3 DEF IInv, Stages, Goto
<1>4. CASE Goto("answer") /\ PassedChecks /\ ProbesPass(config, request)
  <2>1. ProbesPass(config', request')
    BY <1>1, <1>4
  <2> QED BY <1>1, <1>2, <1>4, <2>1 DEF IInv, Stages, Goto
<1> QED BY <1>3, <1>4

\* With every interpretation seen, the findings are those of ScanAll and the
\* relocations those of the spellings, so the stage judges what Unambiguous states.
LEMMA JudgePositionsJudges ==
  ASSUME IInv, JudgePositions
  PROVE  IF Unambiguous(table, config, request) THEN Goto("probe")
         ELSE \E reason \in relocation \cup {<<"TooLong">>, <<"Structural", PrimaryClass(Present)>>} : Deny(reason)
<1> DEFINE anchor == AnchorFor(request, structural, config.insensitive)
           safe   == /\ "Truncation" \notin Present
                     /\ structural.earliest # NoOffset
                     /\ RulesBeyond(table, anchor) = {RawRule}
<1>0. Arguments /\ Reading(Len(Views))
  BY DEF IInv, JudgePositions
<1>1. IF Present # {} /\ TooLong THEN Deny(<<"TooLong">>)
      ELSE IF Present # {} /\ ~safe THEN Deny(<<"Structural", PrimaryClass(Present)>>)
      ELSE IF relocation # {} THEN Deny(CHOOSE reason \in relocation : TRUE)
      ELSE Goto("probe")
  BY DEF JudgePositions, Present
<1>2. structural = ScanAll(config, request, Positional(config))
  BY <1>0 DEF Reading, Gathered, ScanAll, Views
<1>3. Unambiguous(table, config, request) <=>
        /\ Present # {} => safe
        /\ \A v \in Spellings(config, request) : Resolve(table, v) = RawRule
        /\ TooLong => /\ Present = {}
                      /\ \A i \in DOMAIN request : request[i] \notin ContentBytes(config.insensitive)
  BY <1>2 DEF Unambiguous, Present, RawRule, TooLong
<1> HIDE DEF safe
<1>4. CASE Present # {} /\ TooLong
  BY <1>1, <1>3, <1>4
<1>5. CASE ~(Present # {} /\ TooLong) /\ Present # {} /\ ~safe
  BY <1>1, <1>3, <1>5
<1>6. CASE ~(Present # {} /\ TooLong) /\ ~(Present # {} /\ ~safe)
  <2>1. "Truncation" \in Positional(config)
    BY DEF Positional, EnabledClasses, Mandatory
  <2>2. ~Settled
    BY <1>6, <2>1 DEF Settled, Present, safe
  <2>3. relocation = {} <=> \A k \in 1..Len(Views) : RuleDeny(Views[k]) = {}
    BY <1>0, <2>2 DEF Reading, Compared
  <2>4. TooLong => \A i \in DOMAIN request : request[i] # PercentSign
    BY <1>0 DEF Reading
  <2>5. relocation = {} <=> Unambiguous(table, config, request)
    BY <1>0, <1>3, <1>6, <2>3, <2>4, RoutesAgree
  <2>6. CASE relocation # {}
    BY <1>1, <1>6, <2>5, <2>6
  <2>7. CASE relocation = {}
    BY <1>1, <1>6, <2>5, <2>7
  <2> QED BY <2>6, <2>7
<1> QED BY <1>4, <1>5, <1>6

LEMMA JudgePositionsKeeps ==
  ASSUME IInv, JudgePositions
  PROVE  IInv'
<1>1. /\ IsRequestPath(request) /\ verdict = Undecided /\ UNCHANGED arguments
      /\ config.mode = "RejectAmbiguous"
  BY DEF IInv, JudgePositions, Reading
<1>2. CASE Unambiguous(table, config, request)
  <2>1. Goto("probe") /\ PassedChecks
    BY <1>1, <1>2, JudgePositionsJudges DEF PassedChecks
  <2> QED BY <1>1, <2>1, PassHolds
<1>3. CASE ~Unambiguous(table, config, request)
  <2>1. \E reason : Deny(reason)
    BY <1>3, JudgePositionsJudges
  <2>2. ~Permits(table, config, request)
    BY <1>1, <1>3 DEF Permits
  <2> QED BY <1>1, <2>1, <2>2, DenialHolds
<1> QED BY <1>2, <1>3

LEMMA RequireCanonicalKeeps ==
  ASSUME IInv, RequireCanonical
  PROVE  IInv'
<1> DEFINE present == ScanAll(config, request, Strict(config)).classes \cap Strict(config)
<1>0. /\ Arguments /\ IsRequestPath(request) /\ verdict = Undecided
      /\ config.mode = "RequireCanonical" /\ UNCHANGED arguments
  BY DEF IInv, RequireCanonical
<1>1. IF present # {} /\ TooLong THEN Deny(<<"TooLong">>)
      ELSE IF present # {} THEN Deny(<<"NonCanonical", PrimaryClass(present)>>)
      ELSE IF HasEscape(request) THEN Deny(<<"NonCanonicalEscape">>)
      ELSE Goto("probe")
  BY DEF RequireCanonical
<1>2. Canonical(config, request) <=> present = {} /\ ~HasEscape(request)
  BY DEF Canonical
<1>3. Permits(table, config, request) => Canonical(config, request)
  BY <1>0 DEF Permits
<1> HIDE DEF present
<1>4. CASE ~Canonical(config, request)
  <2>1. \E reason : Deny(reason)
    BY <1>1, <1>2, <1>4
  <2> QED BY <1>0, <1>3, <1>4, <2>1, DenialHolds
<1>5. CASE Canonical(config, request)
  <2>1. Goto("probe")
    BY <1>1, <1>2, <1>5
  <2>2. PassedChecks
    BY <1>0, <1>5 DEF PassedChecks
  <2> QED BY <1>0, <2>1, <2>2, PassHolds
<1> QED BY <1>4, <1>5

LEMMA AskProbesKeeps ==
  ASSUME IInv, AskProbes
  PROVE  IInv'
<1>0. /\ Arguments /\ IsRequestPath(request) /\ verdict = Undecided
      /\ PassedChecks /\ UNCHANGED arguments
  BY DEF IInv, AskProbes
<1>1. IF config.probes = << >> THEN Goto("answer")
      ELSE IF TooLong THEN Deny(<<"TooLong">>)
      ELSE IF TRUE \in Range(config.probes) THEN Deny(<<"Probe", FirstMatch>>)
      ELSE Goto("answer")
  BY DEF AskProbes
<1>2. config.probes \in Seq(BOOLEAN) /\ Len(request) \in Nat /\ config.max_len \in Nat
  BY <1>0, ArgumentFacts DEF Config
<1>3. ProbesPass(config, request) <=>
        config.probes = << >> \/ (~TooLong /\ TRUE \notin Range(config.probes))
  <2>1. TRUE \notin Range(config.probes) <=> \A k \in DOMAIN config.probes : ~config.probes[k]
    BY <1>2 DEF Range
  <2>2. ~TooLong <=> Len(request) <= config.max_len
    BY <1>2 DEF TooLong
  <2> QED BY <2>1, <2>2 DEF ProbesPass
<1>4. config.mode # "Disabled" /\ config.mode \in Modes
  BY <1>0, ArgumentFacts DEF PassedChecks
<1>5. Permits(table, config, request) => ProbesPass(config, request)
  BY <1>4 DEF Permits, Modes
<1>6. CASE ~ProbesPass(config, request)
  <2>1. \E reason : Deny(reason)
    BY <1>1, <1>3, <1>6
  <2> QED BY <1>0, <1>5, <1>6, <2>1, DenialHolds
<1>7. CASE ProbesPass(config, request)
  <2>1. Goto("answer")
    BY <1>1, <1>3, <1>7
  <2> QED BY <1>0, <1>7, <2>1, PassHolds
<1> QED BY <1>6, <1>7

LEMMA AnswerKeeps ==
  ASSUME IInv, Answer
  PROVE  IInv'
<1>0. /\ Arguments /\ IsRequestPath(request) /\ verdict = Undecided /\ UNCHANGED arguments
      /\ config.mode = "Disabled" \/ (PassedChecks /\ ProbesPass(config, request))
  BY DEF IInv, Answer
<1>1. /\ stage' = "done"
      /\ verdict' = IF RawRule = DENIED_RULE THEN Denial(<<"MethodNotConfigured">>) ELSE Allowed(RawRule)
  BY DEF Answer
<1>2. /\ table' = table /\ config' = config /\ request' = request /\ Arguments'
      /\ RawRule' = RawRule
  BY <1>0, ArgumentsDetermine
<1>3. Permits(table, config, request) <=> RawRule # DENIED_RULE
  <2>1. CASE config.mode = "Disabled"
    BY <1>0, <2>1 DEF Permits, RawRule
  <2>2. CASE config.mode = "RejectAmbiguous"
    BY <1>0, <2>2 DEF Permits, RawRule, PassedChecks
  <2>3. CASE config.mode = "RequireCanonical"
    BY <1>0, <2>3 DEF Permits, RawRule, PassedChecks
  <2> QED BY <1>0, <2>1, <2>2, <2>3, ArgumentFacts DEF Modes
<1>4. verdict'.allowed <=> RawRule # DENIED_RULE
  BY <1>1 DEF Denial, Allowed
<1>5. verdict'.allowed => verdict'.rule = RawRule
  BY <1>1 DEF Denial, Allowed
<1>6. Permits(table', config', request') <=> Permits(table, config, request)
  BY <1>2
<1> QED BY <1>1, <1>2, <1>3, <1>4, <1>5, <1>6 DEF IInv, Stages

-----------------------------------------------------------------------------
LEMMA InitHolds == Init => IInv
BY DEF Init, IInv, Arguments, Stages

LEMMA StutterKeeps ==
  ASSUME IInv, UNCHANGED vars
  PROVE  IInv'
BY DEF IInv, vars, Arguments, Reading, Gathered, Compared, Settled, Present, Views,
       RuleDeny, RawRule, TooLong, PassedChecks

LEMMA StepKeeps == IInv /\ [Next]_vars => IInv'
BY ValidateInputKeeps, InterpretKeeps, JudgePositionsKeeps, RequireCanonicalKeeps,
   AskProbesKeeps, AnswerKeeps, StutterKeeps DEF Next

\* Whatever the table, the configuration and the request, the verdict permits exactly
\* what Permits does, with the rule of the original spelling (checked).
THEOREM Invariance == Spec => []IInv
BY InitHolds, StepKeeps, PTL DEF Spec

-----------------------------------------------------------------------------
\* The initial states of the guard are initial states of the gate.
LEMMA InitRefines == Init => Promise!Init
BY DEF Init, Promise!Init, Promise!Undecided, Done

\* A step that does not decide is a stutter; the one that does decides as the gate does.
LEMMA StepRefines ==
  ASSUME IInv, IInv', [Next]_vars
  PROVE  [Promise!Decide]_(Promise!vars)
<1>1. CASE UNCHANGED vars
  BY <1>1 DEF vars, Promise!vars, Done
<1>2. CASE Next
  <2>1. stage # "done" /\ UNCHANGED arguments
    BY <1>2 DEF Next, ValidateInput, Interpret, JudgePositions, RequireCanonical, AskProbes, Answer
  <2>2. table' = table /\ config' = config /\ request' = request /\ RawRule' = RawRule
    BY <2>1, ArgumentsDetermine
  <2>3. CASE stage' # "done"
    BY <2>1, <2>2, <2>3 DEF Promise!vars, Done
  <2>4. CASE stage' = "done"
    <3>1. /\ verdict'.allowed <=> Permits(table, config, request)
          /\ verdict'.allowed => verdict'.rule = Resolve(table, request)
      BY <2>2, <2>4 DEF IInv, RawRule
    <3>2. CASE Permits(table, config, request)
      <4>1. Promise!Answer
        BY <2>1, <2>2, <2>4, <3>1, <3>2 DEF Promise!Answer, Promise!Undecided, Promise!Allowed, Done
      <4> QED BY <4>1 DEF Promise!Decide
    <3>3. CASE ~Permits(table, config, request)
      <4>1. Promise!Refuse
        BY <2>1, <2>2, <2>4, <3>1, <3>3 DEF Promise!Refuse, Promise!Undecided, Promise!Denied, Done
      <4> QED BY <4>1 DEF Promise!Decide
    <3> QED BY <3>2, <3>3
  <2> QED BY <2>3, <2>4
<1> QED BY <1>1, <1>2

\* The pipeline of early returns, shared lazy match and accumulated findings decides as
\* the one-step gate does (checked, interpretations_deny, positional_deny,
\* noncanonical_deny, custom_probe_deny).
THEOREM RefinesGate == Spec => ImplementsGate
<1>1. Init => Promise!Init
  BY InitRefines
<1>2. IInv /\ IInv' /\ [Next]_vars => [Promise!Decide]_(Promise!vars)
  BY StepRefines
<1> QED BY <1>1, <1>2, Invariance, PTL DEF Spec, ImplementsGate, Promise!Safety

-----------------------------------------------------------------------------
\* Two exceptions apart, turning any knob to its stricter side never turns a denial into
\* an answer (docs/reference/contract.md:77, l2_monotone, l5_noncanonical_dominates).
THEOREM StricterAlwaysDenies == Spec => []StricterOnlyDenies
<1>1. ASSUME IInv, Done, verdict.allowed, NEW d \in Configs, AtLeastAsStrict(config, d)
      PROVE  \/ Permits(table, d, request)
             \/ FoldedAway(table, config, d, request)
             \/ StrayPercentOverBudget(config, d, request)
  <2>1. PICK t, c, b : t = table /\ c = config /\ b = request
    OBVIOUS
  <2>2. /\ IsView(t) /\ c \in Config /\ d \in Config
        /\ b \in Seq(Byte) /\ b # << >> /\ Len(b) < NoOffset
    BY <1>1, <2>1, TablesAssumption, ConfigsAssumption, RequestsAssumption DEF IInv, Arguments
  <2>3. Permits(t, c, b) /\ AtLeastAsStrict(c, d)
    BY <1>1, <2>1 DEF IInv, Done
  <2>4. Permits(t, d, b) \/ FoldedAway(t, c, d, b) \/ StrayPercentOverBudget(c, d, b)
    BY <2>2, <2>3, StricterPermits
  <2> QED BY <2>1, <2>4
<1>2. IInv => StricterOnlyDenies
  BY <1>1 DEF StricterOnlyDenies
<1> QED BY <1>2, Invariance, PTL

\* Nothing about a plain path is denied on the way to an answer.
LEMMA PlainGoesOn ==
  ASSUME IInv, Plain(request), config.probes = << >>,
         ValidateInput \/ Interpret \/ JudgePositions \/ RequireCanonical \/ AskProbes
  PROVE  stage' # "done"
<1>1. config \in Config /\ config.mode \in Modes /\ request \in Seq(Byte) /\ Len(request) < NoOffset
  BY ArgumentFacts, RequestsAssumption DEF IInv, Arguments
<1>2. IsRequestPath(request) /\ Canonical(config, request) /\ Unambiguous(table, config, request)
  <2>1. PICK t, c, b : t = table /\ c = config /\ b = request
    OBVIOUS
  <2>2. IsRequestPath(b) /\ Canonical(c, b) /\ Unambiguous(t, c, b)
    BY <1>1, <2>1, PlainPermitted
  <2> QED BY <2>1, <2>2
<1>3. \A next : next # "done" /\ Goto(next) => stage' # "done"
  BY DEF Goto
<1>4. CASE ValidateInput
  <2>1. ~HasEscape(request) /\ \A i \in DOMAIN request : request[i] # PercentSign
    BY <1>2 DEF Canonical, Plain
  <2>2. Goto("answer") \/ Goto("interpret") \/ Goto("strict")
    BY <1>1, <1>2, <1>4, <2>1 DEF ValidateInput, Modes
  <2> QED BY <1>3, <2>2
<1>5. CASE Interpret
  <2>1. Goto("positional") \/ Goto("interpret")
    BY <1>5 DEF Interpret
  <2> QED BY <1>3, <2>1
<1>6. CASE JudgePositions
  <2>1. Goto("probe")
    BY <1>2, <1>6, JudgePositionsJudges
  <2> QED BY <1>3, <2>1
<1>7. CASE RequireCanonical
  <2>1. Goto("probe")
    BY <1>2, <1>7 DEF RequireCanonical, Canonical
  <2> QED BY <1>3, <2>1
<1>8. CASE AskProbes
  <2>1. Goto("answer")
    BY <1>8 DEF AskProbes
  <2> QED BY <1>3, <2>1
<1> QED BY <1>4, <1>5, <1>6, <1>7, <1>8

LEMMA PlainStays ==
  ASSUME IInv, PlainPasses, [Next]_vars
  PROVE  PlainPasses'
<1>1. CASE UNCHANGED vars
  BY <1>1 DEF vars, PlainPasses, Done, RawRule
<1>2. CASE Next
  <2>1. UNCHANGED arguments
    BY <1>2 DEF Next, ValidateInput, Interpret, JudgePositions, RequireCanonical, AskProbes, Answer
  <2>2. request' = request /\ config' = config /\ RawRule' = RawRule
    BY <2>1, ArgumentsDetermine
  <2>3. SUFFICES ASSUME stage' = "done", Plain(request), config.probes = << >>
                 PROVE  verdict' = IF RawRule = DENIED_RULE THEN Denial(<<"MethodNotConfigured">>) ELSE Allowed(RawRule)
    BY <2>2 DEF PlainPasses, Done
  <2>4. Answer
    BY <1>2, <2>3, PlainGoesOn DEF Next
  <2> QED BY <2>4 DEF Answer
<1> QED BY <1>1, <1>2

\* A plain path is never denied for its spelling, whatever the table and the
\* configuration: only a method gap or a probe can deny it.
THEOREM PlainAlwaysPasses == Spec => []PlainPasses
<1>1. Init => PlainPasses
  BY DEF Init, PlainPasses, Done
<1> QED BY <1>1, PlainStays, Invariance, PTL DEF Spec

-----------------------------------------------------------------------------
(***************************************************************************)
(* What a denial names is why it was made: a probe only after everything   *)
(* else has passed, a policy only for a method gap of the original         *)
(* spelling, which is then also what the unchecked match shows.            *)
(***************************************************************************)
Unprobed == [config EXCEPT !.probes = << >>]

BuiltInChecksPass == IsRequestPath(request) /\ ~TooLong /\ PassedChecks

\* A denial by the reason it names.
ByProbe  == /\ verdict.reason[1] = "Probe" /\ verdict.reason[2] = FirstMatch
            /\ BuiltInChecksPass /\ TRUE \in Range(config.probes)
ByPolicy == /\ verdict.reason[1] = "MethodNotConfigured"
            /\ RawRule = DENIED_RULE /\ (config.mode = "Disabled" \/ ProbesPass(config, request))
ByChecks == /\ verdict.reason[1] \notin {"Probe", "MethodNotConfigured"}
            /\ ~BuiltInChecksPass

Relocations == {<<"TooLong">>, <<"DecodeRuleChange">>, <<"CaseFoldRuleChange">>}

\* With IInv, inductive.
Reasoned ==
  /\ relocation \subseteq Relocations
  /\ (Done /\ Denied) => (ByProbe \/ ByPolicy \/ ByChecks)

-----------------------------------------------------------------------------
\* Which denial a step may make.
LEMMA ReasonKept ==
  ASSUME IInv, Reasoned, UNCHANGED arguments, relocation' \subseteq Relocations,
         \/ stage' # "done"
         \/ \E reason : /\ Deny(reason) /\ ~BuiltInChecksPass
                        /\ reason[1] \notin {"Probe", "MethodNotConfigured"}
         \/ Deny(<<"Probe", FirstMatch>>) /\ BuiltInChecksPass /\ TRUE \in Range(config.probes)
  PROVE  Reasoned'
<1>1. /\ BuiltInChecksPass' <=> BuiltInChecksPass
      /\ table' = table /\ config' = config /\ request' = request /\ FirstMatch' = FirstMatch
  BY ArgumentsDetermine DEF BuiltInChecksPass, FirstMatch
<1>2. CASE stage' # "done"
  BY <1>2 DEF Reasoned, Done
<1>3. ASSUME NEW reason, Deny(reason), ~BuiltInChecksPass,
             reason[1] \notin {"Probe", "MethodNotConfigured"}
      PROVE  Reasoned'
  <2>1. ByChecks'
    BY <1>1, <1>3 DEF ByChecks, Deny, Denial
  <2> QED BY <2>1 DEF Reasoned
<1>4. CASE Deny(<<"Probe", FirstMatch>>) /\ BuiltInChecksPass /\ TRUE \in Range(config.probes)
  <2>1. verdict'.reason = <<"Probe", FirstMatch>>
    BY <1>4 DEF Deny, Denial
  <2>2. verdict'.reason[1] = "Probe" /\ verdict'.reason[2] = FirstMatch
    BY <2>1
  <2>3. config'.probes = config.probes
    BY <1>1
  <2>4. ByProbe'
    BY <1>1, <1>4, <2>2, <2>3 DEF ByProbe
  <2> QED BY <2>4 DEF Reasoned
<1> QED BY <1>2, <1>3, <1>4

LEMMA ValidateInputNames ==
  ASSUME IInv, Reasoned, ValidateInput
  PROVE  Reasoned'
<1>1. UNCHANGED arguments /\ relocation' \subseteq Relocations
  BY DEF ValidateInput, Reasoned
<1>2. config.mode \in Modes
  BY ArgumentFacts DEF IInv
<1>3. \/ Deny(<<"InvalidPathInput">>) /\ ~IsRequestPath(request)
      \/ Deny(<<"TooLong">>) /\ TooLong
      \/ stage' # "done"
  BY <1>2 DEF ValidateInput, Modes, Goto
<1>4. CASE Deny(<<"InvalidPathInput">>) /\ ~IsRequestPath(request)
  <2>1. ~BuiltInChecksPass
    BY <1>4 DEF BuiltInChecksPass
  <2>2. <<"InvalidPathInput">>[1] \notin {"Probe", "MethodNotConfigured"}
    OBVIOUS
  <2> QED BY <1>1, <1>4, <2>1, <2>2, ReasonKept
<1>5. CASE Deny(<<"TooLong">>) /\ TooLong
  BY <1>1, <1>5, ReasonKept DEF BuiltInChecksPass
<1>6. CASE stage' # "done"
  BY <1>1, <1>6, ReasonKept
<1> QED BY <1>3, <1>4, <1>5, <1>6

LEMMA InterpretNames ==
  ASSUME IInv, Reasoned, Interpret
  PROVE  Reasoned'
<1>1. UNCHANGED arguments /\ stage' # "done"
  BY DEF Interpret, Goto
<1>2. \A view : RuleDeny(view) \subseteq Relocations
  BY DEF RuleDeny, Relocations
<1>3. relocation' = relocation \/ \E view : relocation' = RuleDeny(view)
  BY DEF Interpret
<1>4. relocation' \subseteq Relocations
  BY <1>2, <1>3 DEF Reasoned
<1> QED BY <1>1, <1>4, ReasonKept

LEMMA JudgePositionsNames ==
  ASSUME IInv, Reasoned, JudgePositions
  PROVE  Reasoned'
<1>1. UNCHANGED arguments /\ relocation' \subseteq Relocations /\ config.mode = "RejectAmbiguous"
  BY DEF JudgePositions, Reasoned, IInv, Reading
<1>2. CASE Unambiguous(table, config, request)
  <2>1. stage' # "done"
    BY <1>2, JudgePositionsJudges DEF Goto
  <2> QED BY <1>1, <2>1, ReasonKept
<1>3. CASE ~Unambiguous(table, config, request)
  <2>1. PICK reason \in relocation \cup {<<"TooLong">>, <<"Structural", PrimaryClass(Present)>>} : Deny(reason)
    BY <1>3, JudgePositionsJudges
  <2>2. reason[1] \in {"TooLong", "DecodeRuleChange", "CaseFoldRuleChange", "Structural"}
    BY <2>1 DEF Reasoned, Relocations
  <2>3. ~BuiltInChecksPass
    BY <1>1, <1>3 DEF BuiltInChecksPass, PassedChecks
  <2> QED BY <1>1, <2>1, <2>2, <2>3, ReasonKept
<1> QED BY <1>2, <1>3

LEMMA RequireCanonicalNames ==
  ASSUME IInv, Reasoned, RequireCanonical
  PROVE  Reasoned'
<1> DEFINE present == ScanAll(config, request, Strict(config)).classes \cap Strict(config)
<1>1. UNCHANGED arguments /\ relocation' \subseteq Relocations /\ config.mode = "RequireCanonical"
  BY DEF RequireCanonical, Reasoned, IInv
<1>2. \/ Deny(<<"TooLong">>) /\ present # {}
      \/ Deny(<<"NonCanonical", PrimaryClass(present)>>) /\ present # {}
      \/ Deny(<<"NonCanonicalEscape">>) /\ HasEscape(request)
      \/ stage' # "done"
  BY DEF RequireCanonical, Goto
<1>3. present # {} \/ HasEscape(request) => ~BuiltInChecksPass
  BY <1>1 DEF BuiltInChecksPass, PassedChecks, Canonical
<1> HIDE DEF present
<1>4. CASE stage' # "done"
  BY <1>1, <1>4, ReasonKept
<1>5. CASE stage' = "done"
  <2>1. PICK reason : Deny(reason) /\ reason[1] \in {"TooLong", "NonCanonical", "NonCanonicalEscape"}
    BY <1>2, <1>5
  <2>2. ~BuiltInChecksPass
    BY <1>2, <1>3, <1>5
  <2> QED BY <1>1, <2>1, <2>2, ReasonKept
<1> QED BY <1>4, <1>5

LEMMA AskProbesNames ==
  ASSUME IInv, Reasoned, AskProbes
  PROVE  Reasoned'
<1>1. /\ UNCHANGED arguments /\ relocation' \subseteq Relocations
      /\ IsRequestPath(request) /\ PassedChecks
  BY DEF AskProbes, Reasoned, IInv
<1>2. \/ stage' # "done"
      \/ Deny(<<"TooLong">>) /\ TooLong
      \/ ~TooLong /\ TRUE \in Range(config.probes) /\ Deny(<<"Probe", FirstMatch>>)
  BY DEF AskProbes, Goto
<1>3. CASE stage' # "done"
  BY <1>1, <1>3, ReasonKept
<1>4. CASE Deny(<<"TooLong">>) /\ TooLong
  BY <1>1, <1>4, ReasonKept DEF BuiltInChecksPass
<1>5. CASE ~TooLong /\ TRUE \in Range(config.probes) /\ Deny(<<"Probe", FirstMatch>>)
  BY <1>1, <1>5, ReasonKept DEF BuiltInChecksPass
<1> QED BY <1>2, <1>3, <1>4, <1>5

LEMMA AnswerNames ==
  ASSUME IInv, Reasoned, Answer
  PROVE  Reasoned'
<1>1. /\ UNCHANGED arguments /\ relocation' \subseteq Relocations
      /\ config.mode = "Disabled" \/ ProbesPass(config, request)
      /\ verdict' = IF RawRule = DENIED_RULE THEN Denial(<<"MethodNotConfigured">>) ELSE Allowed(RawRule)
  BY DEF Answer, Reasoned, IInv
<1>2. config' = config /\ request' = request /\ RawRule' = RawRule
  BY <1>1, ArgumentsDetermine
<1>3. CASE RawRule = DENIED_RULE
  <2>1. ByPolicy'
    BY <1>1, <1>2, <1>3 DEF ByPolicy, Denial
  <2> QED BY <1>1, <2>1 DEF Reasoned
<1>4. CASE RawRule # DENIED_RULE
  <2>1. ~Denied'
    BY <1>1, <1>4 DEF Denied, Allowed
  <2> QED BY <1>1, <2>1 DEF Reasoned
<1> QED BY <1>3, <1>4

LEMMA StepNames ==
  ASSUME IInv, Reasoned, [Next]_vars
  PROVE  Reasoned'
<1>1. CASE UNCHANGED vars
  <2>1. /\ BuiltInChecksPass' <=> BuiltInChecksPass
        /\ config' = config /\ request' = request /\ RawRule' = RawRule /\ FirstMatch' = FirstMatch
    BY <1>1, ArgumentsDetermine DEF BuiltInChecksPass, FirstMatch, vars, arguments
  <2>2. (Done' <=> Done) /\ verdict' = verdict /\ relocation' = relocation
    BY <1>1 DEF vars, Done
  <2> QED BY <2>1, <2>2 DEF Reasoned, ByProbe, ByPolicy, ByChecks, Denied
<1> QED BY <1>1, ValidateInputNames, InterpretNames, JudgePositionsNames, RequireCanonicalNames,
           AskProbesNames, AnswerNames DEF Next

LEMMA InitNames == Init => Reasoned
BY DEF Init, Reasoned, Done

-----------------------------------------------------------------------------
\* The verdict of the built-in checks does not look at the probes.
LEMMA ProbesApart ==
  ASSUME config \in Config
  PROVE  /\ Unambiguous(table, Unprobed, request) <=> Unambiguous(table, config, request)
         /\ Canonical(Unprobed, request) <=> Canonical(config, request)
<1>1. /\ Unprobed.options = config.options /\ Unprobed.enc = config.enc
      /\ Unprobed.up_to_two = config.up_to_two /\ Unprobed.insensitive = config.insensitive
      /\ Unprobed.max_len = config.max_len
  BY DEF Unprobed, Config
<1>2. Positional(Unprobed) = Positional(config) /\ Strict(Unprobed) = Strict(config)
  BY <1>1 DEF Positional, Strict
<1>3. \A enabled : ScanAll(Unprobed, request, enabled) = ScanAll(config, request, enabled)
  BY <1>1 DEF ScanAll
<1>4. Spellings(Unprobed, request) = Spellings(config, request)
  BY <1>1 DEF Spellings
<1> HIDE DEF Unprobed
<1>5. Canonical(Unprobed, request) <=> Canonical(config, request)
  BY <1>2, <1>3 DEF Canonical
<1>6. Unambiguous(table, Unprobed, request) <=> Unambiguous(table, config, request)
  BY <1>1, <1>2, <1>3, <1>4 DEF Unambiguous
<1> QED BY <1>5, <1>6

\* If some probe matches, there is a first one.
LEMMA FirstMatchExists ==
  ASSUME config.probes \in Seq(BOOLEAN), TRUE \in Range(config.probes)
  PROVE  /\ FirstMatch \in DOMAIN config.probes
         /\ config.probes[FirstMatch]
         /\ \A j \in 1..(FirstMatch - 1) : ~config.probes[j]
<1> DEFINE matching == {k \in DOMAIN config.probes : config.probes[k]}
<1>1. matching \in SUBSET Nat /\ matching # {}
  <2>1. DOMAIN config.probes \subseteq Nat
    OBVIOUS
  <2>2. \E k \in DOMAIN config.probes : config.probes[k] = TRUE
    BY ZenonT(20) DEF Range
  <2> QED BY <2>1, <2>2
<1>2. PICK k \in matching : \A j \in matching : k <= j
  <2> HIDE DEF matching
  <2> QED BY <1>1, LeastNatural
<1>3. \A j \in 1..(k - 1) : j \in DOMAIN config.probes /\ ~config.probes[j]
  BY <1>1, <1>2
<1> QED BY <1>2, <1>3 DEF FirstMatch

\* A custom probe denies only what everything before it would have let through, and the
\* denial names the first one that matches (checked, custom_probe_deny).
THEOREM ProbesAlwaysLast == Spec => []ProbesComeLast
<1>1. ASSUME IInv, Reasoned, Done, config.mode # "Disabled", TRUE \in Range(config.probes)
      PROVE  ProbesComeLast
  <2> DEFINE Pass == /\ IsRequestPath(request) /\ ~TooLong
                       /\ IF config.mode = "RejectAmbiguous"
                            THEN Unambiguous(table, Unprobed, request) ELSE Canonical(Unprobed, request)
  <2>1. config \in Config /\ config.mode \in Modes /\ config.probes \in Seq(BOOLEAN)
    BY <1>1, ArgumentFacts DEF IInv, Config
  <2>2. Pass <=> BuiltInChecksPass
    BY <1>1, <2>1, ProbesApart DEF BuiltInChecksPass, PassedChecks, Modes
  <2>3. ~ProbesPass(config, request)
    BY <1>1, <2>1, FirstMatchExists DEF ProbesPass
  <2>4. Denied
    <3>1. verdict.allowed => Permits(table, config, request)
      BY <1>1 DEF IInv, Done
    <3> QED BY <1>1, <2>1, <2>3, <3>1 DEF Permits, Modes, Denied
  <2>5. (BuiltInChecksPass <=> verdict.reason[1] = "Probe") /\ (BuiltInChecksPass => verdict.reason[2] = FirstMatch)
    BY <1>1, <2>3, <2>4 DEF Reasoned, ByProbe, ByPolicy, ByChecks
  <2>6. TRUE \notin Range(SubSeq(config.probes, 1, FirstMatch - 1))
    <3> DEFINE before == SubSeq(config.probes, 1, FirstMatch - 1)
    <3>1. /\ \A j \in 1..(FirstMatch - 1) : config.probes[j] # TRUE
          /\ FirstMatch \in 1..Len(config.probes)
      <4>1. /\ \A j \in 1..(FirstMatch - 1) : ~config.probes[j]
            /\ FirstMatch \in DOMAIN config.probes
        BY <1>1, <2>1, FirstMatchExists
      <4>2. \A j \in 1..(FirstMatch - 1) : config.probes[j] # TRUE
        BY <4>1, Zenon
      <4>3. FirstMatch \in 1..Len(config.probes)
        BY <2>1, <4>1
      <4> QED BY <4>2, <4>3, Zenon
    <3>2. DOMAIN before = 1..(FirstMatch - 1) /\ \A j \in DOMAIN before : before[j] = config.probes[j]
      BY <2>1, <3>1
    <3> HIDE DEF before
    <3>3. TRUE \notin Range(before)
      BY <3>1, <3>2 DEF Range
    <3> QED BY <3>3 DEF before
  <2> HIDE DEF Pass
  <2>7. /\ Pass <=> ~verdict.allowed /\ verdict.reason[1] = "Probe"
        /\ Pass => /\ config.probes[verdict.reason[2]]
                     /\ TRUE \notin Range(SubSeq(config.probes, 1, verdict.reason[2] - 1))
    BY <1>1, <2>1, <2>2, <2>4, <2>5, <2>6, FirstMatchExists DEF Denied
  <2> QED BY <2>7 DEF ProbesComeLast, Pass, Unprobed
<1>2. IInv /\ Reasoned => ProbesComeLast
  BY <1>1 DEF ProbesComeLast
<1>3. IInv /\ Reasoned /\ [Next]_vars => Reasoned'
  BY StepNames
<1> QED BY <1>2, <1>3, InitNames, Invariance, PTL DEF Spec

-----------------------------------------------------------------------------
\* The unchecked match is the one of the original spelling, and it is shown beside a
\* verdict that has been reached.
Inspected ==
  /\ \A match \in raw_match : /\ Identity(match) = RawRule
                              /\ match = MethodDenied <=> RawRule = DENIED_RULE
  /\ Explained => Done

LEMMA InspectRawInspects ==
  ASSUME Inspected, InspectRaw
  PROVE  Inspected'
<1> DEFINE match == IF RawRule = DENIED_RULE THEN MethodDenied
                    ELSE IF RawRule = DEFAULT_RULE THEN Default ELSE Matched(RawRule)
<1>1. UNCHANGED <<vars, structural_explanation>> /\ RawRule' = RawRule
  BY ArgumentsDetermine DEF InspectRaw, vars, arguments
<1>2. raw_match' = raw_match \/ raw_match' = {match}
  BY DEF InspectRaw
<1>3. Identity(match) = RawRule /\ (match = MethodDenied <=> RawRule = DENIED_RULE)
  <2>1. /\ MethodDenied.kind = "MethodDenied" /\ Default.kind = "Default"
        /\ Matched(RawRule).kind = "Matched" /\ Matched(RawRule).id = RawRule
    BY DEF MethodDenied, Default, Matched
  <2>2. CASE RawRule = DENIED_RULE
    BY <2>1, <2>2 DEF Identity
  <2>3. CASE RawRule # DENIED_RULE /\ RawRule = DEFAULT_RULE
    BY <2>1, <2>3 DEF Identity
  <2>4. CASE RawRule # DENIED_RULE /\ RawRule # DEFAULT_RULE
    BY <2>1, <2>4 DEF Identity
  <2> QED BY <2>2, <2>3, <2>4
<1>4. ~Explained'
  BY DEF Explained, InspectRaw
<1> HIDE DEF match
<1> QED BY <1>1, <1>2, <1>3, <1>4 DEF Inspected, Identity

LEMMA ExplainingSteps ==
  ASSUME IInv, Reasoned, Inspected, [ENext]_allvars
  PROVE  [Next]_vars /\ Inspected'
<1>1. CASE InspectRaw
  BY <1>1, InspectRawInspects DEF InspectRaw
<1>2. CASE Check
  <2>1. Next /\ UNCHANGED <<raw_match, returned>>
    BY <1>2 DEF Check
  <2>2. UNCHANGED arguments /\ stage # "done"
    BY <2>1 DEF Next, ValidateInput, Interpret, JudgePositions, RequireCanonical, AskProbes, Answer
  <2>3. RawRule' = RawRule
    BY <2>2, ArgumentsDetermine
  <2>4. ~Explained
    BY <2>2 DEF Inspected, Done
  <2> QED BY <2>1, <2>3, <2>4 DEF Inspected, Identity, Explained
<1>3. CASE Return
  <2>1. UNCHANGED <<vars, raw_match>> /\ Done
    BY <1>3 DEF Return
  <2>2. RawRule' = RawRule /\ Done'
    BY <2>1, ArgumentsDetermine DEF vars, arguments, Done
  <2> QED BY <2>1, <2>2 DEF Inspected, Identity
<1>4. CASE UNCHANGED allvars
  <2>1. UNCHANGED <<vars, raw_match, returned>>
    BY <1>4 DEF allvars
  <2>2. RawRule' = RawRule /\ (Done' <=> Done)
    BY <2>1, ArgumentsDetermine DEF vars, arguments, Done
  <2> QED BY <2>1, <2>2 DEF Inspected, Identity, Explained
<1> QED BY <1>1, <1>2, <1>3, <1>4 DEF ENext

\* The match shown beside a verdict is the match the verdict is about: the rule of an
\* answer, a method gap wherever a policy denies, and never a gap beside an answer
\* (inspect_raw, rule_for_id, explain).
THEOREM RawMatchAlwaysAgrees == ESpec => []RawMatchAgrees
<1>1. EInit => IInv /\ Reasoned /\ Inspected
  BY InitHolds, InitNames DEF EInit, Inspected, Explained
<1>2. IInv /\ Reasoned /\ Inspected /\ [ENext]_allvars => IInv' /\ Reasoned' /\ Inspected'
  BY ExplainingSteps, StepKeeps, StepNames
<1>3. ASSUME IInv, Reasoned, Inspected, Explained, NEW match \in raw_match
      PROVE  /\ ~Denied => Identity(match) = verdict.rule
             /\ (Denied /\ Kind(verdict.reason) = "PolicyDenied") => match = MethodDenied
             /\ match = MethodDenied => Denied
  <2>1. Done /\ Identity(match) = RawRule /\ (match = MethodDenied <=> RawRule = DENIED_RULE)
    <3>1. Explained => Done
      BY <1>3 DEF Inspected
    <3>2. \A m \in raw_match : Identity(m) = RawRule /\ (m = MethodDenied <=> RawRule = DENIED_RULE)
      BY <1>3 DEF Inspected
    <3> QED BY <1>3, <3>1, <3>2
  <2>2. ~Denied => verdict.rule = RawRule /\ RawRule # DENIED_RULE
    BY <1>3, <2>1 DEF IInv, Done, Denied, Permits, RawRule
  <2>3. Kind(verdict.reason) = "PolicyDenied" => verdict.reason[1] = "MethodNotConfigured"
    BY DEF Kind
  <2>4. Denied /\ verdict.reason[1] = "MethodNotConfigured" => RawRule = DENIED_RULE
    BY <1>3, <2>1 DEF Reasoned, ByProbe, ByPolicy, ByChecks
  <2> QED BY <2>1, <2>2, <2>3, <2>4
<1>4. IInv /\ Reasoned /\ Inspected => RawMatchAgrees
  BY <1>3 DEF RawMatchAgrees
<1> QED BY <1>1, <1>2, <1>4, PTL DEF ESpec

-----------------------------------------------------------------------------
\* So beyond an anchor there is always some rule.
LEMMA SomethingBeyond ==
  ASSUME Arguments, NEW scan, scan.dot_pops \in Nat
  PROVE  RulesBeyond(table, AnchorFor(request, scan, config.insensitive)) # {}
<1>1. request \in Seq(Byte) /\ IsView(table)
  BY ArgumentFacts, TablesAssumption DEF Arguments
<1>2. AnchorFor(request, scan, config.insensitive) \in Seq(Byte)
  BY <1>1, StablePrefixIsPath, RaisedIsPath DEF AnchorFor
<1> QED BY <1>1, <1>2, AnchorSegmentsSequence, AnchorIdsNonempty DEF RulesBeyond

-----------------------------------------------------------------------------
(***************************************************************************)
(* Why a structural denial was made.  With IInv and Reasoned, inductive.   *)
(***************************************************************************)
Elsewhere == RulesBeyond(table, AnchorFor(request, structural, config.insensitive)) # {RawRule}

StructurallyDenied == Denied /\ verdict.reason[1] = "Structural"

Judged ==
  (Done /\ StructurallyDenied) =>
    /\ structural = ScanAll(config, request, Positional(config))
    /\ Present # {} /\ ~TooLong
    /\ "Truncation" \in Present \/ structural.earliest = NoOffset \/ Elsewhere

LEMMA StepJudges ==
  ASSUME IInv, Reasoned, Judged, [Next]_vars
  PROVE  Judged'
<1>1. CASE UNCHANGED vars
  <2>1. UNCHANGED <<table, config, request, stage, structural, verdict>>
    BY <1>1 DEF vars
  <2> QED BY <2>1 DEF Judged, Done, StructurallyDenied, Denied, Present, TooLong, Elsewhere, RawRule
<1>2. CASE stage' # "done"
  BY <1>2 DEF Judged, Done
<1>3. ASSUME NEW reason, Deny(reason), reason[1] # "Structural" PROVE Judged'
  <2>1. verdict'.reason = reason
    BY <1>3 DEF Deny, Denial
  <2> QED BY <1>3, <2>1 DEF Judged, StructurallyDenied
<1>4. CASE ValidateInput
  <2>1. config.mode \in Modes
    BY ArgumentFacts DEF IInv
  <2>2. Deny(<<"InvalidPathInput">>) \/ Deny(<<"TooLong">>) \/ stage' # "done"
    BY <1>4, <2>1 DEF ValidateInput, Goto, Modes
  <2>3. <<"InvalidPathInput">>[1] # "Structural" /\ <<"TooLong">>[1] # "Structural"
    OBVIOUS
  <2> QED BY <1>2, <1>3, <2>2, <2>3
<1>5. CASE Interpret
  <2>1. PICK next \in {"positional", "interpret"} : Goto(next)
    BY <1>5 DEF Interpret
  <2>2. stage' # "done"
    BY <2>1 DEF Goto
  <2> QED BY <1>2, <2>2
<1>6. CASE JudgePositions
  <2> DEFINE safe == /\ "Truncation" \notin Present
                     /\ structural.earliest # NoOffset
                     /\ ~Elsewhere
  <2>1. IF Present # {} /\ TooLong THEN Deny(<<"TooLong">>)
        ELSE IF Present # {} /\ ~safe THEN Deny(<<"Structural", PrimaryClass(Present)>>)
        ELSE IF relocation # {} THEN Deny(CHOOSE reason \in relocation : TRUE)
        ELSE Goto("probe")
    BY <1>6 DEF JudgePositions, Present, Elsewhere
  <2>2. UNCHANGED <<table, config, request, structural>>
    BY <1>6 DEF JudgePositions, arguments
  <2>3. structural = ScanAll(config, request, Positional(config))
    BY <1>6 DEF IInv, JudgePositions, Reading, Gathered, ScanAll, Views
  <2> HIDE DEF safe
  <2>4. CASE Present # {} /\ TooLong
    <3>1. <<"TooLong">>[1] # "Structural"
      OBVIOUS
    <3> QED BY <1>3, <2>1, <2>4, <3>1
  <2>5. CASE ~(Present # {} /\ TooLong) /\ Present # {} /\ ~safe
    <3>1. Present' = Present /\ (TooLong' <=> TooLong) /\ (Elsewhere' <=> Elsewhere)
      BY <2>2 DEF Present, TooLong, Elsewhere, RawRule
    <3> QED BY <2>2, <2>3, <2>5, <3>1 DEF Judged, safe
  <2>6. CASE ~(Present # {} /\ TooLong) /\ ~(Present # {} /\ ~safe) /\ relocation # {}
    <3>1. PICK reason \in relocation : Deny(reason)
      BY <2>1, <2>6
    <3>2. reason[1] # "Structural"
      BY <3>1 DEF Reasoned, Relocations
    <3> QED BY <1>3, <3>1, <3>2
  <2>7. CASE ~(Present # {} /\ TooLong) /\ ~(Present # {} /\ ~safe) /\ relocation = {}
    <3>1. Goto("probe")
      BY <2>1, <2>7
    <3>2. stage' # "done"
      BY <3>1 DEF Goto
    <3> QED BY <1>2, <3>2
  <2> QED BY <2>4, <2>5, <2>6, <2>7
<1>7. CASE RequireCanonical
  <2>1. stage' # "done" \/ \E reason : Deny(reason) /\ reason[1] \in {"TooLong", "NonCanonical", "NonCanonicalEscape"}
    BY <1>7 DEF RequireCanonical, Goto
  <2> QED BY <1>2, <1>3, <2>1
<1>8. CASE AskProbes
  <2>1. Deny(<<"TooLong">>) \/ Deny(<<"Probe", FirstMatch>>) \/ stage' # "done"
    BY <1>8 DEF AskProbes, Goto
  <2>2. <<"TooLong">>[1] # "Structural" /\ <<"Probe", FirstMatch>>[1] # "Structural"
    OBVIOUS
  <2> QED BY <1>2, <1>3, <2>1, <2>2
<1>9. CASE Answer
  <2>1. verdict' = IF RawRule = DENIED_RULE THEN Denial(<<"MethodNotConfigured">>) ELSE Allowed(RawRule)
    BY <1>9 DEF Answer
  <2>2. ~StructurallyDenied'
    BY <2>1 DEF StructurallyDenied, Denied, Denial, Allowed
  <2> QED BY <2>2 DEF Judged
<1> QED BY <1>1, <1>4, <1>5, <1>6, <1>7, <1>8, <1>9 DEF Next

\* What an explanation shows is the coverage of the anchor computed for it.
Showing ==
  Explained => structural_explanation =
    IF StructurallyDenied THEN {Coverage(q) : q \in StructuralAnchor(config, request)} ELSE {}

LEMMA ExplainingShows ==
  ASSUME Inspected, Showing, [ENext]_allvars
  PROVE  Showing'
<1>1. CASE InspectRaw
  BY <1>1 DEF InspectRaw, Showing, Explained
<1>2. CASE Check
  <2>1. Next /\ UNCHANGED <<raw_match, returned>>
    BY <1>2 DEF Check
  <2>2. stage # "done"
    BY <2>1 DEF Next, ValidateInput, Interpret, JudgePositions, RequireCanonical, AskProbes, Answer
  <2>3. ~Explained'
    BY <2>1, <2>2 DEF Inspected, Explained, Done
  <2> QED BY <2>3 DEF Showing
<1>3. CASE Return
  <2>1. UNCHANGED <<table, config, request, verdict>>
    BY <1>3 DEF Return, vars
  <2>2. structural_explanation' =
          IF StructurallyDenied THEN {Coverage(q) : q \in StructuralAnchor(config, request)} ELSE {}
    BY <1>3 DEF Return, StructurallyDenied, Denied
  <2> QED BY <2>1, <2>2 DEF Showing, StructurallyDenied, Denied, Coverage
<1>4. CASE UNCHANGED allvars
  BY <1>4 DEF allvars, vars, Showing, Explained, StructurallyDenied, Denied, Coverage
<1> QED BY <1>1, <1>2, <1>3, <1>4 DEF ENext

\* Coverage is shown for exactly the structural denials that were judged by it, at the
\* anchor they were judged at, and it names a rule other than the unchecked match: the
\* second scan of structural_anchor and the verdict of positional_deny never part.
THEOREM ExplanationAlwaysTellsWhy == ESpec => []ExplanationTellsWhy
<1> DEFINE Inv == IInv /\ Reasoned /\ Inspected /\ Judged /\ Showing
<1>1. EInit => Inv
  BY InitHolds, InitNames DEF EInit, Init, Inspected, Explained, Judged, Showing, Done
<1>2. Inv /\ [ENext]_allvars => Inv'
  BY ExplainingSteps, StepKeeps, StepNames, StepJudges, ExplainingShows
<1>3. ASSUME Inv, Explained
      PROVE  ExplanationTellsWhy
  <2> DEFINE anchor == AnchorFor(request, structural, config.insensitive)
             ids    == RulesBeyond(table, anchor)
             found  == ScanAll(config, request, Positional(config))
  <2>1. Done /\ \A match \in raw_match : Identity(match) = RawRule
    BY <1>3 DEF Inspected
  <2>2. structural_explanation =
          IF StructurallyDenied THEN {Coverage(q) : q \in StructuralAnchor(config, request)} ELSE {}
    BY <1>3 DEF Showing
  <2>3. StructurallyDenied => /\ structural = found /\ Present # {} /\ ~TooLong
                              /\ "Truncation" \in Present \/ structural.earliest = NoOffset \/ ids # {RawRule}
    BY <1>3, <2>1 DEF Judged, Elsewhere
  <2>4. "Truncation" \in Present <=> "Truncation" \in structural.classes
    BY DEF Present, Positional, EnabledClasses, Mandatory
  <2>5. CASE ~(StructurallyDenied /\ "Truncation" \notin structural.classes)
    <3>1. structural_explanation = {}
      BY <2>2, <2>3, <2>4, <2>5 DEF StructuralAnchor, TooLong, Present
    <3> QED BY <2>5, <3>1 DEF ExplanationTellsWhy, StructurallyDenied
  <2>6. CASE StructurallyDenied /\ "Truncation" \notin structural.classes
    <3>1. StructuralAnchor(config, request) = {anchor}
      BY <2>3, <2>4, <2>6 DEF StructuralAnchor, TooLong, Present
    <3>2. structural_explanation = {Coverage(anchor)}
      BY <2>2, <2>6, <3>1
    <3>3. structural.earliest # NoOffset /\ structural.dot_pops \in Nat
      <4>1. Locates(found, Positional(config))
        BY <1>3, ArgumentFacts, RequestsAssumption, ScanAllLocates DEF IInv, Arguments
      <4> QED BY <2>3, <2>6, <4>1 DEF Locates, Present
    <3>4. ids # {RawRule} /\ ids # {}
      BY <1>3, <2>3, <2>4, <2>6, <3>3, SomethingBeyond DEF IInv
    <3>5. Shown(Coverage(anchor)) = ids /\ Coverage(anchor).anchor = anchor
      <4> HIDE DEF ids
      <4>1. Coverage(anchor) = [anchor |-> anchor, registrations |-> ids \ {DEFAULT_RULE, DENIED_RULE},
                                includes_default |-> DEFAULT_RULE \in ids,
                                includes_method_denial |-> DENIED_RULE \in ids]
        BY DEF Coverage, ids
      <4>2. PICK e : e = Coverage(anchor)
        OBVIOUS
      <4>3. /\ e.anchor = anchor /\ e.registrations = ids \ {DEFAULT_RULE, DENIED_RULE}
            /\ e.includes_default = (DEFAULT_RULE \in ids)
            /\ e.includes_method_denial = (DENIED_RULE \in ids)
        BY <4>1, <4>2
      <4>4. Shown(e) = ids
        BY <4>3 DEF Shown
      <4> QED BY <4>2, <4>3, <4>4
    <3>6. ids \ {RawRule} # {}
      <4> HIDE DEF ids
      <4> QED BY <3>4
    <3> QED BY <2>1, <2>6, <3>2, <3>5, <3>6 DEF ExplanationTellsWhy, StructurallyDenied
  <2> QED BY <2>5, <2>6
<1>4. Inv => ExplanationTellsWhy
  <2> HIDE DEF Inv
  <2> QED BY <1>3 DEF ExplanationTellsWhy
<1> QED BY <1>1, <1>2, <1>4, PTL DEF ESpec

-----------------------------------------------------------------------------
\* The bytes of a path, one by one, make up the path.
LEMMA FlattenBytes ==
  ASSUME NEW b \in Seq(Byte), NEW seqs, seqs = [i \in DOMAIN b |-> <<b[i]>>]
  PROVE  FlattenSeq(seqs) = b
<1>1. PICK n \in Nat : n = Len(b) /\ DOMAIN b = 1..n
  OBVIOUS
<1>2. Len(seqs) = n /\ DOMAIN seqs = 1..n /\ \A i \in 1..n : seqs[i] = <<b[i]>>
  BY <1>1
<1>3. CASE n = 0
  <2>1. b = << >> /\ seqs = << >>
    BY <1>1, <1>2, <1>3
  <2> QED BY <1>2, <1>3, <2>1, Zenon DEF FlattenSeq
<1>4. CASE n # 0
  <2>1. PICK F : F = [k \in 1..n |-> SubSeq(b, 1, k)]
    OBVIOUS
  <2>2. \A k \in 1..n : F[k] = SubSeq(b, 1, k)
    BY <2>1
  <2>3. \A k \in 1..n : SubSeq(b, k, k) = <<b[k]>>
    <3>1. SUFFICES ASSUME NEW k \in 1..n PROVE SubSeq(b, k, k) = <<b[k]>>
      OBVIOUS
    <3>2. k \in 1..Len(b) /\ k \in k..Len(b)
      BY <1>1
    <3>3. SubSeq(b, k, k) = <<b[k]>> \o SubSeq(b, k + 1, k)
      BY <3>2, SubSeqRecursiveFirst
    <3>4. SubSeq(b, k + 1, k) = << >>
      BY <3>2, SubSeqEmpty
    <3>5. b[k] \in Byte /\ <<b[k]>> \in Seq(Byte)
      BY <3>2
    <3>6. <<b[k]>> \o << >> = <<b[k]>>
      BY <3>5, ConcatEmptySeq
    <3> QED BY <3>3, <3>4, <3>6
  <2>4. ASSUME NEW k \in 1..n, k # 1 PROVE F[k] = F[k - 1] \o seqs[k]
    <3>1. k - 1 \in 1..n /\ k - 1 + 1 = k
      BY <2>4
    <3>2. 1 \in 1..(Len(b) + 1) /\ k - 1 \in (1 - 1)..Len(b) /\ k \in (k - 1)..Len(b)
      BY <1>1, <2>4
    <3>3. SubSeq(b, 1, k - 1) \o SubSeq(b, k - 1 + 1, k) = SubSeq(b, 1, k)
      BY <3>2, ConcatAdjacentSubSeq
    <3> QED BY <1>2, <2>2, <2>3, <3>1, <3>3
  <2>5. FlattensTo(seqs, F) /\ F = [k \in 1..Len(seqs) |-> F[k]] /\ Len(seqs) \in Nat \ {0}
    <3>1. F[1] = seqs[1]
      <4>1. 1 \in 1..n
        BY <1>4
      <4> QED BY <1>2, <2>2, <2>3, <4>1
    <3> QED BY <1>2, <1>4, <2>1, <2>4, <3>1 DEF FlattensTo
  <2>6. FlattenSeq(seqs) = F[n]
    BY <1>2, <2>5, FlattenIs
  <2>7. SubSeq(b, 1, n) = b
    BY <1>1
  <2> QED BY <1>1, <1>4, <2>2, <2>6, <2>7
<1> QED BY <1>3, <1>4

\* A path without slashes that follow each other, parameters and dot-segments is its
\* segments, each behind a slash.
LEMMA FlattenSegments ==
  ASSUME NEW b \in Seq(Byte), Rooted(b),
         NEW seqs, seqs = [k \in DOMAIN PathOf(b) |-> <<Slash>> \o PathOf(b)[k]]
  PROVE  FlattenSeq(seqs) = b
<1>1. PICK n \in Nat : n = Len(b) /\ DOMAIN b = 1..n /\ n # 0 /\ b[1] = Slash
  BY DEF Rooted
<1>2. PICK L, cuts, segs : L = SlashList(b) /\ cuts = Cuts(b) /\ segs = PathOf(b)
  OBVIOUS
<1>3. CutsSegments(b, L, cuts)
  BY <1>2, CutsAre
<1>4. PICK m \in Nat : m = Len(L) /\ m <= n /\ cuts[m + 1] = n + 1
  BY <1>1, <1>3 DEF CutsSegments
<1>5. DOMAIN segs = 1..m /\ \A k \in 1..m : segs[k] = SubSeq(b, cuts[k] + 1, cuts[k + 1] - 1)
  BY <1>2, <1>3, <1>4 DEF CutsSegments
<1>6. ASSUME NEW k \in 1..m
      PROVE  /\ cuts[k] \in 1..n /\ cuts[k + 1] \in 1..(n + 1) /\ cuts[k] < cuts[k + 1]
             /\ b[cuts[k]] = Slash
  BY <1>1, <1>3, <1>4 DEF CutsSegments, Spans, SlashesOf
<1>7. m # 0 /\ cuts[1] = 1
  <2>1. PICK k \in 1..m : cuts[k] = 1
    <3>1. 1 \in SlashesOf(b)
      BY <1>1 DEF SlashesOf
    <3> QED BY <1>3, <1>4, <3>1 DEF CutsSegments
  <2>2. k = 1
    <3>1. SUFFICES ASSUME k # 1 PROVE FALSE
      OBVIOUS
    <3>2. k - 1 \in 1..m /\ k - 1 + 1 = k
      BY <3>1
    <3>3. cuts[k - 1] \in 1..n /\ cuts[k - 1] < cuts[k - 1 + 1]
      BY <1>6, <3>2
    <3> QED BY <2>1, <3>2, <3>3
  <2> QED BY <2>1, <2>2
<1>8. Len(seqs) = m /\ \A k \in 1..m : seqs[k] = <<Slash>> \o segs[k]
  BY <1>2, <1>5
<1>9. ASSUME NEW k \in 1..m PROVE seqs[k] = SubSeq(b, cuts[k], cuts[k + 1] - 1)
  <2>1. PICK s, e : s = cuts[k] /\ e = cuts[k + 1] /\ s \in 1..n /\ e \in 1..(n + 1) /\ s < e /\ b[s] = Slash
    BY <1>6
  <2>2. s \in 1..Len(b) /\ e - 1 \in s..Len(b)
    BY <1>1, <2>1
  <2>3. SubSeq(b, s, e - 1) = <<b[s]>> \o SubSeq(b, s + 1, e - 1)
    BY <2>2, SubSeqRecursiveFirst
  <2> QED BY <1>5, <1>8, <2>1, <2>3
<1>10. PICK F : F = [k \in 1..m |-> SubSeq(b, 1, cuts[k + 1] - 1)]
  OBVIOUS
<1>11. \A k \in 1..m : F[k] = SubSeq(b, 1, cuts[k + 1] - 1)
  BY <1>10
<1>12. F[1] = seqs[1]
  <2>1. 1 \in 1..m
    BY <1>4, <1>7
  <2> QED BY <1>7, <1>9, <1>11, <2>1
<1>13. ASSUME NEW k \in 1..m, k # 1 PROVE F[k] = F[k - 1] \o seqs[k]
  <2>1. PICK s, e : s = cuts[k] /\ e = cuts[k + 1] /\ s \in 1..n /\ e \in 1..(n + 1) /\ s < e
    BY <1>6
  <2>2. k - 1 \in 1..m /\ k - 1 + 1 = k
    BY <1>13
  <2>3. F[k - 1] = SubSeq(b, 1, s - 1) /\ seqs[k] = SubSeq(b, s, e - 1) /\ F[k] = SubSeq(b, 1, e - 1)
    BY <1>9, <1>11, <2>1, <2>2
  <2>4. 1 \in 1..(Len(b) + 1) /\ s - 1 \in (1 - 1)..Len(b) /\ e - 1 \in (s - 1)..Len(b) /\ s - 1 + 1 = s
    <3>1. PICK w \in Nat : w = Len(b)
      OBVIOUS
    <3> QED BY <1>1, <2>1, <3>1
  <2>5. SubSeq(b, 1, s - 1) \o SubSeq(b, s - 1 + 1, e - 1) = SubSeq(b, 1, e - 1)
    BY <2>4, ConcatAdjacentSubSeq
  <2> QED BY <2>3, <2>4, <2>5
<1>14. FlattensTo(seqs, F) /\ F = [k \in 1..Len(seqs) |-> F[k]] /\ Len(seqs) \in Nat \ {0}
  BY <1>7, <1>8, <1>10, <1>12, <1>13 DEF FlattensTo
<1>15. FlattenSeq(seqs) = F[m]
  BY <1>8, <1>14, FlattenIs
<1>16. F[m] = SubSeq(b, 1, n + 1 - 1)
  BY <1>4, <1>7, <1>11
<1>17. SubSeq(b, 1, n + 1 - 1) = b
  BY <1>1
<1> QED BY <1>15, <1>16, <1>17

-----------------------------------------------------------------------------
\* There is nothing in a path that a backend of the configuration transforms.
Still(c, b) ==
  /\ b \in Seq(Byte) /\ ~HasEscape(b)
  /\ \A i \in DOMAIN b : b[i] \notin {Nul, Semicolon, Question, Hash}
  /\ "Backslash" \in c.options => \A i \in DOMAIN b : b[i] # Backslash
  /\ c.enc.unicode => \A i \in DOMAIN b : ~FullwidthAt(b, i)
  /\ c.insensitive => ~HasUppercase(b)
  /\ \A i \in DOMAIN b : i - 1 \in DOMAIN b /\ b[i] = Slash => b[i - 1] # Slash
  /\ \A k \in DOMAIN PathOf(b) : PathOf(b)[k] \notin {<<Dot>>, <<Dot, Dot>>}

\* Nothing is escaped.
LEMMA DecodeStill ==
  ASSUME NEW c, NEW b, Still(c, b), NEW kinds
  PROVE  DecodePass(b, kinds, c) = b
<1>1. b \in Seq(Byte) /\ \A i \in DOMAIN b : ~EscapeAt(b, i)
  BY DEF Still, HasEscape
<1> DEFINE piece == [i \in DOMAIN b |-> PieceAt(b, i, kinds, c)]
           Taken(i) == \E j \in Greater(1, i - 5)..(i - 1) : j + piece[j].width > i
           pieces == [i \in DOMAIN b |-> IF Taken(i) THEN << >> ELSE piece[i].bytes]
           out == FlattenSeq(pieces)
<1>2. \A i \in DOMAIN b : piece[i] = Piece(<<b[i]>>, 1)
  BY <1>1 DEF PieceAt
<1>3. \A i \in DOMAIN b : piece[i].bytes = <<b[i]>> /\ piece[i].width = 1
  BY <1>2 DEF Piece
<1>4. ASSUME NEW i \in DOMAIN b PROVE ~Taken(i)
  <2>1. i \in 1..Len(b) /\ DOMAIN b = 1..Len(b) /\ Len(b) \in Nat
    BY <1>1
  <2>2. ASSUME NEW j \in Greater(1, i - 5)..(i - 1) PROVE ~(j + piece[j].width > i)
    <3>1. j \in 1..(i - 1)
      BY <2>1 DEF Greater
    <3>2. j \in DOMAIN b
      BY <2>1, <3>1
    <3>3. piece[j].width = 1
      BY <1>3, <3>2
    <3> HIDE DEF piece
    <3> QED BY <2>1, <3>1, <3>3
  <2> HIDE DEF piece
  <2> QED BY <2>2
<1>5. pieces = [i \in DOMAIN b |-> <<b[i]>>]
  <2> HIDE DEF piece, Taken
  <2> QED BY <1>3, <1>4
<1>6. out = b
  <2> HIDE DEF pieces
  <2> QED BY <1>1, <1>5, FlattenBytes
<1>7. DecodePass(b, kinds, c) = IF Utf8(out) THEN out ELSE b
  BY Zenon DEF DecodePass
<1> HIDE DEF out
<1> QED BY <1>6, <1>7

\* No backslash means a slash.
LEMMA SlashedStill ==
  ASSUME NEW c, NEW b, Still(c, b), "Backslash" \in c.options
  PROVE  Slashed(b) = b
<1>1. b \in Seq(Byte) /\ \A i \in DOMAIN b : b[i] # Backslash
  BY DEF Still
<1>2. Slashed(b) = [i \in DOMAIN b |-> b[i]]
  BY <1>1 DEF Slashed
<1> QED BY <1>1, <1>2

\* There is nothing to cut the path at.
LEMMA CutStill ==
  ASSUME NEW c, NEW b, Still(c, b), NEW byte \in {Nul, Question, Hash}
  PROVE  CutAt(b, byte) = b
<1>1. PICK n \in Nat : n = Len(b) /\ DOMAIN b = 1..n
  BY DEF Still
<1>2. \A i \in 1..n : b[i] # byte
  BY <1>1 DEF Still
<1> DEFINE end == CHOOSE m \in 0..Len(b) : /\ m = Len(b) \/ b[m + 1] = byte
                                           /\ \A i \in 1..m : b[i] # byte
<1>3. \A m \in 0..n : m = n \/ b[m + 1] = byte => m = n
  <2>1. ASSUME NEW m \in 0..n, m # n PROVE b[m + 1] # byte
    <3>1. m + 1 \in 1..n
      BY <2>1
    <3> QED BY <1>2, <3>1
  <2> QED BY <2>1
<1>4. end = n
  BY <1>1, <1>2, <1>3
<1>5. CutAt(b, byte) = SubSeq(b, 1, end)
  BY Zenon DEF CutAt
<1> HIDE DEF end
<1> QED BY <1>1, <1>4, <1>5, SubSeqFull DEF Still

\* Nothing is folded.
LEMMA FullwidthStill ==
  ASSUME NEW c, NEW b, Still(c, b), c.enc.unicode
  PROVE  FoldFullwidth(b) = b
<1>1. b \in Seq(Byte) /\ \A i \in DOMAIN b : ~FullwidthAt(b, i)
  BY DEF Still
<1>2. PICK pieces : pieces = [i \in DOMAIN b |->
          IF FullwidthAt(b, i) THEN <<FullwidthFold(b[i + 2])>>
          ELSE IF \E k \in 1..2 : i > k /\ FullwidthAt(b, i - k) THEN << >> ELSE <<b[i]>>]
  OBVIOUS
<1>3. \A i \in DOMAIN b : ~\E k \in 1..2 : i > k /\ FullwidthAt(b, i - k)
  <2>1. ASSUME NEW i \in DOMAIN b, NEW k \in 1..2, i > k PROVE i - k \in DOMAIN b
    BY <1>1, <2>1
  <2> QED BY <1>1, <2>1
<1>4. pieces = [i \in DOMAIN b |-> <<b[i]>>]
  BY <1>1, <1>2, <1>3
<1>5. FlattenSeq(pieces) = b
  BY <1>1, <1>4, FlattenBytes
<1> QED BY <1>2, <1>5 DEF FoldFullwidth

\* A path without none of its bytes.
LEMMA WithoutNone ==
  ASSUME NEW b \in Seq(Byte), NEW positions, positions = {}
  PROVE  Without(b, positions) = b
<1>1. PICK pieces : pieces = [i \in DOMAIN b |-> IF i \in positions THEN << >> ELSE <<b[i]>>]
  OBVIOUS
<1>2. pieces = [i \in DOMAIN b |-> <<b[i]>>]
  BY <1>1
<1>3. FlattenSeq(pieces) = b
  BY <1>2, FlattenBytes
<1> QED BY <1>1, <1>3 DEF Without

\* There are no parameters.
LEMMA ParamsStill ==
  ASSUME NEW c, NEW b, Still(c, b)
  PROVE  StripParams(b) = b
<1>1. b \in Seq(Byte) /\ \A i \in DOMAIN b : b[i] # Semicolon
  BY DEF Still
<1>2. \A i \in DOMAIN b : \A j \in 1..i : j \in DOMAIN b
  BY <1>1
<1>3. {i \in DOMAIN b : \E j \in 1..i : b[j] = Semicolon /\ \A k \in j..i : b[k] # Slash} = {}
  BY <1>1, <1>2
<1> QED BY <1>1, <1>3, WithoutNone DEF StripParams

\* No slash follows another.
LEMMA MergedStill ==
  ASSUME NEW c, NEW b, Still(c, b)
  PROVE  MergeSlashes(b) = b
<1>1. b \in Seq(Byte) /\ \A i \in DOMAIN b : i - 1 \in DOMAIN b /\ b[i] = Slash => b[i - 1] # Slash
  BY DEF Still
<1>2. \A i \in DOMAIN b : i > 1 => i - 1 \in DOMAIN b
  BY <1>1
<1>3. {i \in DOMAIN b : i > 1 /\ b[i] = Slash /\ b[i - 1] = Slash} = {}
  BY <1>1, <1>2
<1> QED BY <1>1, <1>3, WithoutNone DEF MergeSlashes

\* Nothing is in upper case.
LEMMA FoldedStill ==
  ASSUME NEW c, NEW b, Still(c, b), c.insensitive
  PROVE  Lowered(b) = b
<1>1. b \in Seq(Byte) /\ ~HasUppercase(b)
  BY DEF Still
<1>2. b = [i \in DOMAIN b |-> b[i]]
  BY <1>1
<1> QED BY <1>1, <1>2, FoldingIsIdle

\* Without dot-segments every segment is kept.
LEMMA DotsStill ==
  ASSUME NEW c, NEW b, Still(c, b), Rooted(b)
  PROVE  RemoveDots(b) = b
<1>1. b \in Seq(Byte)
  BY DEF Still
<1>2. PICK segs, L, cuts : segs = PathOf(b) /\ L = SlashList(b) /\ cuts = Cuts(b)
  OBVIOUS
<1>3. CutsSegments(b, L, cuts)
  BY <1>1, <1>2, CutsAre
<1>4. PICK n \in Nat : n = Len(L) /\ n <= Len(b)
  BY <1>3 DEF CutsSegments
<1>5. segs = [k \in 1..n |-> SubSeq(b, cuts[k] + 1, cuts[k + 1] - 1)]
  BY <1>2, <1>3, <1>4 DEF CutsSegments
<1>6. \A k \in 1..n : segs[k] \in Seq(Byte)
  <2>1. SUFFICES ASSUME NEW k \in 1..n PROVE segs[k] \in Seq(Byte)
    OBVIOUS
  <2>2. PICK s, e : s = cuts[k] /\ e = cuts[k + 1] /\ s \in SlashesOf(b) /\ Spans(b, s, e)
    BY <1>3, <1>4 DEF CutsSegments
  <2>3. s \in 1..Len(b) /\ e \in (s + 1)..(Len(b) + 1)
    BY <2>2 DEF Spans, SlashesOf
  <2>4. SubSeq(b, s + 1, e - 1) \in Seq(Byte)
    <3>1. s + 1 \in Int /\ e - 1 \in Int /\ \A i \in (s + 1)..(e - 1) : b[i] \in Byte
      BY <1>1, <2>3
    <3> QED BY <3>1, SubSeqProperties
  <2> QED BY <1>5, <2>2, <2>4
<1>7. segs \in Seq(Seq(Byte)) /\ Len(segs) = n /\ DOMAIN segs = 1..n
  BY <1>5, <1>6
<1>8. \A k \in 1..n : segs[k] \notin {<<Dot>>, <<Dot, Dot>>}
  BY <1>2, <1>7 DEF Still
<1> DEFINE Path == PathOf(b)
           Left(out, k) == IF Path[k] = <<Dot>> \/ out[k - 1] = << >> THEN out[k - 1] ELSE Front(out[k - 1])
           StepTo(out, k) ==
             IF k = 0 THEN << >>
             ELSE IF Path[k] \notin {<<Dot>>, <<Dot, Dot>>} THEN Append(out[k - 1], Path[k])
             ELSE IF k = Len(Path) THEN Append(Left(out, k), Empty) ELSE Left(out, k)
           f == CHOOSE g : g = [k \in 0..Len(Path) |-> StepTo(g, k)]
<1>9. RemoveDots(b) = FlattenSeq([k \in DOMAIN f[Len(Path)] |-> <<Slash>> \o f[Len(Path)][k]])
  BY Zenon DEF RemoveDots
<1>9a. Path = segs
  BY <1>2
<1> HIDE DEF Path
<1>10. \A out : \A k \in 1..n : StepTo(out, k) = Append(out[k - 1], segs[k])
  BY <1>8, <1>9a
<1>11. \A out : StepTo(out, 0) = << >>
  OBVIOUS
<1>12. PICK F : F = [k \in 0..n |-> SubSeq(segs, 1, k)]
  OBVIOUS
<1>13. ASSUME NEW k \in 1..n PROVE F[k] = Append(F[k - 1], segs[k])
  <2>0. k \in 0..n /\ k - 1 \in 0..n
    OBVIOUS
  <2>1. F[k] = SubSeq(segs, 1, k) /\ F[k - 1] = SubSeq(segs, 1, k - 1)
    BY <1>12, <2>0
  <2>2. 1 \in 1..Len(segs) /\ k \in 1..Len(segs)
    BY <1>7
  <2>3. SubSeq(segs, 1, k) = SubSeq(segs, 1, k - 1) \o <<segs[k]>>
    BY <1>7, <2>2, SubSeqRecursiveSecond
  <2>4. PICK x \in Seq(Seq(Byte)) : x = SubSeq(segs, 1, k - 1)
    <3>1. 1 \in Int /\ k - 1 \in Int /\ \A i \in 1..(k - 1) : segs[i] \in Seq(Byte)
      BY <1>6
    <3>2. SubSeq(segs, 1, k - 1) \in Seq(Seq(Byte))
      BY <3>1, SubSeqProperties
    <3> QED BY <3>2
  <2>5. PICK y \in Seq(Byte) : y = segs[k]
    BY <1>6
  <2>6. x \o <<y>> = Append(x, y)
    BY <2>4, <2>5
  <2> QED BY <2>1, <2>3, <2>4, <2>5, <2>6
<1>14. F[0] = << >>
  <2>1. 0 \in 0..n /\ F[0] = SubSeq(segs, 1, 0)
    BY <1>12
  <2>2. SubSeq(segs, 1, 0) = << >>
    BY SubSeqEmpty
  <2> QED BY <2>1, <2>2
<1> HIDE DEF StepTo
<1>15. F = [k \in 0..n |-> StepTo(F, k)]
  <2>1. SUFFICES \A k \in 0..n : F[k] = StepTo(F, k)
    BY <1>12
  <2>2. F[0] = StepTo(F, 0)
    BY <1>11, <1>14
  <2>3. \A k \in 1..n : F[k] = StepTo(F, k)
    BY <1>10, <1>13
  <2> QED BY <2>2, <2>3
<1>16. f = [k \in 0..n |-> StepTo(f, k)]
  BY <1>7, <1>15, <1>9a
<1> HIDE DEF f
<1>17. \A k \in 0..n : f[k] = StepTo(f, k)
  BY <1>16
<1>18. \A k \in 0..n : f[k] = F[k]
  <2> DEFINE P == {k \in 0..n : f[k] # F[k]}
  <2>1. SUFFICES ASSUME P # {} PROVE FALSE
    OBVIOUS
  <2>2. P \in SUBSET Nat
    OBVIOUS
  <2>3. PICK k \in P : \A j \in P : k <= j
    BY <2>1, <2>2, LeastNatural
  <2>4. k \in 0..n /\ f[k] # F[k]
    OBVIOUS
  <2>5. k # 0
    BY <1>11, <1>14, <1>17, <2>4
  <2>6. k \in 1..n /\ k - 1 \in 0..n /\ ~(k <= k - 1)
    BY <2>4, <2>5
  <2>7. f[k - 1] = F[k - 1]
    BY <2>3, <2>6
  <2>8. f[k] = Append(f[k - 1], segs[k]) /\ F[k] = Append(F[k - 1], segs[k])
    BY <1>10, <1>13, <1>17, <2>4, <2>6
  <2> QED BY <2>4, <2>7, <2>8
<1>19. f[Len(segs)] = segs
  <2>1. n \in 0..n
    OBVIOUS
  <2>2. F[n] = SubSeq(segs, 1, n)
    BY <1>12, <2>1
  <2>3. SubSeq(segs, 1, n) = segs
    BY <1>7, SubSeqFull
  <2> QED BY <1>7, <1>18, <2>1, <2>2, <2>3
<1>20. RemoveDots(b) = FlattenSeq([k \in DOMAIN segs |-> <<Slash>> \o segs[k]])
  BY <1>9, <1>9a, <1>19
<1>21. PICK seqs : seqs = [k \in DOMAIN PathOf(b) |-> <<Slash>> \o PathOf(b)[k]]
  OBVIOUS
<1>22. FlattenSeq(seqs) = b
  BY <1>1, <1>21, FlattenSegments
<1> QED BY <1>2, <1>20, <1>21, <1>22

\* A canonical path is left alone by every transform, unless there is a backslash that
\* folding makes.
LEMMA CanonicalStill ==
  ASSUME Arguments, Canonical(config, request), IsRequestPath(request), ~FullwidthBackslash
  PROVE  Still(config, request)
<1>1. /\ config \in Config /\ request \in Seq(Byte) /\ Len(request) < NoOffset
      /\ Views[1].bytes = request /\ 1 \in DOMAIN Views
  BY ArgumentFacts, ViewsFacts, RequestsAssumption DEF Arguments
<1>2. Unmarked(config, request)
  BY <1>1, CanonicalBytes
<1>3. config.enc.unicode => \A i \in DOMAIN request : ~FullwidthAt(request, i)
  <2>1. SUFFICES ASSUME config.enc.unicode, NEW i \in DOMAIN request, FullwidthAt(request, i) PROVE FALSE
    OBVIOUS
  <2>2. FullwidthFold(request[i + 2]) = Backslash /\ "Backslash" \notin config.options
    BY <1>2, <2>1 DEF Unmarked
  <2> QED BY <1>1, <2>1, <2>2, Zenon DEF FullwidthBackslash
<1>4. ~HasEscape(request) /\ \A enabled : ScanAll(config, request, enabled).classes = ScanOf(Original(request), enabled, config.enc).classes
  BY <1>1, UnescapedScan DEF Canonical
<1>5. \A k \in DOMAIN PathOf(request) : PathOf(request)[k] \notin {<<Dot>>, <<Dot, Dot>>}
  <2>1. SUFFICES ASSUME NEW k \in DOMAIN PathOf(request), PathOf(request)[k] \in {<<Dot>>, <<Dot, Dot>>} PROVE FALSE
    OBVIOUS
  <2>2. "DotSegment" \in ScanOf(Original(request), Strict(config), config.enc).classes
    BY <1>1, <2>1, DotSegmentFound
  <2>3. "DotSegment" \in Strict(config)
    BY DEF Strict, Positional, EnabledClasses, Mandatory
  <2> QED BY <1>4, <2>2, <2>3 DEF Canonical
<1>6. \A i \in DOMAIN request : request[i] \notin {Nul, Semicolon, Question, Hash}
  BY <1>2 DEF Unmarked, IsRequestPath
<1> QED BY <1>1, <1>2, <1>3, <1>4, <1>5, <1>6 DEF Unmarked, Still

\* None of the transforms finds anything.
LEMMA TransformStill ==
  ASSUME Transform, text = request, Still(config, request)
  PROVE  text' = request
<1>1. CASE DecodeEscapes
  BY <1>1, DecodeStill DEF DecodeEscapes
<1>2. CASE SlashBackslashes
  BY <1>2, SlashedStill DEF SlashBackslashes, Rewrite
<1>3. CASE TruncateAtNul
  BY <1>3, CutStill DEF TruncateAtNul, Rewrite, Still
<1>4. CASE CutQuery
  BY <1>4, CutStill DEF CutQuery, Rewrite, Still
<1>5. CASE CutFragment
  BY <1>5, CutStill DEF CutFragment, Rewrite, Still
<1>6. CASE FoldUnicode
  BY <1>6, FullwidthStill DEF FoldUnicode, Rewrite
<1>7. CASE Strip
  BY <1>7, ParamsStill DEF Strip, Rewrite
<1>8. CASE Merge
  BY <1>8, MergedStill DEF Merge, Rewrite
<1>9. CASE ResolveDots
  BY <1>9, DotsStill DEF ResolveDots, Rewrite
<1>10. CASE FoldCase
  BY <1>10, FoldedStill DEF FoldCase, Rewrite
<1> QED BY <1>1, <1>2, <1>3, <1>4, <1>5, <1>6, <1>7, <1>8, <1>9, <1>10 DEF Transform

\* The backend starts on the request as it came, and leaves a canonical one as it came.
BackendInv == IInv /\ (~Done => text = request) /\ CanonicalUntouched

\* The guard does not touch the text.
LEMMA JudgeKeeps ==
  ASSUME BackendInv, Judge
  PROVE  BackendInv'
<1>1. IInv'
  BY StepKeeps DEF BackendInv, Judge
<1>2. ~Done /\ request' = request /\ text' = text
  BY DEF Judge, Next, ValidateInput, Interpret, JudgePositions, RequireCanonical, AskProbes, Answer, arguments, Done
<1>3. text' = request'
  BY <1>2 DEF BackendInv
<1> QED BY <1>1, <1>3 DEF BackendInv, CanonicalUntouched

\* Each transform leaves a canonical request as it is.
LEMMA TransformKeeps ==
  ASSUME BackendInv, Transform
  PROVE  BackendInv'
<1>1. Done /\ UNCHANGED vars
  BY DEF Transform, DecodeEscapes, SlashBackslashes, TruncateAtNul, CutQuery, CutFragment,
         FoldUnicode, Strip, Merge, ResolveDots, FoldCase, Rewrite
<1>2. IInv' /\ Done' /\ (Guarded' <=> Guarded) /\ (FullwidthBackslash' <=> FullwidthBackslash)
      /\ config' = config /\ request' = request
  <2>1. IInv'
    BY <1>1, StutterKeeps DEF BackendInv
  <2>2. Done' /\ (Guarded' <=> Guarded) /\ config' = config /\ request' = request
    BY <1>1 DEF Guarded, Done, vars
  <2>3. FullwidthBackslash' <=> FullwidthBackslash
    BY <2>2 DEF FullwidthBackslash, Views
  <2> QED BY <2>1, <2>2, <2>3
<1>3. ASSUME Guarded, config.mode = "RequireCanonical", ~FullwidthBackslash
      PROVE  text' = request
  <2>1. text = request
    BY <1>3 DEF BackendInv, CanonicalUntouched
  <2>2. Arguments /\ Permits(table, config, request)
    BY <1>3 DEF BackendInv, IInv, Guarded, Done
  <2>3. Canonical(config, request) /\ IsRequestPath(request)
    BY <1>3, <2>2 DEF Permits
  <2>4. Still(config, request)
    BY <1>3, <2>2, <2>3, CanonicalStill
  <2> QED BY <2>1, <2>4, TransformStill
<1> QED BY <1>2, <1>3 DEF BackendInv, CanonicalUntouched

\* In the strict mode a backend finds nothing to transform in an answered request, for
\* every table, configuration and request (noncanonical_deny, escape_present).
THEOREM CanonicalAlwaysUntouched == BackendSpec => []CanonicalUntouched
<1>1. BackendInit => BackendInv
  BY InitHolds DEF BackendInit, Init, BackendInv, CanonicalUntouched
<1>2. BackendInv /\ [BackendNext]_backendVars => BackendInv'
  <2>1. ASSUME BackendInv, UNCHANGED backendVars PROVE BackendInv'
    <3>1. IInv'
      BY <2>1, StutterKeeps DEF BackendInv, backendVars
    <3>2. (~Done => text = request)' /\ CanonicalUntouched'
      BY <2>1 DEF BackendInv, backendVars, vars, Done, CanonicalUntouched, Guarded, FullwidthBackslash, Views
    <3> QED BY <3>1, <3>2 DEF BackendInv
  <2> QED BY <2>1, JudgeKeeps, TransformKeeps DEF BackendNext
<1>3. BackendInv => CanonicalUntouched
  BY DEF BackendInv
<1> QED BY <1>1, <1>2, <1>3, PTL DEF BackendSpec
=============================================================================
