# A specification of huskarl-route-guard

`huskarl-route-guard` answers one question for an authorization layer: which rule
governs this request path? It answers only when no backend of a declared family can
read the path as one that another rule governs; otherwise it denies. This directory
specifies the parts of the crate in TLA+, checks them with TLC on small instances, and
proves with TLAPS, for every input, the main invariants of the decode driver, the scanner,
the matcher, the coverage walk, the router build and the fluent calls before it, the guard's
verdict and the explanation of a denial, that a stricter configuration only denies more, and that
the strict mode leaves a backend nothing to rewrite.

## 1. The system

A router is built once, from registrations, and is immutable afterwards. `resolve` is a
pure function of the router, a path and a method. There are no threads, no I/O, no
persistence and no shared mutable state, so the hazards are not races. They are the
hazards of one sequential pipeline in which every stage relies on an exact promise of
the stage before it: offsets carried through two decodes, a recursion that backtracks,
early returns in an accumulating visitor, cached summaries next to a recomputed
explanation. The one real interleaving is outside the crate: a backend applies its
transforms in an order nobody knows.

| Component (source) | State | Operations | What makes it correct |
|---|---|---|---|
| Percent interpretations (`percent.rs`) | the current view: bytes, origin of every byte | `interpretations`, `decode` | every permitted reading is visited; every byte's origin in the request is exact |
| Structural scanner (`structural.rs`) | cursor, current segment, findings | `scan_interpretation`, `include` | exact classes, earliest position and climbs; a class has a position; wider masks find no less |
| Route matcher (`route_tree.rs`) | recursion over the compiled tree | `at`, `route_skipping`, `descend` | highest precedence among all matches, in spite of dead ends; always returns |
| Anchor coverage (`route_tree.rs`) | recursion, cover gathered so far; summaries cached per node | `anchor_cover`, `anchor_identities`, `summarize` | no path extending the anchor can reach a rule outside the cover |
| Router build (`route_tree.rs`, `path_router.rs`) | entries, fallbacks, source tree, compiled views | `build_inner`, `build_with_fallbacks`, `validate_opaque`, `compile_method` | accepts exactly the sensible sets, in any order; views answer what was registered |
| Guard verdict (`guard.rs`) | joined findings, first relocation | `checked` and its helpers, `structural_anchor` | permits exactly what is unambiguous; a stricter setting only denies more; probes come last |
| Explanation (`path_router.rs`, `guard.rs`) | raw match, coverage shown | `inspect_raw`, `explain`, `kind` | what is shown is what the verdict was about |
| Pattern grammar (`route_tree.rs`, `path_router.rs`) | text, cursor, segments lowered so far | `subtree_patterns`, `split_body`, `lower_segment`, `lower_matchit`, `validate_pattern` | accepts the grammar and nothing the guard would deny; a terminal stands for one text; reading ends |
| Fluent builder (`path_router.rs`) | drafts of registrations, those handed over | `path`, `subtree`, `with_path`, `method`, `fallback_inherit`, `register`, ... | the router answers what the calls said, in whatever order |
| Configuration (`config.rs`) | structural classes, configuration | the constructors and the `with_`/`without_` calls | reads back as written; a call that adds a recognition only denies more |
| Reference backend (`tests/path_confusion_proptest.rs`) | the path it has made so far | ten transforms | no answered request is relocated; the anchor survives |
| Method-gap lint (`diagnostics.rs`) | three nested loops, reports | `method_gaps`, `overlap_path`, `method_gap` | reports are real; representatives suffice |

How they interact: `RuleRouter::resolve` calls `PathConfusionGuard::checked`, which runs
the decode driver; the driver calls back with each view; the callback scans the view and
routes its bytes; the joined scan gives an anchor; the anchor is looked up in the
coverage of the same compiled view; the verdict is compared with the route of the
original bytes. `explain` computes match and anchor a second time, beside the verdict.
The lint calls the matcher with one terminal skipped. Everything the guard and the
validation of patterns read of the configuration was written by the fluent calls.

## 2. Modules

| Module | Models | Built on |
|---|---|---|
| `Percent` | bytes, escapes, decode, alternate spellings, as operators | |
| `Interpretations` | the decode loop and its driver, one action per byte | `Percent` |
| `Structural` | classes, masks, scan results; what a scan reports, stated without a loop (`ScanOf`) | `Percent` |
| `Scanner` | the loop of `scan_interpretation`, one action per kind of unit | `Structural` |
| `RouteTree` | a compiled view; what a path claims; precedence | |
| `Lookup` | abstract: one answer, the best match or none | `RouteTree` |
| `Matcher` | the recursion with backtracking; implements `Lookup` | `RouteTree` |
| `Reach` | covers; the rules beyond an anchor, stated without a walk (`AnchorIds`) | `RouteTree` |
| `Coverage` | the walk of `anchor_cover` and its diagnostic twin | `Reach` |
| `RequestPath` | what is a request path; its segments | `Percent`, `RouteTree` |
| `Analysis` | the configuration; joined findings, the anchor, the rules beyond it | `Structural`, `Reach`, `RequestPath` |
| `Permission` | when a request may be answered, and when a configuration is stricter, without a pipeline | `Analysis` |
| `Gate` | abstract: one decision, an answer or a refusal | |
| `Guard` | the verdict, one action per stage and per interpretation; implements `Gate` | `Permission` |
| `Explain` | a verdict with its unchecked match before it and its explanation after it | `Guard` |
| `Backend` | the guard composed with a backend that keeps rewriting | `Guard` |
| `Lowering` | from the text of a registration to terminals, one action per kind of unit | `Analysis` |
| `Settings` | writing a configuration call by call | `Permission` |
| `Registration` | building a router: validation, ids, insertion, exclusivity, compilation | `RouteTree` |
| `Builder` | writing registrations call by call, then the build | `Registration` |
| `Diagnostics` | the method-gap lint over a router just built | `Registration` |
| `PathProofs` | lemmas on the operators the models share; what lies beyond an anchor; what a stricter configuration permits; plain and canonical paths | `Permission`, TLAPS |
| `ScannerProofs` | the proofs about the decode driver and the scan of what it shows | `Interpretations`, `Scanner`, `PathProofs` |
| `MatcherProofs`, `CoverageProofs` | the proofs about each machine | their modules, `PathProofs` |
| `LoweringProofs` | the proofs about pattern text | `Lowering`, `PathProofs` |
| `RegistrationProofs` | the proofs about the build, the drafts before it and the lint after it | `Builder`, `Diagnostics`, `PathProofs` |
| `SettingsProofs` | the proofs about writing a configuration | `Settings`, `PathProofs` |
| `GuardProofs` | the proofs about the verdict, its explanation and the backend behind it | `Explain`, `Backend`, `PathProofs` |

The models are cut where one part of the code uses another only through its result. A
loop or recursion is specified twice: as a machine (`Interpretations`, `Scanner`,
`Matcher`, `Coverage`, `Guard`, `Lowering`) and as what it computes (`Interpretations` of
`Percent`, `ScanOf`, `IsBest`/`RuleOf`, `AnchorIds`, `Permits`, `InGrammar`). A run shows
that the two agree; the modules above then use the second. `Matcher` and `Guard` go
further: an abstract specification with one step, `Lookup` or `Gate`, is implemented by
the machine under a refinement mapping, and the step simulation is proved.

### Correspondence

* **Offsets.** Offset 0 of the code is position 1. "No earliest" is `NoOffset`, a number
  greater than any position, so that minima need no special case. "No rule" (`None`) is
  `DEFAULT_RULE`, as in `anchor_cover`.
* **Paths in the tree modules** are sequences of segments, `Empty` for an empty one:
  `/a/` is `<<a, Empty>>`. The bare `/` is `<<Empty>>`. In `Guard` a segment is the
  sequence of its bytes, so the same definitions of matching route raw bytes.
* **Terminals.** A node is the sequence of edges to it and a terminal a node with one of
  three slots, as in `Node`. The matcher's call stack is `node` (edges taken) with
  `stages` (the branch each call tries next). A call that comes back empty-handed finds
  its caller at the next stage.
* **Methods.** `compile_method` produces one tree per named method and one for the
  rest. Matching and coverage take such a tree; only `Registration` and `Diagnostics`
  know about methods.
* **Guard stages.** `stage` is the place in `checked`. `Interpret` is one call of the
  closure of `interpretations_deny`, with both of its early returns. `verdict` is set
  once. `ResolveError` is its kind and class; wording and probe names are left out.
  A probe is what it says of the request in hand, so the probes of a configuration are a
  sequence of booleans, and a denial names the index of the probe.
* **Explanation.** An `Option` is a set with at most one element: `raw_match`,
  `structural_explanation`, `relocation`. `Coverage(anchor)` computes the rules beyond the
  anchor again, as the code does, rather than keep those of the verdict.
* **Pattern text** is its bytes. `parts` are the segments of the body, `segments` those
  lowered so far, `i` the cursor of `lower_segment`, or the index of the segment that
  `validate_pattern` looks at. `accepted` collects the terminals; where `Registration` starts
  is where `Lowering` ends.
* **Fluent calls.** `Settings` keeps the classes in hand and the configuration they move
  into; `calls` is a log that only the properties read. In `Builder` a draft is a
  registration still in hand, `handed` says which have moved into the builder, and `log` is
  the calls of each draft. Drafts are written side by side, in any interleaving.
* **Backend.** Each transform of `apply` is an action, enabled when the configuration
  declares it. The tests sample one order per case; here any sequence is a behaviour.
  Decode passes are bounded by the declared depth, each with its own choice of classes.
* **Registration.** A pattern is the terminal it lowers to; `Malformed` patterns are the
  ones `lower_matchit` rejects. Structural and uppercase literals are sets. The order
  of the code is kept: registration by registration, pattern by pattern, then rules, then
  insertion, fallbacks, exclusivity and compilation.

## 3. What is checked

| Run | Instance | Distinct states | Shows |
|---|---|---|---|
| `interpretations` | all paths `/` + up to 6 of `% 2 5 f`; one or two passes | 59,014 | provenance is exact at every depth; nothing decoded can pass for written; the driver visits what it must and returns |
| `scanner` | all readings of `/` + up to 3 of 14 tokens; 4 masks | 186,152 | findings are exact; class and position go together; climbs and the dot-segment class go together; monotone; returns |
| `matcher` | all views of up to 3 of 21 terminals; all paths of up to 3 segments; one terminal skipped or none | 515,892 | best match, no lost branch, refinement of `Lookup`, which includes that it answers |
| `coverage` | all views of up to 3 of 21 terminals with either rule; anchors of up to 2 segments; continuations of up to 2 | 446,064 | the walk gathers the live rules; the cached and the explained cover agree; no continuation escapes; returns |
| `guard` | 3 tables; 12 configurations; `/` + up to 3 of 15 tokens; each request explained | 835,510 | refinement of `Gate`: permitted exactly when unambiguous; a stricter setting only denies more, two exceptions apart; silent on plain paths; probes last; the unchecked match and the explanation tell the story of the verdict |
| `backend` | the same requests, `/a` + up to 4 climbing tokens, `/` + up to 3 spellings of a backslash; a backslash or an escape in literals; 4 configurations; every sequence of transforms | 492,539 | no relocation, four exceptions apart; the anchor survives, also for denied requests; a canonical request is a fixed point |
| `lowering` | all texts `/` + up to 6 of `/ { } * a`, and up to 3 of 12 tokens; each as a path and as a subtree; 3 configurations | 695,782 | accepted exactly when in the documented grammar and clean, two exceptions apart; a terminal determines its text; a subtree covers; what is accepted can be reached; reading ends |
| `settings` | every sequence of up to 4 calls | 354,964 | the configuration reads as written; adding a class, a spelling or a probe only denies |
| `registration` | exclusive pairs, method tables on nearby terminals, inheriting chains of three, faulty sets; and, linted, all pairs of patterns with two kinds of method tables, and triples | 286,385 | accepted exactly when sensible; views mean what was registered; ids resolve; errors blame the offender; reported gaps are real; one representative per pair suffices unless a third pattern interferes |
| `builder` | up to two drafts side by side, up to three calls on them, handed over in any order or not at all | 1,176,975 | the router answers what the calls said |
| `relocation` | as `backend`; 4 tokens | violated | a test says that no modelled backend relocates an answered request (see Findings) |
| `method_blind` | as `registration`, unlinted | violated | a comment says traversal does not depend on the method (see Findings) |

Types are not checked apart: those of `Scanner` and `Matcher` are proved, and for the
others every property evaluates the state it speaks of.

### Bounds, and why they are enough

* **interpretations.** Six bytes hold an escape of an escape (`%2525`), an escape whose
  decoded percent sign joins the digits after it, and escapes cut off at every point.
* **scanner.** Three tokens make a segment with a neighbour on either side, or a
  dot-segment with a delimiter inside it. A token is up to six bytes, so that overlong
  forms of every alignment occur at decode depth one, and `%25` + `2e` at depth two.
  The byte classes not in the vocabulary behave like one that is (a fragment like a
  query, a fullwidth slash like a fullwidth dot).
* **matcher, coverage.** Depth two with one literal and the wildcard gives each kind of
  dead end (literal then wildcard, wildcard then catch-all, missing slot) and a return
  of two levels. Precedence compares two terminals, so a third suffices to lie between.
* **guard, backend.** The tables differ in where rules meet: a subtree beside an exact
  path, literals in front of and behind a wildcard, a whole-table subtree with a blocking gap.
  Three tokens allow an escape of an escape, a climb after a split, and a structural byte
  before or after a content byte; `%2561` is a letter only after two passes. The
  configurations turn each knob alone and all of them at once, and put up to three
  probes in a row. The longer climbing requests of `backend` have two climbs past an
  ambiguous separator. `max_len` 3 puts the budget inside the requests,
  and a percent sign alone is a token, so that what counts against it differs between the modes. In `backend`
  two literals hold what a half-decoded path can be equal to, a backslash and the content escapes `%61%61`
  (`validate_pattern` lets both through where backslashes are content), and two configurations recognise
  fullwidth forms alone: each exception of `NoRelocation` occurs.
* **lowering.** Six bytes after the slash hold a doubled brace next to a group, a group cut
  off at every point, a catch-all before the end, and two segments of which the first is
  one of these. The tokens bring in every class the validation looks for, the escape of
  an escape, and an uppercase letter inside and outside a capture.
* **settings.** Four calls are two taking-ins of the classes with a call before each, or a
  class, a spelling and a probe taken in together. `AddingOnlyDenies` asks of a table and
  six requests, each of which some class, spelling or probe denies.
* **builder.** Two drafts are the least that can be handed over in the other order than
  they were written; three calls put a late pattern and a late setting after a rule. The path `//`
  is not among what can be written: its subtree is malformed and no path claims it.
* **registration.** Two methods and one no definition names; `DENIED_RULE`
  is 4 in place of `u32::MAX - 1`, so that the ids do run out. Families rather than all
  sets: each family is complete for the question it serves.

`CHECK_DEADLOCK FALSE` everywhere: the program returns, and nothing follows.

### Fairness

`Interpretations`, `Scanner`, `Matcher` and `Coverage` assume weak fairness of their next-state
relation: one thread runs a loop or a recursion that does not block, so a step that is possible is
taken. `Terminates` (`DriverReturns`), and in `Matcher` the liveness half of `ImplementsLookup`, say that each
returns. `Lowering` assumes `WF_vars(Read)`, the steps of the cursor of `lower_segment` and
of the loop around it, for the same reason; `ReadingEnds` says that a text is read to an end
however its braces are paired. Its other stages are bounded loops over a finite sequence
and take no fairness. `Guard`, `Explain`, `Backend`, `Settings`, `Registration`, `Builder` and
`Diagnostics` assume no fairness: they are checked for safety only. A backend in
particular may stop anywhere, and a caller need not build what is being written.

### Findings

`method_blind`: the comment on `route` (`route_tree.rs:905`) says that traversal is
method-blind and that the method never drives backtracking. Since trees are compiled
per method, an inheriting path without a rule for the method is absent from that
method's tree, and traversal goes on to another terminal. The comment on
`compile_method` and the tests in `tests/inheritance.rs` describe what the code does;
the comment on `route` does not.

`relocation`: the test `guard_denies_every_modeled_relocation` (`path_confusion_proptest.rs:949`)
says that no modelled backend relocates an answered request; its family is the power set of the
available transforms, so folding case is available under `Insensitive` and not required. For
a spelling with an uppercase letter, `interpretation_rule_deny` routes the folded bytes *instead
of* the spelling. With `/{*rest}`, `/{x}` and `/a/{x}` under one rule and `/a` and `/{x}/a` under
another, `/A/%61` is answered (`/a/%61` and `/a/a` have the rule of the request), and a backend
that decodes content without folding case makes it `/A/a`, which has the other rule. The catalog of the
test has no such pair. By the doc of `Insensitive` such a backend is not what was declared, but
`docs/guide/configuring.md:100` recommends `Insensitive` where the case behaviour is not known.

There are three more ways around the claim of that test, with spellings it does not draw or tables it
does not have. `NoRelocation` states the claim with exactly the four excepted; the run `backend` fails
when any of them is taken out:

* `DecodedUnfolded`, the backend above.
* `FullwidthBackslash`: `fold_unicode` (`path_confusion_proptest.rs:591`) makes a backslash of a
  fullwidth one wherever fullwidth forms are recognised, while the guard counts it only when
  backslashes are declared too (`config.rs:645`). Where they are not, `/＼/a` becomes `/\/a`,
  which a literal `\` claims. The premise `no_modeled_transform_rewrites_inside_the_anchor`
  (`path_confusion_proptest.rs:1108`) and the fixed point of the strict mode have the same exception
  (`AnchorSurvives`, `CanonicalUntouched`).
* `EscapedBackslash`: where backslashes are content, a pass of the test's backend leaves `%5c`
  alone whatever else it decodes (`KindOf`), and the guard has no view with `%5c` kept and `%61`
  decoded. `/%5c/%61` may end up at `/%5c/a`.
* `EscapeInTable`: a pass may decode some classes of escapes and not others, or one level of two, so it ends at
  spellings between the views. With escapes in a literal, as in `/%61%61`, such a spelling is a
  path of the table: `/%2561%61` may end up there, under two passes, while the guard routes
  the request as written and with all escapes decoded.

The same substitution is an exception to the contract (`docs/reference/contract.md:77`), the guide
(`docs/guide/configuring.md:96`) and the test `l2_monotone` (`guard.rs:1182`), which say that a
stricter setting only denies more, case folding included: with case kept, `/A/%61` is denied.

The other exception to that claim is in the budget: the default mode counts any percent sign
against it (`interpretations_deny`, `guard.rs:257`), the strict mode only a complete escape
(`noncanonical_deny`, `escape_present`). A path longer than `max_analysis_path_len` with a
percent sign that starts no escape, and nothing else to deny, is denied by `RejectAmbiguous` and
answered by `RequireCanonical`, although the test `l5_noncanonical_dominates` (`guard.rs:1235`)
says that the strict mode denies a superset. The test's paths never reach the budget.
`StricterOnlyDenies` states the claim with exactly these two exceptions (`FoldedAway`,
`StrayPercentOverBudget`), and both occur in the run `guard`.

`AcceptsExactly` states the documented grammar with two exceptions, texts that
`docs/reference/routing.md` lists as build-time errors and that the code accepts. Both occur in the run
`lowering`, which fails when either is taken out:

* `BraceInName`: `lower_segment` ends a group at the first close brace and asks of a name only that
  it is not empty and holds no asterisk, so `/{a{}`, `/{a{b}` and `/{*{}` are accepted. The comment there
  (`route_tree.rs:240`) says that names contain no braces, and `routing.md:43` asks for balanced braces.
  The exception is tight: with a plain byte for each brace in its names the text must be a
  documented pattern. The name means nothing to a match.
* `TwoSlashesAlone`: `split_body` takes a slash off either end before it looks for empty segments, so
  `//` is accepted, with nothing left to validate, and lowered to the trailing-slash slot of the root.
  The doc of `NonCanonical` (`path_router.rs:93`) lists `//` among the forms that active guards forbid
  in literals, and `routing.md:40` allows no empty interior segment in any mode. No path can claim that
  slot; it only widens the cover of the root anchor.

Some accepted patterns cannot be asked for. A literal `?` or `#` is
accepted when query or fragment handling is off or the guard is disabled, but no request path contains
one; a content escape is accepted in the strict mode, which denies every escape; and `//` is claimed by no
path. `AcceptedIsReachable` says that there are no others.

## 4. What is proved

The proof modules follow one plan: an inductive invariant, a lemma per action, one
temporal step per theorem. The assumptions are those of the modules: the constants are
well formed (`ViewsAssumption`, `ViewsFinite`, `TablesAssumption`, `ConfigsAssumption`,
`RequestsAssumption`, `BuildsAssumption`, ...) and positions are smaller than `NoOffset`.
Nothing bounds the tables, the requests, the registrations or the sets they come from.

**`PathProofs`** holds what several of them rest on. `LeastNatural` and `EveryNatural` are
well-foundedness and induction over a set of numbers, both from the library's facts about
finite sets. With them the recursive function `InOrder` (hence `Kept`, hence a decode)
unfolds, `BestExists` and `BestUnique` say that the terminals a path claims have exactly one
best, and `ContinuationCovered` is the promise of coverage without its walk: whatever path
extends an anchor, the rule it resolves to is among `AnchorIds`.

**`ScannerProofs`**, the decode driver: `ProvenanceAlwaysSound`, `DecodedBytesAlwaysEscaped`,
`EveryInterpretationVisited`, for every request and pass limit. The first two follow from one
invariant: every view shown so far is `Sound` (one origin per byte, in the request, strictly
in order, and a byte is the one at its origin unless a percent sign is there), and so is
the part of the view that is being decoded (`Pending`), whose origins lie before that of the
cursor. The last part is what makes the next origin greater than all before it. The third
needs the second invariant `Exact`: what the loop has written is the decode of the positions
behind the cursor, position by position.

**`ScannerProofs`**, the scan: `TypeCorrect`, `EarliestAlwaysAgrees`, `PopsAlwaysAgree`,
`ScanIsComplete`, `ScanIsMonotone`, for every set of well-formed interpretations and every mask.
`EarliestAgrees` is not inductive alone: the next hit may be the dot-segment found when its
segment ends, so the invariant also says that the current segment starts inside the request.
`PopsAgree` speaks of the end only; its invariant relates, at every step, the climbs
counted, the class found and the alternate dots still pending in the current segment.
`ScanIsComplete` compares the loop with sets of units and segments. Its invariant `Found`
says what the state tells (`Tracks`): the result tallies the units before the cursor and
every segment they make up but the last (`Tallies`), and the segment state describes the
last (`Describes`). The cursor never stands inside a unit (`Boundary`), because no spelling
starts inside another. `InterpretationsScannable` discharges the assumption on the views: every
interpretation of every request can be scanned. `ScanIsMonotone` compares two configurations. More
encodings turn some runs of plain bytes into one unit each (`UnitsWiden`: a unit of the
narrower reading is one of the wider, or a lead or trailing byte that means nothing to it), so
every separator and delimiter stays one; a climbing segment may be cut, and one of its pieces
still climbs, which makes an injection of the climbing segments of the narrower scan into those of
the wider (`ScanMonotone` of `PathProofs`).

**`MatcherProofs`**: `TypeCorrect`, `BestMatchClaimed`, `NoBranchLost`, `RefinesLookup`,
for every set of trees (finite or not, of any depth), every path, and one terminal
skipped or none. The inductive invariant is `IInv`: the arguments are legal, the types
hold, nothing claimable lies in a branch already given up (`NothingGivenUp`), and what
has been claimed is best (`ClaimsBestMatch`). `NothingGivenUp` is the heart: it says, for
every call on the stack, which claimable terminals may still lie beyond its next stage.
A claim is then best because everything of higher precedence is in a branch given up,
and a failure is right because at the root every branch is. `RefinesLookup` uses
`BestMatchClaimed` to map the claiming step to `Lookup!Answer` and every other step to a
stutter; it is the safety half (`Caller!Safety`), the fairness half is `ImplementsLookup`
in the run `matcher`.

**`CoverageProofs`**: `WalkCollectsExactly`, `NothingOutsideCover`, for every view and anchor,
and `CoversAlwaysAgree`, for every finite view (`ViewsFinite`; the code's trees are finite).
The invariant says that the walk has gathered what the nodes behind it contribute, and that
none of them would have ended it: a catch-all that owns everything below it ends the walk,
so what is behind is known to hold none. The second theorem joins the first to
`ContinuationCovered`. The third is about a recursion over the tree, the summaries a compiled
node caches. `Joint` says what joining covers in any order comes to, so the fold over the
children may take them as they come (`JoinAllJoint`); the cover of the ids of a subtree, which
split into those of its slots and those of its children (`IdentitiesSplit`), then solves the
equation of the recursion, and induction over the height of a node shows that nothing else
does (`SummaryIs`).

**`RegistrationProofs`**: `IdsAlwaysResolve`, `TailAlwaysOwned` and `ViewsAnswerAsDeclared`, for
every list of registrations of any length (`BuildsAssumption`: the rules of a registration
have definitions, of methods the program knows). The invariant has eight parts, one for
each thing that a later stage of the build takes from an earlier: types (`Typed`), where the
build stands (`Placed`), the fallbacks settled by the patterns validated so far (`Settled`,
`Covered`), the ids handed out and to which entry (`Numbered`), what insertion has put into the
tree (`Grown`), the exclusive tails checked (`Checked`) and what a view is compiled from
(`Compiled`). `ViewsAnswerAsDeclared` is about the whole build: for every path and method,
the most precise terminal of the compiled view is what the documented search finds (take the
most precise pattern, and go on to the next while it inherits and has no rule for the
method). That search is a recursion over sets that shrink; that it has an outcome is
induction over the size of the set (`SearchHasOutcome`).

`OnlyTheAcceptableIsBuilt`, `AcceptableIsBuilt` and `OffenderAlwaysBlamed` say what is accepted
and what is refused. Their invariant `JInv` stands on the first: every entry comes from one pattern
for one rule (`Laid`, a function without repetition), what is in the tree shares no key
(`Apart`, `Planted`), what is behind has no fault of its own (`Clean`), and a failed build has
the fault it names (`Faulted`). So a repeated key is two entries, or one with a repetition, and
the second of them was refused. The comparison of two tails edge by edge is exact:
`IntrudersOverride` shows that it misses no pattern that wins a path in the tail of an exclusive
catch-all, and `OverridesIntrude` that it refuses none that does not, by making up the
path (a literal for each wildcard of the two, one segment beyond them). That path has to be among
those the property looks at, hence the two hypotheses `Requests = Paths` and
`Segments # {}`, which `OnlyTheAcceptableIsBuilt` does without.

`AlwaysAnswersAsCalled` is about `Builder`: a router handed a list of registrations that was written call by
call answers what the calls said. Its invariant `BInv` is that a draft is what its log says, for any
number of drafts and calls in any order: each pattern and rule was added by a call that
stands in the log (`Tells`) and each call has left its pattern, rules or settings in the draft (`Places`).
Once handed over, the drafts are the registrations (`HandedOver`), and `IInv` and `JInv` hold from there on
because the build starts like any other (`Fresh`). The property numbers definitions in the order
of the calls, the code counts them; a bijection between the two (`NumberedAsCalled`, `SameCount`) makes
the ids agree, and `ViewsAnswerAsDeclared` does the rest.

`GapsAlwaysReal` and `OverlapsAlwaysRepresented` are about the lint (`Diagnostics`), over any router that is
built. The property `GapsAreReal` says of every report that its methods are denied by the meaning
of the registrations, and what they would have without the pattern; the lint reads this off the compiled
views, matching twice, the second time with the terminal skipped. `DInv` carries `IInv` up to the end of
the build, from where the views no longer change, and the argument of `ViewsAnswerAsDeclared` is made for a view
without one terminal as well. `OverlapsRepresented` is about what is not missed, and holds when the lint has
returned: `OInv` says that the reports tell of every gap at the patterns and methods already passed (`Seen`), whether
a report was added, joined or already there. The rest is about the one path the lint makes up for two
patterns: if they share any path, they are compatible (`SharedIsCompatible`), both claim the made-up
one (`RepresentativeClaimed`), its free places hold a segment no pattern spells, so a third pattern that
claims it claims it however they are spelled (`RepresentativesAlike`), and the denial hides the
rule there too (`HiddenIsFound`). That such a segment exists is `CapturesAssumption`: the code
lengthens a name until no pattern spells it.

**`SettingsProofs`**: `AlwaysReadsAsWritten` and `AddingAlwaysDenies`, for any number of calls in any order.
The first is inductive with the same statement about the classes in hand (`IsRead`): they are written by
the calls since the configuration last took classes in, and become its own with the next taking-in. The
second compares the configuration before and after a call; a call that adds makes every knob
at least as strict and changes neither mode nor case (`AddedIsStricter`), so `StricterPermits` applies without
its exceptions.

**`LoweringProofs`**: `LoweringAlwaysInverts` and `SubtreeAlwaysCovers`, for every text and
configuration. The invariant says of the segment in hand that what the cursor has passed over is `Tidy`:
its braces are in pairs, and halving and doubling them again gives it back; so a segment
read to its end is the doubling of its literal, and its literal is not empty. The two operators are
flattened sequences; `FlattenAppend` unfolds them by one byte, and a run of equal bytes is followed
by what a prefix ends in (`Trailing`), which makes `PairHalved` and `DoubledUndone` inductions over
the length. Of a lowered segment the invariant says what text it stands for (`Stands`), of the split that
it is the text's (`IsSplit`; `NextSegment` is how the segments of a text grow), and of each
accepted terminal that its text can be written from it. `SubtreeAlwaysCovers` then reads the
texts of `subtree_patterns` backwards: the one ending in `{*rest}` can only have become a catch-all, whose
edges show that no other part of the path is empty or a rest, so each of the others can only have become
its own slot of the same node; a path that node fits ends there, has one slash more, or goes on. The assumption
`StarAssumption` of `Lowering` says that the wildcard edge is no text.

**Permission**, in `PathProofs`: `BeyondGrows`, `StricterPermits`, `PlainPermitted`, about the operators of
`Permission`, for every view, every pair of configurations and every request. `StricterPermits` is
the argument of the contract, with its two exceptions in the statement. `ScanMonotone`, joined over
the interpretations (a laxer configuration sees fewer of them), gives that the stricter finds every
class, an earliest position no later and no fewer climbs. Its anchor is therefore a prefix of the
laxer's, segment by segment, also after climbs are taken off (`AnchorsBegin`, `CutsBegin`), and folding
case respects this. `BeyondGrows` then says that beyond the nearer anchor lie all the rules
beyond the farther: a terminal a path beyond the farther can reach is reached by a path beyond the
nearer, through the node cut at its depth (`CutNode`). So if the stricter sees one rule only, so does the
laxer, and every spelling the laxer routes the stricter has routed too, unless it folded it away. Across modes,
`CanonicalUnambiguous` shows that what has no escape and no structural byte is unambiguous to any
laxer configuration within its budget. `PlainPermitted` reads a plain path unit by unit: every
byte is a unit of its own, no separator follows another, and no dots fill a segment.

**`GuardProofs`**: `Invariance` and `RefinesGate` (`ImplementsGate`), for every table,
configuration and request. The code accumulates findings and the first relocation while it
walks the interpretations, stops comparing routes once the outcome is settled, and tests the
length budget in nearly every stage; `Permits` does none of this. The invariant says what each
stage may rely on: the findings are those of the interpretations seen (`Gathered`), and,
unless a truncation or an overlong structural request has settled the matter, a relocation
is recorded exactly when one of them has one (`Compared`). The early returns are then
sound because a settled request is denied whatever its routes are. `Joined`, the findings
of the first k interpretations, is a recursive function; its equation is first shown
to have a solution (`JoinedUnfolds`), for the three interpretations there can be. A present
class without an earliest position would be denied by the code and is denied by
`Unambiguous`; that this never happens is `EarliestAlwaysAgrees`, for the scan of each
interpretation.

`StricterAlwaysDenies` joins `Invariance` (an answered request is permitted) to `StricterPermits`.
`PlainAlwaysPasses` needs the intermediate stages as well: for a plain request no stage but the last can
return (`PlainGoesOn`), which `PlainPermitted` and the invariant give.

The explanation, also in `GuardProofs`: `ProbesAlwaysLast`, `RawMatchAlwaysAgrees`, `ExplanationAlwaysTellsWhy`. The
invariant `Reasoned` says why a denial was made, by the name it carries: a probe only when all
else passed, a policy only for a method gap of the original spelling, anything else only
when a built-in check fails. `Inspected` says that the match shown first is that of the
original spelling. The explanation of a structural denial shows rules beyond the anchor that
are not all the rule of the request: there always is one (`SomethingBeyond`, from a most
precise continuation), and the anchor lies in the request (`ScanAllLocates`).

The backend: `CanonicalAlwaysUntouched`, for every table, configuration and request, and any number of
transforms in any order. An answered request of the strict mode is canonical. What that means for its
bytes: no NUL, semicolon, doubled slash or, where declared,
backslash or upper case, no fullwidth form but the excepted backslash (`CanonicalBytes`), and no segment `.` or
`..` (`DotSegmentFound`: the two slashes around one make it a segment of the scan). `?` and `#` are no
part of a request path and the strict mode denies an escape. So nothing is left for any of the transforms
(`CanonicalStill`), each of which, flattening or folding the path anew, gives back the path it was given
(`DecodeStill` to `DotsStill`). The invariant `BackendInv` adds that the backend starts on the request as it
came.

Only model-checked:

* all liveness (`Terminates`, `DriverReturns`, `ReadingEnds`, the fairness half of
  `ImplementsLookup`), which is beyond this prover;
* `AcceptsExactly` and `AcceptedIsReachable` of `Lowering`. The invariant of `LoweringProofs` gives one
  direction, an accepted text is in the grammar up to runs, pairs and the two exceptions; what is
  missing is that a scan of the whole spelled path finds what the scans of its literals find, one by one;
* `AnchorSurvives` and `NoRelocation` of `Backend`. A proof would have to show that every sequence of
  the ten transforms stays between the views the guard has seen, climbs counted.

## 5. What is not modelled

* Message wording, `Display`, the names of probes and variants, the field accessors of
  `RuleMatch` and `RuleId`, `lib.rs` and `_docs.rs`.
* `Registration` takes patterns already lowered: that the two fit is the shape of a terminal,
  not a run of both together, whose state space is the product.
* A probe that is not a function of the path. The code hands every probe the same bytes.
* Memory: buffers, borrowing, recursion depth of the stack.
* Tests, fixtures of real servers, benchmarks, scripts, corpora; the test-only oracles
  inside the source files.

## 6. Plan

Every component of the crate that keeps state or decides anything has its module. What
would add most now:

1. `AnchorSurvives` of `Backend`: an invariant that relates the path so far to the views.
2. `Registration` over the results of `Lowering`, on texts instead of terminals.
