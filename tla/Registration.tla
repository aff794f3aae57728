---------------------------- MODULE Registration ----------------------------
(***************************************************************************)
(* Building a router (RuleRouter::build_inner, Router::build_with_         *)
(* fallbacks): registrations are validated pattern by pattern, flattened   *)
(* into tree entries with one id per definition, inserted into one tree,   *)
(* checked for exclusivity and compiled into one view per method.          *)
(*                                                                         *)
(* A well-formed pattern is the terminal it lowers to; what makes a        *)
(* pattern malformed is the business of the lowering and stays abstract.   *)
(* A definition's methods are a list of keys: <<All>> for the wildcard of  *)
(* methods (MethodMatch::Any), else the listed methods (OneOf).            *)
(***************************************************************************)
EXTENDS RouteTree, FiniteSets

CONSTANTS
  Methods,             \* methods a definition can name
  All,                 \* the method wildcard
  Other,               \* any method no definition names
  Malformed,           \* patterns that cannot be lowered
  StructuralLiterals,  \* segments with a form the enabled classes recognize
  UppercaseLiterals,   \* segments with an ASCII uppercase letter
  Builds,              \* the arguments: registrations and guard settings
  Requests             \* the paths the properties look at

ASSUME MethodsAssumption == All \notin Methods /\ Other \notin Methods /\ All # Other
\* Ids below the denied rule's are free for definitions.
ASSUME IdsAssumption == /\ DENIED_RULE \in Nat
                        /\ Rules = 0..DENIED_RULE
ASSUME LiteralsAssumption == StructuralLiterals \cup UppercaseLiterals \subseteq Segments
ASSUME RequestsAssumption == \A p \in Requests : p \in Paths

\* A registration: its patterns, the keys of each of its rules and its two settings.
PathRegistration ==
  [patterns : Seq(Malformed \cup Terminals), rules : Seq(Seq(Methods \cup {All})),
   exclusive : BOOLEAN, inherit : BOOLEAN]
ASSUME BuildsAssumption == \A build \in Builds : build.registrations \in Seq(PathRegistration)

VARIABLES
  registrations, config,  \* the arguments
  phase,       \* "patterns", "rules", "insert", "exclusive", "built", "failed"
  current,     \* the registration in hand
  next,        \* its next pattern or rule, or the next tree entry
  fallbacks,   \* path_fallbacks: fallback_inherit by terminal
  entries,     \* tree_entries
  ruleCount,   \* definitions numbered so far
  slots,       \* the source tree: the slot of every terminal it holds
  views,       \* method_roots, and the root for every other method
  failure      \* the error returned, when failed

arguments == <<registrations, config>>
vars == <<registrations, config, phase, current, next, fallbacks, entries, ruleCount,
          slots, views, failure>>

EmptySlot == [claimed |-> FALSE, inherit |-> FALSE, ids |-> << >>]
NoFailure == [kind |-> "none"]

Init ==
  /\ \E b \in Builds : registrations = b.registrations /\ config = b.config
  /\ phase = "patterns" /\ current = 1 /\ next = 1
  /\ fallbacks = << >> /\ entries = << >> /\ ruleCount = 0
  /\ slots = << >> /\ views = << >> /\ failure = NoFailure

-----------------------------------------------------------------------------
Registration == registrations[current]

Fail(kind, where) ==
  /\ phase' = "failed" /\ failure' = [kind |-> kind, at |-> where]
  /\ UNCHANGED <<arguments, current, next, fallbacks, entries, ruleCount, slots, views>>

\* The literals of a pattern with some trait.
LiteralsIn(pattern, trait) == {i \in DOMAIN pattern.node : pattern.node[i] \in trait}

\* validate_pattern: the reason to reject a pattern, or none (a set).  Segment by
\* segment, structure before case.
Rejection(pattern) ==
  IF pattern \in Malformed THEN {"Route"}
  ELSE IF ~config.active THEN {}
  ELSE LET structural == LiteralsIn(pattern, StructuralLiterals)
           uppercase  == IF config.insensitive THEN LiteralsIn(pattern, UppercaseLiterals) ELSE {}
       IN  IF structural \cup uppercase = {} THEN {}
           ELSE IF \E i \in structural : \A j \in uppercase : i <= j THEN {"NonCanonical"}
           ELSE {"NonCanonicalCase"}

\* One turn of the loop over a registration's patterns.
ValidatePattern ==
  /\ phase = "patterns" /\ current <= Len(registrations)
  /\ LET pattern == Registration.patterns[next]
     IN  IF Registration.patterns = << >> THEN Fail("EmptyPatternSet", << >>)
         ELSE IF next > Len(Registration.patterns)
           THEN /\ phase' = "rules" /\ next' = 1
                /\ UNCHANGED <<arguments, current, fallbacks, entries, ruleCount, slots, views, failure>>
         ELSE IF Rejection(pattern) # {} THEN Fail(CHOOSE kind \in Rejection(pattern) : TRUE, pattern)
         ELSE IF pattern \in DOMAIN fallbacks /\ fallbacks[pattern] # Registration.inherit
           THEN Fail("ConflictingFallback", pattern)
         ELSE /\ fallbacks' = [t \in DOMAIN fallbacks \cup {pattern} |->
                                 IF t = pattern THEN Registration.inherit ELSE fallbacks[t]]
              /\ next' = next + 1
              /\ UNCHANGED <<arguments, phase, current, entries, ruleCount, slots, views, failure>>

Entry(pattern, id, keys) ==
  [terminal |-> pattern, id |-> id, exclusive |-> Registration.exclusive, keys |-> keys]

EntriesOf(id, keys) ==
  [i \in DOMAIN Registration.patterns |-> Entry(Registration.patterns[i], id, keys)]

\* The registration is done: on to the next one.
NextRegistration ==
  /\ phase' = "patterns" /\ current' = current + 1 /\ next' = 1

\* A registration without rules claims its terminals all the same.
ClaimWithoutRules ==
  /\ phase = "rules" /\ Registration.rules = << >>
  /\ entries' = entries \o EntriesOf(DENIED_RULE, << >>)
  /\ NextRegistration
  /\ UNCHANGED <<arguments, fallbacks, ruleCount, slots, views, failure>>

\* Slip: a definition numbered by its entry.
FreshIdByEntry == Len(entries)

\* The id of the next definition.
FreshId == ruleCount

IdsLeft == ruleCount < DENIED_RULE

\* One turn of the loop over a registration's rules: one id for all its patterns.
NumberRule ==
  /\ phase = "rules" /\ Registration.rules # << >>
  /\ LET keys == Registration.rules[next]
     IN  IF keys = << >> THEN Fail("EmptyMethodSet", Registration.patterns[1])
         ELSE IF ~IdsLeft THEN Fail("TooManyRegistrations", << >>)
         ELSE /\ entries' = entries \o EntriesOf(FreshId, keys)
              /\ ruleCount' = ruleCount + 1
              /\ IF next = Len(Registration.rules) THEN NextRegistration
                 ELSE next' = next + 1 /\ UNCHANGED <<phase, current>>
              /\ UNCHANGED <<arguments, fallbacks, slots, views, failure>>

StartTree ==
  /\ phase = "patterns" /\ current > Len(registrations)
  /\ phase' = "insert" /\ next' = 1
  /\ UNCHANGED <<arguments, current, fallbacks, entries, ruleCount, slots, views, failure>>

-----------------------------------------------------------------------------
SlotAt(t) == IF t \in DOMAIN slots THEN slots[t] ELSE EmptySlot

\* Slip: repetition within one list overlooked.
RepeatsAcross(slot, keys) == \E i \in DOMAIN keys : keys[i] \in DOMAIN slot.ids

\* A method given a rule twice at a terminal, in one list or in two.
Repeats(slot, keys) ==
  \E i \in DOMAIN keys : keys[i] \in DOMAIN slot.ids \/ \E j \in 1..(i - 1) : keys[j] = keys[i]

WithKeys(slot, keys, id) ==
  [slot EXCEPT !.ids = [k \in DOMAIN slot.ids \cup {keys[i] : i \in DOMAIN keys} |->
                          IF k \in DOMAIN slot.ids THEN slot.ids[k] ELSE id]]

\* Slip: the pattern after the one at fault.
BlamedNext == entries[IF next < Len(entries) THEN next + 1 ELSE next].terminal

\* The pattern a conflict is attributed to (map_build_err).
Blamed == entries[next].terminal

\* insert: find or create the terminal, add the id under each key.
InsertEntry ==
  /\ phase = "insert" /\ next <= Len(entries)
  /\ LET e == entries[next]
     IN  IF Repeats(SlotAt(e.terminal), e.keys) THEN Fail("Conflict", Blamed)
         ELSE /\ slots' = [t \in DOMAIN slots \cup {e.terminal} |->
                             IF t = e.terminal THEN WithKeys(SlotAt(t), e.keys, e.id) ELSE slots[t]]
              /\ next' = next + 1
              /\ UNCHANGED <<arguments, phase, current, fallbacks, entries, ruleCount, views, failure>>

\* Every path's fallback; its order is that of a hash map and cannot matter.
ApplyFallbacks ==
  /\ phase = "insert" /\ next > Len(entries)
  /\ slots' = [t \in DOMAIN slots \cup DOMAIN fallbacks |->
                 IF t \in DOMAIN fallbacks
                   THEN [claimed |-> TRUE, inherit |-> fallbacks[t], ids |-> SlotAt(t).ids]
                   ELSE slots[t]]
  /\ phase' = "exclusive" /\ next' = 1
  /\ UNCHANGED <<arguments, current, fallbacks, entries, ruleCount, views, failure>>

\* Slip: a literal that beats a wildcard on the way down overlooked.
OverridesTailBelow(prefix, other) ==
  /\ Len(other.node) > Len(prefix)
  /\ \A i \in DOMAIN prefix : prefix[i] = other.node[i]

\* overrides_tail: whether another pattern wins somewhere in the tail of a catch-all.
\* Edge by edge: higher once a literal stands where the prefix has a wildcard.
OverridesTail(prefix, other) ==
  LET shared == IF Len(other.node) < Len(prefix) THEN Len(other.node) ELSE Len(prefix)
      higher(i) == \E k \in 1..i : prefix[k] = Star /\ other.node[k] # Star
      parts(i) == IF prefix[i] = Star THEN FALSE
                  ELSE IF other.node[i] = Star THEN ~higher(i - 1)
                  ELSE other.node[i] # prefix[i]
  IN  /\ \A i \in 1..shared : ~parts(i)
      /\ IF Len(other.node) > Len(prefix) THEN TRUE
         ELSE other.slot = "catchall" /\ higher(shared)

\* validate_opaque, one entry.
ValidateExclusive ==
  /\ phase = "exclusive" /\ next <= Len(entries)
  /\ LET e == entries[next]
         opaque == e.exclusive /\ e.terminal.slot = "catchall"
     IN  IF opaque /\ \E k \in DOMAIN entries : OverridesTail(e.terminal.node, entries[k].terminal)
           THEN Fail("NestedUnderExclusive", e.terminal)
         ELSE /\ next' = next + 1
              /\ UNCHANGED <<arguments, phase, current, fallbacks, entries, ruleCount, slots, views, failure>>

-----------------------------------------------------------------------------
IsEmpty(slot) == ~slot.claimed /\ DOMAIN slot.ids = {}

\* MethodSlot::get: the method's own rule, else the wildcard's, or none (a set).
Get(slot, method) ==
  IF method \in DOMAIN slot.ids THEN {slot.ids[method]}
  ELSE IF All \in DOMAIN slot.ids THEN {slot.ids[All]} ELSE {}

Nodes == {<< >>} \cup UNION {{SubSeq(t.node, 1, d) : d \in 0..Len(t.node)} : t \in DOMAIN slots}

\* Slip: an inheriting gap compiled like a blocking one.
CompileMethodBlocking(method) ==
  [nodes |-> Nodes,
   rule  |-> [t \in {s \in DOMAIN slots : ~IsEmpty(slots[s])} |->
                IF Get(slots[t], method) = {} THEN DENIED_RULE
                ELSE CHOOSE id \in Get(slots[t], method) : TRUE]]

\* compile_method: an inheriting gap is absent, a blocking one carries DENIED_RULE.
CompileMethod(method) ==
  LET answers(t) == Get(slots[t], method) # {}
      blocks(t)  == ~IsEmpty(slots[t]) /\ ~slots[t].inherit
  IN  [nodes |-> Nodes,
       rule  |-> [t \in {s \in DOMAIN slots : answers(s) \/ blocks(s)} |->
                    IF answers(t) THEN CHOOSE id \in Get(slots[t], method) : TRUE ELSE DENIED_RULE]]

NamedMethods ==
  (UNION {{e.keys[i] : i \in DOMAIN e.keys} : e \in {entries[k] : k \in DOMAIN entries}}) \ {All}

Compile ==
  /\ phase = "exclusive" /\ next > Len(entries)
  /\ views' = [m \in NamedMethods \cup {Other} |-> CompileMethod(m)]
  /\ phase' = "built"
  /\ UNCHANGED <<arguments, current, next, fallbacks, entries, ruleCount, slots, failure>>

Next ==
  \/ ValidatePattern \/ ClaimWithoutRules \/ NumberRule \/ StartTree
  \/ InsertEntry \/ ApplyFallbacks \/ ValidateExclusive \/ Compile

Spec == Init /\ [][Next]_vars

-----------------------------------------------------------------------------
(***************************************************************************)
(* What the registrations mean, without tree, entries or compilation.      *)
(***************************************************************************)
Elements(seq) == {seq[i] : i \in DOMAIN seq}

Declared == UNION {Elements(registrations[r].patterns) : r \in DOMAIN registrations}

Definitions == {d \in (DOMAIN registrations) \X (1..DENIED_RULE + 1) :
                  d[2] \in DOMAIN registrations[d[1]].rules}

\* Definitions are numbered in the order they are written, over all registrations.
IdOf(def) == Cardinality({d \in Definitions : d[1] < def[1] \/ (d[1] = def[1] /\ d[2] < def[2])})

\* The ids offered for a key at a terminal.
Offers(t, key) ==
  {IdOf(d) : d \in {c \in Definitions : /\ t \in Elements(registrations[c[1]].patterns)
                                        /\ key \in Elements(registrations[c[1]].rules[c[2]])}}
LocalRule(t, method) == IF Offers(t, method) # {} THEN Offers(t, method) ELSE Offers(t, All)

Inherits(t) == \E r \in DOMAIN registrations :
                 t \in Elements(registrations[r].patterns) /\ registrations[r].inherit

\* The answer for a path among some terminals: the best match answers if it has a rule
\* for the method, hands over to the next match if it inherits, and denies otherwise.
AnswerAmong(terminals, path, method) ==
  LET from[S \in SUBSET {t \in terminals : Claims(t, path)}] ==
        IF S = {} THEN DEFAULT_RULE
        ELSE LET t == CHOOSE c \in S : IsBest(c, S)
             IN  IF LocalRule(t, method) # {} THEN CHOOSE id \in LocalRule(t, method) : TRUE
                 ELSE IF Inherits(t) THEN from[S \ {t}] ELSE DENIED_RULE
  IN  from[{t \in terminals : Claims(t, path)}]

Answer(path, method) == AnswerAmong(Declared, path, method)

\* A key given twice at a terminal, in one list or in two.
Repeated(t) ==
  \E q, r \in DOMAIN registrations :
    \E h \in DOMAIN registrations[q].patterns, i \in DOMAIN registrations[r].patterns :
      \E l \in DOMAIN registrations[q].rules, k \in DOMAIN registrations[r].rules :
        \E m \in DOMAIN registrations[q].rules[l], j \in DOMAIN registrations[r].rules[k] :
          /\ <<q, h, l, m>> # <<r, i, k, j>>
          /\ registrations[q].patterns[h] = t /\ registrations[r].patterns[i] = t
          /\ registrations[q].rules[l][m] = registrations[r].rules[k][j]

Disputed(t) == \E q, r \in DOMAIN registrations :
  /\ t \in Elements(registrations[q].patterns) \cap Elements(registrations[r].patterns)
  /\ registrations[q].inherit # registrations[r].inherit

Exclusive == {t \in Declared : t.slot = "catchall" /\ \E r \in DOMAIN registrations :
                registrations[r].exclusive /\ t \in Elements(registrations[r].patterns)}

\* Some other pattern wins a path in the tail of this one.
Invaded(x) == \E t \in Declared : \E p \in Requests :
                Claims(x, p) /\ Claims(t, p) /\ Precedes(t.node, x.node)

Acceptable ==
  /\ \A r \in DOMAIN registrations :
       /\ registrations[r].patterns # << >>
       /\ \A k \in DOMAIN registrations[r].rules : registrations[r].rules[k] # << >>
  /\ Cardinality(Definitions) <= DENIED_RULE
  /\ \A t \in Declared : Rejection(t) = {} /\ ~Disputed(t) /\ ~Repeated(t)
  /\ \A x \in Exclusive : ~Invaded(x)

(***************************************************************************)
(* Properties.                                                             *)
(***************************************************************************)
Built == phase = "built"
ViewFor(method) == views[IF method \in DOMAIN views THEN method ELSE Other]

\* A build is accepted exactly when the registrations make sense together, in whatever
\* order they are written: validation in the order of the code lets nothing through and
\* refuses nothing else (from_registrations, build_with_fallbacks, validate_opaque).
BuildsExactly == /\ Built => Acceptable
                 /\ phase = "failed" => ~Acceptable

\* Matching in a compiled view is the documented lookup: method override, then ALL, then
\* the next matching path if this one inherits, else a denial.  A method nobody named is
\* answered by the remaining view, and the id is that of the definition, whichever of its
\* patterns matched (compile_method, root_for, MethodSlot::get).
ContinuationAgrees ==
  Built => \A p \in Requests : \A m \in Methods \cup {Other} :
             RuleOf(ViewFor(m), p) = Answer(p, m)

\* The tail of an exclusive catch-all belongs to it: under no method does another terminal
\* come before it there (exclusive_subtree).
ExclusiveOwnsTail ==
  Built => \A x \in Exclusive : \A p \in Requests : Claims(x, p) =>
             \A m \in DOMAIN views : \A t \in Candidates(views[m], p, {}) : ~Precedes(t.node, x.node)

\* Every id a view can answer is a denial or indexes the rules: the internal error
\* InvalidRuleId of rule_for_id cannot happen.
RuleIdsResolve ==
  Built => \A m \in DOMAIN views : \A t \in DOMAIN views[m].rule :
             views[m].rule[t] = DENIED_RULE \/ views[m].rule[t] < ruleCount

\* A build error names a pattern that has the fault it reports (map_build_err).
BlamesOffender ==
  phase = "failed" =>
    CASE failure.kind = "Conflict"             -> Repeated(failure.at)
      [] failure.kind = "ConflictingFallback"  -> Disputed(failure.at)
      [] failure.kind = "NestedUnderExclusive" -> failure.at \in Exclusive /\ Invaded(failure.at)
      [] failure.kind \in {"Route", "NonCanonical", "NonCanonicalCase"}
                                               -> failure.kind \in Rejection(failure.at)
      [] OTHER                                 -> failure.at = << >> \/ failure.at \in Declared

\* What the comment on route says of the traversal (route_tree.rs:905): which terminal
\* claims a path does not depend on the method.  It does: a method view leaves out the
\* inheriting gaps of its method, so another terminal claims the path.
Claimant(view, path) ==
  LET found == Candidates(view, path, {}) IN {t \in found : IsBest(t, found)}
MethodBlind ==
  Built => \A p \in Requests : \A m, n \in DOMAIN views : Claimant(views[m], p) = Claimant(views[n], p)
=============================================================================
