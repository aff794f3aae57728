------------------------- MODULE RegistrationProofs -------------------------
(***************************************************************************)
(* What every router that is built promises, whatever its registrations    *)
(* and the calls that wrote them: its views answer as the registrations    *)
(* are documented to, the ids they answer resolve, the tail of an          *)
(* exclusive catch-all belongs to it, and what is refused has a fault.     *)
(* Then the lint over a built router: its reports are real, and every      *)
(* denial that hides a rule has one.                                       *)
(***************************************************************************)
EXTENDS Builder, Diagnostics, PathProofs

Keys == Methods \cup {All}

\* The types the proofs need.
EntryType == [terminal : Terminals, id : 0..DENIED_RULE, exclusive : BOOLEAN, keys : Seq(Keys)]
IdTables(n) == UNION {[K -> 0..(n - 1)] : K \in SUBSET Keys}
SlotType(n) == [claimed : BOOLEAN, inherit : BOOLEAN, ids : IdTables(n)]

Typed ==
  /\ registrations \in Seq(PathRegistration)
  /\ current \in Nat \ {0} /\ next \in Nat \ {0}
  /\ ruleCount \in 0..DENIED_RULE
  /\ entries \in Seq(EntryType)
  /\ \A t \in DOMAIN slots : slots[t] \in SlotType(ruleCount)

\* Where the build stands.
Placed ==
  /\ phase \in {"patterns", "rules", "insert", "exclusive", "built", "failed"}
  /\ phase = "rules" =>
       /\ current <= Len(registrations) /\ Registration.patterns # << >>
       /\ Registration.rules # << >> => next <= Len(Registration.rules)
  /\ phase \in {"insert", "exclusive", "built"} => current > Len(registrations)
  /\ phase \in {"patterns", "rules"} => DOMAIN slots = {}

\* The patterns validated so far are terminals with one fallback each.
Validated(r, i) ==
  r < current \/ (r = current /\ (phase = "rules" \/ (phase = "patterns" /\ i < next)))
Declares(r, t) == t \in Elements(registrations[r].patterns)
Fixed ==
  /\ \A t \in DOMAIN fallbacks :
       /\ t \in Terminals
       /\ \E r \in DOMAIN registrations : Declares(r, t) /\ fallbacks[t] = registrations[r].inherit
  /\ \A r \in DOMAIN registrations : \A i \in DOMAIN registrations[r].patterns :
       Validated(r, i) => /\ registrations[r].patterns[i] \in DOMAIN fallbacks
                          /\ fallbacks[registrations[r].patterns[i]] = registrations[r].inherit

\* A registration whose rules have been numbered has its patterns among the entries, and
\* nothing else is.
Entered(r, i) ==
  \E e \in DOMAIN entries : /\ entries[e].terminal = registrations[r].patterns[i]
                            /\ entries[e].exclusive = registrations[r].exclusive
Covered ==
  /\ \A r \in DOMAIN registrations : \A i \in DOMAIN registrations[r].patterns :
       r < current => Entered(r, i)
  /\ \A e \in DOMAIN entries : \E r \in DOMAIN registrations : Declares(r, entries[e].terminal)

\* Definitions up to a place in the registrations.
Before(c, n) == {d \in Definitions : d[1] < c \/ (d[1] = c /\ d[2] < n)}
Written(r, k) == r < current \/ (r = current /\ phase = "rules" /\ k < next)
Numbers(e, r, k) == entries[e].id = IdOf(<<r, k>>) /\ entries[e].keys = registrations[r].rules[k]

\* So many definitions have been numbered, each in order; their entries carry their ids,
\* and every entry that a key leads to is one of them.
Numbered ==
  /\ phase # "failed" =>
       ruleCount = Cardinality(Before(current, IF phase = "rules" THEN next ELSE 1))
  /\ phase = "rules" => next <= ruleCount + 1
  /\ \A r \in DOMAIN registrations : \A k \in DOMAIN registrations[r].rules : Written(r, k) =>
       /\ k <= DENIED_RULE
       /\ \A i \in DOMAIN registrations[r].patterns :
            \E e \in DOMAIN entries : entries[e].terminal = registrations[r].patterns[i] /\ Numbers(e, r, k)
  /\ \A e \in DOMAIN entries :
       \/ entries[e].keys = << >>
       \/ /\ entries[e].id < ruleCount
          /\ \E d \in Definitions : Declares(d[1], entries[e].terminal) /\ Numbers(e, d[1], d[2])

\* The tree holds the terminals of entries, each key leading to the id of one of them.
Inserted(e) == phase \in {"exclusive", "built"} \/ (phase = "insert" /\ e < next)
Grown ==
  /\ \A t \in DOMAIN slots :
       /\ \E e \in DOMAIN entries : entries[e].terminal = t
       /\ \A key \in DOMAIN slots[t].ids : \E e \in DOMAIN entries :
            /\ entries[e].terminal = t /\ key \in Elements(entries[e].keys)
            /\ slots[t].ids[key] = entries[e].id
  /\ \A e \in DOMAIN entries : Inserted(e) =>
       /\ entries[e].terminal \in DOMAIN slots
       /\ \A key \in Elements(entries[e].keys) :
            /\ key \in DOMAIN slots[entries[e].terminal].ids
            /\ slots[entries[e].terminal].ids[key] = entries[e].id
  /\ phase \in {"exclusive", "built"} => \A t \in DOMAIN fallbacks :
       /\ t \in DOMAIN slots
       /\ slots[t].claimed = TRUE /\ slots[t].inherit = fallbacks[t]

\* No entry beats an exclusive catch-all in its tail.
Opaque(e) == e.exclusive /\ e.terminal.slot = "catchall"
Undisturbed(e) ==
  Opaque(entries[e]) =>
    \A k \in DOMAIN entries : ~OverridesTail(entries[e].terminal.node, entries[k].terminal)
Checked == \A e \in DOMAIN entries :
             phase = "built" \/ (phase = "exclusive" /\ e < next) => Undisturbed(e)

Compiled == phase = "built" => views = [m \in NamedMethods \cup {Other} |-> CompileMethod(m)]

\* The inductive invariant.
IInv == Typed /\ Placed /\ Fixed /\ Covered /\ Numbered /\ Grown /\ Checked /\ Compiled

-----------------------------------------------------------------------------
(***************************************************************************)
(* Exclusive tails.                                                        *)
(***************************************************************************)
\* Whatever comes before a catch-all on a path of its tail is found by the check.
LEMMA IntrudersOverride ==
  ASSUME NEW x \in Terminals, NEW t \in Terminals, NEW p \in Paths, x.slot = "catchall",
         Claims(x, p), Claims(t, p), Precedes(t.node, x.node)
  PROVE  OverridesTail(x.node, t)
<1>1. /\ Len(x.node) \in Nat /\ Len(t.node) \in Nat /\ Len(p) \in Nat
      /\ t.slot \in {"leaf", "leaf_slash", "catchall"}
  BY DEF Terminals, Addresses, Paths, Slots
<1>2. p # Bare
  BY DEF Claims
<1>3. /\ Len(x.node) < Len(p) /\ ~SlashAt(Len(x.node), p)
      /\ \A i \in 1..Len(x.node) : Takes(x.node[i], p[i])
      /\ Len(t.node) <= Len(p)
      /\ \A i \in 1..Len(t.node) : Takes(t.node[i], p[i])
  BY <1>1, <1>2 DEF Claims, Fits, MoreAt
<1>4. Len(t.node) <= Len(x.node) => t.slot = "catchall"
  <2>1. CASE EndsAt(Len(t.node), p)
    BY <1>1, <1>3, <2>1 DEF EndsAt
  <2>2. CASE SlashAt(Len(t.node), p)
    BY <1>1, <1>3, <2>2 DEF SlashAt
  <2> QED BY <1>1, <1>2, <2>1, <2>2 DEF Claims
<1>5. PICK k \in 1..Len(t.node) :
        /\ Len(x.node) >= k - 1
        /\ \A j \in 1..(k - 1) : t.node[j] = x.node[j]
        /\ \/ Len(x.node) = k - 1
           \/ Len(x.node) >= k /\ t.node[k] # Star /\ x.node[k] = Star
  BY DEF Precedes
<1> DEFINE shared == IF Len(t.node) < Len(x.node) THEN Len(t.node) ELSE Len(x.node)
           higher(i) == \E j \in 1..i : x.node[j] = Star /\ t.node[j] # Star
           parts(i) == IF x.node[i] = Star THEN FALSE
                       ELSE IF t.node[i] = Star THEN ~higher(i - 1)
                       ELSE t.node[i] # x.node[i]
<1>6. shared \in Nat /\ shared <= Len(x.node) /\ shared <= Len(t.node)
  BY <1>1
<1>7. ASSUME NEW i \in 1..shared PROVE ~parts(i)
  <2>1. CASE i < k
    BY <1>1, <1>5, <1>6, <1>7, <2>1, SMTT(30)
  <2>2. CASE i = k
    BY <1>1, <1>5, <1>6, <1>7, <2>2
  <2>3. CASE i > k
    <3>1. x.node[k] = Star /\ t.node[k] # Star /\ k \in 1..(i - 1)
      BY <1>1, <1>5, <1>6, <1>7, <2>3
    <3>2. higher(i - 1)
      BY <3>1
    <3>3. Takes(x.node[i], p[i]) /\ Takes(t.node[i], p[i])
      BY <1>1, <1>3, <1>6, <1>7
    <3> QED BY <3>2, <3>3 DEF Takes
  <2> QED BY <1>1, <1>6, <1>7, <2>1, <2>2, <2>3
<1>8. CASE Len(t.node) > Len(x.node)
  BY <1>7, <1>8 DEF OverridesTail
<1>9. CASE ~(Len(t.node) > Len(x.node))
  <2>1. k \in 1..shared /\ x.node[k] = Star /\ t.node[k] # Star
    BY <1>1, <1>5, <1>9
  <2>2. t.slot = "catchall" /\ higher(shared)
    BY <1>1, <1>4, <1>9, <2>1
  <2> QED BY <1>7, <1>9, <2>2 DEF OverridesTail
<1> QED BY <1>8, <1>9

-----------------------------------------------------------------------------
(***************************************************************************)
(* Validation.                                                             *)
(***************************************************************************)
LEMMA RegistrationShape ==
  ASSUME Typed, NEW r \in DOMAIN registrations
  PROVE  /\ Len(registrations) \in Nat /\ r \in 1..Len(registrations)
         /\ registrations[r].patterns \in Seq(Malformed \cup Terminals)
         /\ registrations[r].rules \in Seq(Seq(Keys))
         /\ registrations[r].exclusive \in BOOLEAN /\ registrations[r].inherit \in BOOLEAN
<1>1. registrations \in Seq(PathRegistration)
  BY DEF Typed
<1>2. registrations[r] \in PathRegistration
  BY <1>1
<1> QED BY <1>1, <1>2 DEF PathRegistration, Keys

\* The ids of definitions depend on the registrations only.
LEMMA SameDefinitions ==
  ASSUME registrations' = registrations
  PROVE  /\ Definitions' = Definitions
         /\ \A c, n : Before(c, n)' = Before(c, n)
         /\ \A d : IdOf(d)' = IdOf(d)
BY DEF Definitions, Before, IdOf

LEMMA FailKeeps ==
  ASSUME IInv, NEW kind, NEW where, Fail(kind, where)
  PROVE  IInv'
<1> USE DEF IInv
<1>1. /\ registrations' = registrations /\ current' = current /\ next' = next
      /\ fallbacks' = fallbacks /\ entries' = entries /\ ruleCount' = ruleCount
      /\ slots' = slots /\ views' = views /\ phase' = "failed"
  BY DEF Fail, arguments
<1>2. Typed'
  BY <1>1 DEF Typed
<1>3. Placed'
  BY <1>1 DEF Placed
<1>4. Fixed'
  BY <1>1 DEF Fixed, Validated, Declares
<1>5. Covered'
  BY <1>1 DEF Covered, Entered, Declares
<1>6. Numbered'
  <2>1. /\ Definitions' = Definitions
        /\ \A d : IdOf(d)' = IdOf(d)
    BY <1>1, SameDefinitions
  <2> QED BY <1>1, <2>1 DEF Numbered, Written, Numbers, Declares
<1>7. Grown'
  BY <1>1 DEF Grown, Inserted
<1>8. Checked' /\ Compiled'
  BY <1>1 DEF Checked, Compiled
<1> QED BY <1>2, <1>3, <1>4, <1>5, <1>6, <1>7, <1>8

\* What does not touch the entries, the tree or the numbers keeps what is said of them.
LEMMA PatternTurn ==
  ASSUME IInv, phase = "patterns", current <= Len(registrations), phase' \in {"patterns", "rules"},
         registrations' = registrations, current' = current, entries' = entries,
         ruleCount' = ruleCount, slots' = slots, views' = views,
         next' \in Nat \ {0}, phase' = "rules" => next' = 1
  PROVE  Typed' /\ Covered' /\ Numbered' /\ Grown' /\ Checked' /\ Compiled'
<1> USE DEF IInv
<1>1. Typed'
  BY DEF Typed
<1>2. Covered'
  BY DEF Covered, Entered, Declares
<1>3. Numbered'
  <2>1. /\ Definitions' = Definitions
        /\ \A c, n : Before(c, n)' = Before(c, n)
        /\ \A d : IdOf(d)' = IdOf(d)
    BY SameDefinitions
  <2>3. ruleCount \in Nat
    BY IdsAssumption DEF Typed
  <2>4. ruleCount = Cardinality(Before(current, 1))
    BY DEF Numbered
  <2>5. ruleCount' = Cardinality(Before(current, IF phase = "rules" THEN next ELSE 1)')
    <3>1. (IF phase' = "rules" THEN next' ELSE 1) = 1
      OBVIOUS
    <3> QED BY <2>1, <2>4, <3>1
  <2>6. phase' = "rules" => next' <= ruleCount' + 1
    BY <2>3
  <2>7. ASSUME NEW r \in DOMAIN registrations, NEW k \in DOMAIN registrations[r].rules, Written(r, k)'
        PROVE  Written(r, k)
    <3>1. k \in Nat \ {0}
      BY RegistrationShape
    <3> QED BY <2>7, <3>1 DEF Written
  <2>8. \A e, r, k : Numbers(e, r, k)' <=> Numbers(e, r, k)
    BY <2>1 DEF Numbers
  <2> QED BY <2>1, <2>5, <2>6, <2>7, <2>8 DEF Numbered, Declares
<1>4. Grown'
  BY DEF Grown, Inserted
<1>5. Checked' /\ Compiled'
  BY DEF Checked, Compiled
<1> QED BY <1>1, <1>2, <1>3, <1>4, <1>5

LEMMA ValidatePatternKeeps == IInv /\ ValidatePattern => IInv'
<1> SUFFICES ASSUME IInv, ValidatePattern PROVE IInv'
  OBVIOUS
<1> DEFINE patterns == Registration.patterns
           pattern == patterns[next]
<1>1. phase = "patterns" /\ current <= Len(registrations)
  BY DEF ValidatePattern
<1>2. /\ Typed /\ current \in DOMAIN registrations /\ next \in Nat \ {0}
      /\ patterns \in Seq(Malformed \cup Terminals) /\ Registration.inherit \in BOOLEAN
      /\ Len(patterns) \in Nat
  <2>1. Typed /\ current \in DOMAIN registrations /\ next \in Nat \ {0}
    BY <1>1 DEF IInv, Typed
  <2> QED BY <2>1, RegistrationShape DEF Registration
<1>3. CASE patterns = << >>
  BY <1>1, <1>3, FailKeeps DEF ValidatePattern
<1>4. CASE patterns # << >> /\ next > Len(patterns)
  <2>1. /\ phase' = "rules" /\ next' = 1 /\ registrations' = registrations /\ current' = current
        /\ fallbacks' = fallbacks /\ entries' = entries /\ ruleCount' = ruleCount
        /\ slots' = slots /\ views' = views
    BY <1>1, <1>4 DEF ValidatePattern, arguments
  <2>2. Typed' /\ Covered' /\ Numbered' /\ Grown' /\ Checked' /\ Compiled'
    BY <1>1, <2>1, PatternTurn
  <2>3. Placed'
    <3>1. Registration' = Registration
      BY <2>1 DEF Registration
    <3>2. Registration.rules \in Seq(Seq(Keys))
      BY <1>2, RegistrationShape DEF Registration
    <3>3. Registration.rules # << >> => 1 <= Len(Registration.rules)
      BY <3>2
    <3> QED BY <1>1, <1>4, <2>1, <3>1, <3>3 DEF IInv, Placed
  <2>4. Fixed'
    <3>1. ASSUME NEW r \in DOMAIN registrations, NEW i \in DOMAIN registrations[r].patterns, Validated(r, i)'
          PROVE  Validated(r, i)
      BY <1>1, <1>2, <1>4, <2>1, <3>1 DEF Validated, Registration
    <3> QED BY <2>1, <3>1 DEF IInv, Fixed, Declares
  <2> QED BY <2>2, <2>3, <2>4 DEF IInv
<1>5. CASE patterns # << >> /\ ~(next > Len(patterns)) /\ Rejection(pattern) # {}
  BY <1>1, <1>5, FailKeeps DEF ValidatePattern
<1>6. CASE /\ patterns # << >> /\ ~(next > Len(patterns)) /\ Rejection(pattern) = {}
           /\ pattern \in DOMAIN fallbacks /\ fallbacks[pattern] # Registration.inherit
  BY <1>1, <1>6, FailKeeps DEF ValidatePattern
<1>7. CASE /\ patterns # << >> /\ ~(next > Len(patterns)) /\ Rejection(pattern) = {}
           /\ ~(pattern \in DOMAIN fallbacks /\ fallbacks[pattern] # Registration.inherit)
  <2>1. /\ phase' = phase /\ next' = next + 1 /\ registrations' = registrations /\ current' = current
        /\ entries' = entries /\ ruleCount' = ruleCount /\ slots' = slots /\ views' = views
        /\ fallbacks' = [t \in DOMAIN fallbacks \cup {pattern} |->
                           IF t = pattern THEN Registration.inherit ELSE fallbacks[t]]
    BY <1>1, <1>7 DEF ValidatePattern, arguments
  <2>2. Typed' /\ Covered' /\ Numbered' /\ Grown' /\ Checked' /\ Compiled'
    BY <1>1, <1>2, <2>1, PatternTurn
  <2>3. Placed'
    BY <1>1, <2>1 DEF IInv, Placed
  <2>4. pattern \in Terminals /\ next \in DOMAIN patterns
    <3>1. next \in DOMAIN patterns
      BY <1>2, <1>7
    <3>2. pattern \notin Malformed
      BY <1>7 DEF Rejection
    <3> QED BY <1>2, <3>1, <3>2
  <2>5. \A t \in DOMAIN fallbacks : t \in DOMAIN fallbacks' /\ fallbacks'[t] = fallbacks[t]
    BY <1>7, <2>1
  <2>6. pattern \in DOMAIN fallbacks' /\ fallbacks'[pattern] = Registration.inherit
    BY <2>1
  <2>7. \A t \in DOMAIN fallbacks' : t \in DOMAIN fallbacks \/ t = pattern
    BY <2>1
  <2>8. ASSUME NEW t \in DOMAIN fallbacks'
        PROVE  /\ t \in Terminals
               /\ \E r \in DOMAIN registrations :
                    Declares(r, t) /\ fallbacks'[t] = registrations[r].inherit
    <3>1. CASE t \in DOMAIN fallbacks
      BY <2>5, <3>1 DEF IInv, Fixed
    <3>2. CASE t = pattern
      <4>1. Declares(current, pattern)
        BY <2>4 DEF Declares, Elements, Registration
      <4> QED BY <1>2, <2>4, <2>6, <3>2, <4>1 DEF Registration
    <3> QED BY <2>7, <3>1, <3>2
  <2>9. ASSUME NEW r \in DOMAIN registrations, NEW i \in DOMAIN registrations[r].patterns, Validated(r, i)'
        PROVE  /\ registrations[r].patterns[i] \in DOMAIN fallbacks'
               /\ fallbacks'[registrations[r].patterns[i]] = registrations[r].inherit
    <3>1. CASE Validated(r, i)
      BY <2>5, <3>1 DEF IInv, Fixed
    <3>2. CASE ~Validated(r, i)
      <4>1. r = current /\ i = next
        <5>1. i \in Nat
          BY <1>2, RegistrationShape
        <5> QED BY <1>1, <1>2, <2>1, <2>9, <3>2, <5>1 DEF Validated
      <4> QED BY <2>6, <4>1 DEF Registration
    <3> QED BY <3>1, <3>2
  <2>10. Fixed'
    <3>1. \A t \in DOMAIN fallbacks' :
            /\ t \in Terminals
            /\ \E r \in DOMAIN registrations' : Declares(r, t)' /\ fallbacks'[t] = registrations'[r].inherit
      BY <2>1, <2>8 DEF Declares
    <3>2. \A r \in DOMAIN registrations' : \A i \in DOMAIN registrations'[r].patterns :
            Validated(r, i)' => /\ registrations'[r].patterns[i] \in DOMAIN fallbacks'
                                /\ fallbacks'[registrations'[r].patterns[i]] = registrations'[r].inherit
      BY <2>1, <2>9
    <3> QED BY <3>1, <3>2 DEF Fixed
  <2> QED BY <2>2, <2>3, <2>10 DEF IInv
<1> QED BY <1>3, <1>4, <1>5, <1>6, <1>7

-----------------------------------------------------------------------------
(***************************************************************************)
(* Numbering.                                                              *)
(***************************************************************************)
\* The patterns whose rules are numbered are terminals.
LEMMA InHand ==
  ASSUME IInv, phase = "rules"
  PROVE  /\ current \in DOMAIN registrations /\ next \in Nat \ {0}
         /\ Registration.patterns \in Seq(Terminals)
         /\ Registration.rules \in Seq(Seq(Keys))
         /\ Registration.exclusive \in BOOLEAN
         /\ ruleCount \in Nat /\ ruleCount <= DENIED_RULE /\ DENIED_RULE \in Nat
<1>1. current \in DOMAIN registrations /\ next \in Nat \ {0} /\ ruleCount \in 0..DENIED_RULE
  BY DEF IInv, Typed, Placed
<1>2. /\ Registration.patterns \in Seq(Malformed \cup Terminals)
      /\ Registration.rules \in Seq(Seq(Keys))
      /\ Registration.exclusive \in BOOLEAN
  BY <1>1, RegistrationShape DEF IInv, Registration
<1>3. \A i \in DOMAIN Registration.patterns : Registration.patterns[i] \in Terminals
  <2>1. \A i \in DOMAIN Registration.patterns : Validated(current, i)
    BY DEF Validated
  <2>2. \A i \in DOMAIN Registration.patterns : Registration.patterns[i] \in DOMAIN fallbacks
    BY <1>1, <2>1 DEF IInv, Fixed, Registration
  <2> QED BY <2>2 DEF IInv, Fixed
<1>4. Registration.patterns \in Seq(Terminals)
  BY <1>2, <1>3
<1> QED BY <1>1, <1>2, <1>4, IdsAssumption

LEMMA Listed ==
  ASSUME NEW S, NEW n \in Nat, NEW f, \A i \in 1..n : f[i] \in S, f = [i \in 1..n |-> f[i]]
  PROVE  f \in Seq(S) /\ Len(f) = n
<1>1. f \in [1..n -> S]
  OBVIOUS
<1>2. f \in Seq(S)
  BY <1>1, SeqDef
<1> QED BY <1>1, <1>2

\* Entries are added behind those there are, one for each pattern.
LEMMA EntriesAdded ==
  ASSUME IInv, phase = "rules", NEW id \in 0..DENIED_RULE, NEW keys \in Seq(Keys),
         entries' = entries \o EntriesOf(id, keys)
  PROVE  /\ entries' \in Seq(EntryType)
         /\ \A e \in DOMAIN entries : e \in DOMAIN entries' /\ entries'[e] = entries[e]
         /\ \A i \in DOMAIN Registration.patterns :
              \E e \in DOMAIN entries' : entries'[e] = Entry(Registration.patterns[i], id, keys)
         /\ \A e \in DOMAIN entries' :
              \/ e \in DOMAIN entries
              \/ \E i \in DOMAIN Registration.patterns :
                   entries'[e] = Entry(Registration.patterns[i], id, keys)
         /\ \A i \in DOMAIN Registration.patterns : Len(entries) + i \in DOMAIN entries' \ DOMAIN entries
         /\ \A e \in DOMAIN entries' \ DOMAIN entries :
              /\ e - Len(entries) \in DOMAIN Registration.patterns
              /\ entries'[e] = Entry(Registration.patterns[e - Len(entries)], id, keys)
<1>1. PICK patterns : patterns = Registration.patterns
  OBVIOUS
<1>2. PICK added : added = EntriesOf(id, keys)
  OBVIOUS
<1>3. patterns \in Seq(Terminals) /\ Registration.exclusive \in BOOLEAN
  BY <1>1, InHand
<1>4. entries \in Seq(EntryType)
  BY DEF IInv, Typed
<1>5. \A i \in DOMAIN patterns : Entry(patterns[i], id, keys) \in EntryType
  BY <1>3 DEF Entry, EntryType
<1>6. /\ added \in Seq(EntryType) /\ Len(added) = Len(patterns)
      /\ \A i \in DOMAIN patterns : added[i] = Entry(patterns[i], id, keys)
  <2>1. PICK n \in Nat : n = Len(patterns) /\ DOMAIN patterns = 1..n
    BY <1>3
  <2>2. added = [i \in 1..n |-> Entry(patterns[i], id, keys)]
    BY <1>1, <1>2, <2>1 DEF EntriesOf
  <2>3. added \in Seq(EntryType) /\ Len(added) = n
    BY <1>5, <2>1, <2>2, Listed
  <2> QED BY <2>1, <2>2, <2>3
<1>7. /\ entries' \in Seq(EntryType)
      /\ DOMAIN entries = 1..Len(entries) /\ Len(entries) \in Nat
      /\ DOMAIN patterns = 1..Len(patterns) /\ Len(patterns) \in Nat
      /\ DOMAIN entries' = 1..(Len(entries) + Len(patterns))
      /\ \A e \in 1..Len(entries) : entries'[e] = entries[e]
      /\ \A i \in 1..Len(patterns) : entries'[Len(entries) + i] = added[i]
  <2>1. PICK before : before = entries
    OBVIOUS
  <2>2. PICK after : after = before \o added
    OBVIOUS
  <2>3. /\ after \in Seq(EntryType) /\ Len(after) = Len(before) + Len(patterns)
        /\ Len(before) \in Nat /\ Len(patterns) \in Nat
        /\ \A e \in 1..Len(before) : after[e] = before[e]
        /\ \A i \in 1..Len(patterns) : after[Len(before) + i] = added[i]
    <3>1. Len(before) \in Nat /\ Len(patterns) \in Nat /\ Len(added) = Len(patterns)
      BY <1>3, <1>4, <1>6, <2>1
    <3>2. /\ after \in Seq(EntryType) /\ Len(after) = Len(before) + Len(added)
          /\ \A i \in 1..Len(before) + Len(added) :
               after[i] = IF i <= Len(before) THEN before[i] ELSE added[i - Len(before)]
      <4>1. before \in Seq(EntryType) /\ added \in Seq(EntryType)
        BY <1>4, <1>6, <2>1
      <4> QED BY <2>2, <4>1, ConcatProperties, Zenon
    <3>3. \A e \in 1..Len(before) : after[e] = before[e]
      BY <3>1, <3>2
    <3>4. \A i \in 1..Len(patterns) : (Len(before) + i) - Len(before) = i
      BY <3>1
    <3>5. \A i \in 1..Len(patterns) :
            Len(before) + i \in 1..Len(before) + Len(added) /\ ~(Len(before) + i <= Len(before))
      BY <3>1
    <3>6. \A i \in 1..Len(patterns) : after[Len(before) + i] = added[i]
      BY <3>2, <3>4, <3>5
    <3> QED BY <3>1, <3>2, <3>3, <3>6
  <2>4. after = entries'
    BY <1>2, <2>1, <2>2
  <2>5. DOMAIN after = 1..Len(after) /\ DOMAIN before = 1..Len(before) /\ DOMAIN patterns = 1..Len(patterns)
    BY <1>3, <1>4, <2>1, <2>3
  <2> QED BY <2>1, <2>3, <2>4, <2>5
<1>8. ASSUME NEW i \in DOMAIN patterns
      PROVE  \E e \in DOMAIN entries' : entries'[e] = Entry(patterns[i], id, keys)
  <2>1. Len(entries) + i \in DOMAIN entries'
    BY <1>7
  <2> QED BY <1>6, <1>7, <2>1
<1>9. ASSUME NEW e \in DOMAIN entries', e \notin DOMAIN entries
      PROVE  \E i \in DOMAIN patterns : entries'[e] = Entry(patterns[i], id, keys)
  <2>1. PICK i \in 1..Len(patterns) : e = Len(entries) + i
    <3>1. e - Len(entries) \in 1..Len(patterns) /\ e = Len(entries) + (e - Len(entries))
      BY <1>7, <1>9
    <3> QED BY <3>1
  <2> QED BY <1>6, <1>7, <2>1
<1>10. \A e \in DOMAIN entries : e \in DOMAIN entries' /\ entries'[e] = entries[e]
  BY <1>7
<1>11. \A i \in DOMAIN patterns : Len(entries) + i \in DOMAIN entries' \ DOMAIN entries
  BY <1>7
<1>12. ASSUME NEW e \in DOMAIN entries' \ DOMAIN entries
       PROVE  /\ e - Len(entries) \in DOMAIN patterns
              /\ entries'[e] = Entry(patterns[e - Len(entries)], id, keys)
  <2>1. e - Len(entries) \in 1..Len(patterns) /\ Len(entries) + (e - Len(entries)) = e
    BY <1>7
  <2>2. PICK i : i = e - Len(entries)
    OBVIOUS
  <2>3. i \in 1..Len(patterns) /\ entries'[Len(entries) + i] = added[i] /\ Len(entries) + i = e
    BY <1>7, <2>1, <2>2
  <2> QED BY <1>6, <1>7, <2>2, <2>3
<1>13. /\ \A i \in DOMAIN Registration.patterns :
            \E e \in DOMAIN entries' : entries'[e] = Entry(Registration.patterns[i], id, keys)
       /\ \A e \in DOMAIN entries' :
            \/ e \in DOMAIN entries
            \/ \E i \in DOMAIN Registration.patterns :
                 entries'[e] = Entry(Registration.patterns[i], id, keys)
  BY <1>1, <1>8, <1>9
<1>14. /\ \A i \in DOMAIN Registration.patterns : Len(entries) + i \in DOMAIN entries' \ DOMAIN entries
       /\ \A e \in DOMAIN entries' \ DOMAIN entries :
            /\ e - Len(entries) \in DOMAIN Registration.patterns
            /\ entries'[e] = Entry(Registration.patterns[e - Len(entries)], id, keys)
  BY <1>1, <1>11, <1>12
<1>15. entries' \in Seq(EntryType)
  BY <1>7
<1> QED BY <1>10, <1>13, <1>14, <1>15

\* What numbering leaves alone.
LEMMA NumberingTurn ==
  ASSUME IInv, phase = "rules", NEW id \in 0..DENIED_RULE, NEW keys \in Seq(Keys),
         registrations' = registrations, fallbacks' = fallbacks, slots' = slots, views' = views,
         entries' = entries \o EntriesOf(id, keys),
         ruleCount' \in 0..DENIED_RULE,
         \/ phase' = "patterns" /\ current' = current + 1 /\ next' = 1
         \/ /\ phase' = "rules" /\ current' = current /\ next' = next + 1
            /\ next < Len(Registration.rules)
  PROVE  Typed' /\ Placed' /\ Fixed' /\ Covered' /\ Grown' /\ Checked' /\ Compiled'
<1>1. /\ current \in DOMAIN registrations /\ next \in Nat \ {0} /\ current \in Nat \ {0}
      /\ Registration.rules \in Seq(Seq(Keys))
  BY InHand DEF IInv, Typed
<1>2. /\ entries' \in Seq(EntryType)
      /\ \A e \in DOMAIN entries : e \in DOMAIN entries' /\ entries'[e] = entries[e]
      /\ \A i \in DOMAIN Registration.patterns :
           \E e \in DOMAIN entries' : entries'[e] = Entry(Registration.patterns[i], id, keys)
      /\ \A e \in DOMAIN entries' :
           \/ e \in DOMAIN entries
           \/ \E i \in DOMAIN Registration.patterns :
                entries'[e] = Entry(Registration.patterns[i], id, keys)
  BY EntriesAdded
<1>3. DOMAIN slots = {}
  <2>1. Placed
    BY DEF IInv
  <2> QED BY <2>1 DEF Placed
<1>4. Typed'
  <2>1. Typed
    BY DEF IInv
  <2>2. current + 1 \in Nat \ {0} /\ next + 1 \in Nat \ {0}
    BY <1>1
  <2>3. current' \in Nat \ {0} /\ next' \in Nat \ {0}
    BY <1>1, <2>2
  <2>4. \A t \in DOMAIN slots' : slots'[t] \in SlotType(ruleCount)'
    BY <1>3
  <2> QED BY <1>2, <2>1, <2>3, <2>4 DEF Typed
<1>5. Placed'
  <2>1. Placed
    BY DEF IInv
  <2> QED BY <1>1, <1>3, <2>1, SMTT(30) DEF Placed, Registration
<1>6. Fixed'
  <2>1. ASSUME NEW r \in DOMAIN registrations, NEW i \in DOMAIN registrations[r].patterns, Validated(r, i)'
        PROVE  Validated(r, i)
    <3>1. r \in Nat /\ i \in Nat \ {0}
      BY RegistrationShape DEF IInv
    <3> QED BY <1>1, <2>1, <3>1 DEF Validated
  <2>2. \A r, t : Declares(r, t)' <=> Declares(r, t)
    BY DEF Declares
  <2> QED BY <2>1, <2>2 DEF IInv, Fixed
<1>7. Covered'
  <2>1. ASSUME NEW r \in DOMAIN registrations, NEW i \in DOMAIN registrations[r].patterns, r < current'
        PROVE  Entered(r, i)'
    <3>1. CASE r < current
      <4>1. PICK e \in DOMAIN entries : /\ entries[e].terminal = registrations[r].patterns[i]
                                        /\ entries[e].exclusive = registrations[r].exclusive
        BY <3>1 DEF IInv, Covered, Entered, Declares
      <4> QED BY <1>2, <4>1 DEF Entered
    <3>2. CASE ~(r < current)
      <4>1. r = current
        <5>1. r \in Nat
          BY RegistrationShape DEF IInv
        <5> QED BY <1>1, <2>1, <3>2, <5>1
      <4>2. i \in DOMAIN Registration.patterns
        BY <4>1 DEF Registration
      <4>3. PICK e \in DOMAIN entries' : entries'[e] = Entry(Registration.patterns[i], id, keys)
        BY <1>2, <4>2
      <4>4. /\ entries'[e].terminal = registrations[r].patterns[i]
            /\ entries'[e].exclusive = registrations[r].exclusive
        BY <4>1, <4>3 DEF Entry, Registration
      <4> QED BY <4>4 DEF Entered
    <3> QED BY <3>1, <3>2
  <2>2. ASSUME NEW e \in DOMAIN entries' PROVE (\E r \in DOMAIN registrations : Declares(r, entries[e].terminal))'
    <3>1. CASE e \in DOMAIN entries
      BY <1>2, <3>1 DEF IInv, Covered, Declares
    <3>2. CASE e \notin DOMAIN entries
      <4>1. PICK i \in DOMAIN Registration.patterns : entries'[e] = Entry(Registration.patterns[i], id, keys)
        BY <1>2, <3>2
      <4> QED BY <1>1, <4>1 DEF Declares, Elements, Entry, Registration
    <3> QED BY <3>1, <3>2
  <2> QED BY <2>1, <2>2 DEF Covered
<1>8. Grown' /\ Checked' /\ Compiled'
  BY <1>3 DEF Grown, Inserted, Checked, Compiled
<1> QED BY <1>4, <1>5, <1>6, <1>7, <1>8

LEMMA ClaimWithoutRulesKeeps == IInv /\ ClaimWithoutRules => IInv'
<1> SUFFICES ASSUME IInv, ClaimWithoutRules PROVE IInv'
  OBVIOUS
<1>1. /\ phase = "rules" /\ Registration.rules = << >>
      /\ entries' = entries \o EntriesOf(DENIED_RULE, << >>)
      /\ phase' = "patterns" /\ current' = current + 1 /\ next' = 1
      /\ registrations' = registrations /\ fallbacks' = fallbacks /\ ruleCount' = ruleCount
      /\ slots' = slots /\ views' = views
  BY DEF ClaimWithoutRules, NextRegistration, arguments
<1>2. /\ current \in DOMAIN registrations /\ next \in Nat \ {0} /\ current \in Nat \ {0}
      /\ ruleCount \in 0..DENIED_RULE /\ DENIED_RULE \in 0..DENIED_RULE /\ << >> \in Seq(Keys)
  BY <1>1, InHand DEF IInv, Typed
<1>3. Typed' /\ Placed' /\ Fixed' /\ Covered' /\ Grown' /\ Checked' /\ Compiled'
  BY <1>1, <1>2, NumberingTurn
<1>4. /\ \A e \in DOMAIN entries : e \in DOMAIN entries' /\ entries'[e] = entries[e]
      /\ \A e \in DOMAIN entries' :
           \/ e \in DOMAIN entries
           \/ \E i \in DOMAIN Registration.patterns :
                entries'[e] = Entry(Registration.patterns[i], DENIED_RULE, << >>)
  BY <1>1, <1>2, EntriesAdded
<1>5. /\ Definitions' = Definitions
      /\ \A c, n : Before(c, n)' = Before(c, n)
      /\ \A d : IdOf(d)' = IdOf(d)
  BY <1>1, SameDefinitions
<1>6. Before(current + 1, 1) = Before(current, next)
  <2>1. ASSUME NEW d \in Definitions PROVE d[1] \in Nat /\ d[2] \in Nat \ {0} /\ d[1] # current
    <3>1. /\ d[1] \in DOMAIN registrations /\ d[2] \in 1..DENIED_RULE + 1
          /\ d[2] \in DOMAIN registrations[d[1]].rules
      BY DEF Definitions
    <3>2. registrations[current].rules = << >>
      BY <1>1 DEF Registration
    <3>3. d[1] \in Nat
      BY <3>1, RegistrationShape DEF IInv
    <3> QED BY <1>2, <3>1, <3>2, <3>3
  <2> QED BY <1>2, <2>1 DEF Before
<1>7. Numbered'
  <2>1. ruleCount' = Cardinality(Before(current, IF phase = "rules" THEN next ELSE 1)')
    <3>1. ruleCount = Cardinality(Before(current, next))
      BY <1>1 DEF IInv, Numbered
    <3> QED BY <1>1, <1>5, <1>6, <3>1
  <2>2. ASSUME NEW r \in DOMAIN registrations, NEW k \in DOMAIN registrations[r].rules, Written(r, k)'
        PROVE  /\ k <= DENIED_RULE
               /\ \A i \in DOMAIN registrations[r].patterns : \E e \in DOMAIN entries' :
                    entries'[e].terminal = registrations[r].patterns[i] /\ Numbers(e, r, k)'
    <3>1. r < current
      <4>1. r \in Nat
        BY RegistrationShape DEF IInv
      <4>2. r # current
        BY <1>1 DEF Registration
      <4> QED BY <1>1, <1>2, <2>2, <4>1, <4>2 DEF Written
    <3>2. /\ k <= DENIED_RULE
          /\ \A i \in DOMAIN registrations[r].patterns : \E e \in DOMAIN entries :
               entries[e].terminal = registrations[r].patterns[i] /\ Numbers(e, r, k)
      BY <3>1 DEF IInv, Numbered, Written
    <3>3. \A e \in DOMAIN entries : Numbers(e, r, k) => Numbers(e, r, k)'
      BY <1>1, <1>4, <1>5 DEF Numbers
    <3> QED BY <1>4, <3>2, <3>3
  <2>3. ASSUME NEW e \in DOMAIN entries'
        PROVE  (\/ entries[e].keys = << >>
                \/ /\ entries[e].id < ruleCount
                   /\ \E d \in Definitions : Declares(d[1], entries[e].terminal) /\ Numbers(e, d[1], d[2]))'
    <3>1. CASE e \in DOMAIN entries
      <4>1. entries'[e] = entries[e]
        BY <1>4, <3>1
      <4>2. \/ entries[e].keys = << >>
            \/ /\ entries[e].id < ruleCount
               /\ \E d \in Definitions : Declares(d[1], entries[e].terminal) /\ Numbers(e, d[1], d[2])
        BY <3>1 DEF IInv, Numbered
      <4> QED BY <1>1, <1>5, <4>1, <4>2 DEF Declares, Numbers
    <3>2. CASE e \notin DOMAIN entries
      BY <1>4, <3>2 DEF Entry
    <3> QED BY <3>1, <3>2
  <2> QED BY <1>1, <2>1, <2>2, <2>3 DEF Numbered
<1> QED BY <1>3, <1>7 DEF IInv

\* There are finitely many definitions.
LEMMA DefinitionsFinite ==
  ASSUME Typed
  PROVE  IsFiniteSet(Definitions)
<1>1. PICK n \in Nat : DOMAIN registrations = 1..n
  BY DEF Typed
<1>2. IsFiniteSet(1..n) /\ IsFiniteSet(1..DENIED_RULE + 1)
  BY <1>1, FS_Interval, IdsAssumption
<1>3. IsFiniteSet((1..n) \X (1..DENIED_RULE + 1))
  BY <1>2, FS_Product
<1>4. Definitions \subseteq (1..n) \X (1..DENIED_RULE + 1)
  BY <1>1 DEF Definitions
<1> QED BY <1>3, <1>4, FS_Subset

\* The definition in hand is the next to be counted.
LEMMA OneMore ==
  ASSUME IInv, phase = "rules", Registration.rules # << >>
  PROVE  /\ <<current, next>> \in Definitions
         /\ IdsLeft => next <= DENIED_RULE
         /\ IdOf(<<current, next>>) = ruleCount
         /\ Cardinality(Before(current, next + 1)) = ruleCount + 1
<1>1. /\ current \in DOMAIN registrations /\ next \in Nat \ {0}
      /\ Registration.rules \in Seq(Seq(Keys))
      /\ ruleCount \in Nat /\ DENIED_RULE \in Nat
  BY InHand
<1>2. next <= Len(Registration.rules) /\ next <= ruleCount + 1 /\ ruleCount <= DENIED_RULE
  BY IdsAssumption DEF IInv, Typed, Placed, Numbered
<1>3. /\ next \in DOMAIN Registration.rules /\ next \in 1..DENIED_RULE + 1
      /\ IdsLeft => next <= DENIED_RULE
  BY <1>1, <1>2 DEF IdsLeft
<1>4. <<current, next>> \in Definitions
  BY <1>1, <1>3 DEF Definitions, Registration
<1>5. ruleCount = Cardinality(Before(current, next))
  BY DEF IInv, Numbered
<1>6. IdOf(<<current, next>>) = ruleCount
  BY <1>5 DEF IdOf, Before
<1>7. Before(current, next + 1) = Before(current, next) \cup {<<current, next>>}
  <2>1. ASSUME NEW d \in Definitions
        PROVE  d[1] \in Nat /\ d[2] \in Nat /\ d = <<d[1], d[2]>>
    <3>1. d[1] \in DOMAIN registrations /\ d[2] \in 1..DENIED_RULE + 1 /\ d = <<d[1], d[2]>>
      BY DEF Definitions
    <3> QED BY <1>1, <3>1, RegistrationShape DEF IInv
  <2>2. ASSUME NEW d \in Before(current, next + 1) PROVE d \in Before(current, next) \cup {<<current, next>>}
    <3>1. /\ d \in Definitions /\ d[1] \in Nat /\ d[2] \in Nat /\ d = <<d[1], d[2]>>
          /\ d[1] < current \/ (d[1] = current /\ d[2] < next + 1)
      BY <2>1, <2>2 DEF Before
    <3>2. CASE d[1] < current \/ (d[1] = current /\ d[2] < next)
      BY <3>1, <3>2 DEF Before
    <3>3. CASE d[1] = current /\ d[2] = next
      BY <3>1, <3>3
    <3> QED BY <1>1, <3>1, <3>2, <3>3
  <2>3. ASSUME NEW d \in Before(current, next) PROVE d \in Before(current, next + 1)
    <3>1. /\ d \in Definitions /\ d[1] \in Nat /\ d[2] \in Nat
          /\ d[1] < current \/ (d[1] = current /\ d[2] < next)
      BY <2>1, <2>3 DEF Before
    <3>2. d[1] < current \/ (d[1] = current /\ d[2] < next + 1)
      BY <1>1, <3>1
    <3> QED BY <3>1, <3>2 DEF Before
  <2>4. <<current, next>> \in Before(current, next + 1)
    <3>1. PICK d : d = <<current, next>>
      OBVIOUS
    <3>2. d \in Definitions /\ d[1] = current /\ d[2] < next + 1
      BY <1>1, <1>4, <3>1
    <3>3. d \in Before(current, next + 1)
      BY <3>2 DEF Before
    <3> QED BY <3>1, <3>3
  <2> QED BY <2>2, <2>3, <2>4
<1>8. <<current, next>> \notin Before(current, next)
  <2>1. PICK d : d = <<current, next>>
    OBVIOUS
  <2>2. d[1] = current /\ d[2] = next
    BY <2>1
  <2>3. current \in Nat
    BY <1>1, RegistrationShape DEF IInv
  <2>4. d \notin Before(current, next)
    BY <1>1, <2>2, <2>3 DEF Before
  <2> QED BY <2>1, <2>4
<1>9. IsFiniteSet(Before(current, next))
  <2>1. Before(current, next) \subseteq Definitions
    BY DEF Before
  <2> QED BY <2>1, DefinitionsFinite, FS_Subset DEF IInv
<1>10. Cardinality(Before(current, next) \cup {<<current, next>>}) = Cardinality(Before(current, next)) + 1
  BY <1>8, <1>9, FS_AddElement
<1> QED BY <1>3, <1>4, <1>5, <1>6, <1>7, <1>10

LEMMA NumberRuleKeeps == IInv /\ NumberRule => IInv'
<1> SUFFICES ASSUME IInv, NumberRule PROVE IInv'
  OBVIOUS
<1>1. PICK keys : keys = Registration.rules[next]
  OBVIOUS
<1>2. phase = "rules" /\ Registration.rules # << >>
  BY DEF NumberRule
<1>3. CASE keys = << >>
  BY <1>1, <1>3, FailKeeps DEF NumberRule
<1>4. CASE keys # << >> /\ ~IdsLeft
  BY <1>1, <1>4, FailKeeps DEF NumberRule
<1>5. CASE keys # << >> /\ IdsLeft
  <2>1. PICK id : id = ruleCount
    OBVIOUS
  <2>2. /\ current \in DOMAIN registrations /\ current \in Nat /\ next \in Nat \ {0}
        /\ Registration.rules \in Seq(Seq(Keys)) /\ next <= Len(Registration.rules)
        /\ ruleCount \in Nat /\ DENIED_RULE \in Nat /\ ruleCount < DENIED_RULE
    BY <1>2, <1>5, InHand, RegistrationShape DEF IInv, Placed, IdsLeft
  <2>3. /\ keys \in Seq(Keys) /\ id \in 0..DENIED_RULE /\ ruleCount + 1 \in 0..DENIED_RULE
    BY <1>1, <2>1, <2>2
  <2>4. /\ entries' = entries \o EntriesOf(id, keys) /\ ruleCount' = ruleCount + 1
        /\ registrations' = registrations /\ fallbacks' = fallbacks
        /\ slots' = slots /\ views' = views
        /\ \/ next = Len(Registration.rules) /\ phase' = "patterns" /\ current' = current + 1 /\ next' = 1
           \/ next # Len(Registration.rules) /\ phase' = "rules" /\ current' = current /\ next' = next + 1
    BY <1>1, <1>2, <1>5, <2>1 DEF NumberRule, NextRegistration, FreshId, arguments
  <2>5. Typed' /\ Placed' /\ Fixed' /\ Covered' /\ Grown' /\ Checked' /\ Compiled'
    <3>1. next # Len(Registration.rules) => next < Len(Registration.rules)
      BY <2>2
    <3> QED BY <1>2, <2>3, <2>4, <3>1, NumberingTurn
  <2>6. /\ \A e \in DOMAIN entries : e \in DOMAIN entries' /\ entries'[e] = entries[e]
        /\ \A i \in DOMAIN Registration.patterns :
             \E e \in DOMAIN entries' : entries'[e] = Entry(Registration.patterns[i], id, keys)
        /\ \A e \in DOMAIN entries' :
             \/ e \in DOMAIN entries
             \/ \E i \in DOMAIN Registration.patterns :
                  entries'[e] = Entry(Registration.patterns[i], id, keys)
    BY <1>2, <2>3, <2>4, EntriesAdded
  <2>7. /\ <<current, next>> \in Definitions /\ next <= DENIED_RULE
        /\ IdOf(<<current, next>>) = ruleCount
        /\ Cardinality(Before(current, next + 1)) = ruleCount + 1
    BY <1>2, <1>5, OneMore
  <2>8. /\ Definitions' = Definitions
        /\ \A c, n : Before(c, n)' = Before(c, n)
        /\ \A d : IdOf(d)' = IdOf(d)
    BY <2>4, SameDefinitions
  <2>9. (ruleCount = Cardinality(Before(current, IF phase = "rules" THEN next ELSE 1)))'
    <3>1. CASE next = Len(Registration.rules)
      <4>1. Before(current + 1, 1) = Before(current, next + 1)
        <5>1. ASSUME NEW d \in Definitions
              PROVE  /\ d[1] \in Nat /\ d[2] \in Nat \ {0}
                     /\ d[1] = current => d[2] < next + 1
          <6>1. /\ d[1] \in DOMAIN registrations /\ d[2] \in 1..DENIED_RULE + 1
                /\ d[2] \in DOMAIN registrations[d[1]].rules
            BY DEF Definitions
          <6>2. d[1] = current => d[2] \in 1..Len(Registration.rules)
            BY <2>2, <6>1 DEF Registration
          <6>3. d[1] \in Nat
            BY <6>1, RegistrationShape DEF IInv
          <6> QED BY <2>2, <3>1, <6>1, <6>2, <6>3
        <5> QED BY <2>2, <5>1 DEF Before
      <4> QED BY <2>2, <2>4, <2>7, <2>8, <3>1, <4>1
    <3>2. CASE next # Len(Registration.rules)
      BY <2>4, <2>7, <2>8, <3>2
    <3> QED BY <3>1, <3>2
  <2>10. phase' = "rules" => next' <= ruleCount' + 1
    <3>1. next <= ruleCount + 1
      BY <1>2 DEF IInv, Numbered
    <3> QED BY <2>2, <2>4, <3>1
  <2>11. ASSUME NEW r \in DOMAIN registrations, NEW k \in DOMAIN registrations[r].rules, Written(r, k)'
         PROVE  /\ k <= DENIED_RULE
                /\ \A i \in DOMAIN registrations[r].patterns : \E e \in DOMAIN entries' :
                     entries'[e].terminal = registrations[r].patterns[i] /\ Numbers(e, r, k)'
    <3>1. r \in Nat /\ k \in Nat \ {0}
      BY RegistrationShape DEF IInv
    <3>2. Written(r, k) \/ (r = current /\ k = next)
      <4>1. r = current => k <= Len(Registration.rules)
        BY <2>2, <3>1 DEF Registration
      <4> QED BY <1>2, <2>2, <2>4, <2>11, <3>1, <4>1 DEF Written
    <3>3. CASE Written(r, k)
      <4>1. /\ k <= DENIED_RULE
            /\ \A i \in DOMAIN registrations[r].patterns : \E e \in DOMAIN entries :
                 entries[e].terminal = registrations[r].patterns[i] /\ Numbers(e, r, k)
        BY <3>3 DEF IInv, Numbered
      <4>2. \A e \in DOMAIN entries : Numbers(e, r, k) => Numbers(e, r, k)'
        BY <2>4, <2>6, <2>8 DEF Numbers
      <4> QED BY <2>6, <4>1, <4>2
    <3>4. CASE r = current /\ k = next
      <4>1. ASSUME NEW i \in DOMAIN registrations[r].patterns
            PROVE  \E e \in DOMAIN entries' :
                     entries'[e].terminal = registrations[r].patterns[i] /\ Numbers(e, r, k)'
        <5>1. PICK e \in DOMAIN entries' : entries'[e] = Entry(Registration.patterns[i], id, keys)
          BY <2>6, <3>4 DEF Registration
        <5>2. entries'[e].terminal = registrations[r].patterns[i]
          BY <3>4, <5>1 DEF Entry, Registration
        <5>3. entries'[e].id = IdOf(<<r, k>>)' /\ entries'[e].keys = registrations'[r].rules[k]
          BY <1>1, <2>1, <2>4, <2>7, <2>8, <3>4, <5>1 DEF Entry, Registration
        <5> QED BY <5>2, <5>3 DEF Numbers
      <4> QED BY <2>7, <3>4, <4>1
    <3> QED BY <3>2, <3>3, <3>4
  <2>12. ASSUME NEW e \in DOMAIN entries'
         PROVE  (\/ entries[e].keys = << >>
                 \/ /\ entries[e].id < ruleCount
                    /\ \E d \in Definitions : Declares(d[1], entries[e].terminal) /\ Numbers(e, d[1], d[2]))'
    <3>1. CASE e \in DOMAIN entries
      <4>1. entries'[e] = entries[e]
        BY <2>6, <3>1
      <4>2. \/ entries[e].keys = << >>
            \/ /\ entries[e].id < ruleCount
               /\ \E d \in Definitions : Declares(d[1], entries[e].terminal) /\ Numbers(e, d[1], d[2])
        BY <3>1 DEF IInv, Numbered
      <4>3. entries[e].id \in Nat
        <5>1. entries[e] \in EntryType
          BY <3>1 DEF IInv, Typed
        <5> QED BY <2>2, <5>1 DEF EntryType
      <4>4. CASE entries[e].keys = << >>
        BY <4>1, <4>4
      <4>5. CASE /\ entries[e].id < ruleCount
                 /\ \E d \in Definitions : Declares(d[1], entries[e].terminal) /\ Numbers(e, d[1], d[2])
        <5>1. entries'[e].id < ruleCount'
          BY <2>2, <2>4, <4>1, <4>3, <4>5
        <5>2. \A d : Declares(d[1], entries[e].terminal) => Declares(d[1], entries[e].terminal)'
          BY <2>4, <4>1 DEF Declares
        <5>3. \A d : Numbers(e, d[1], d[2]) => Numbers(e, d[1], d[2])'
          BY <2>4, <2>8, <4>1 DEF Numbers
        <5> QED BY <2>8, <4>5, <5>1, <5>2, <5>3
      <4> QED BY <4>2, <4>4, <4>5
    <3>2. CASE e \notin DOMAIN entries
      <4>1. PICK i \in DOMAIN Registration.patterns : entries'[e] = Entry(Registration.patterns[i], id, keys)
        BY <2>6, <3>2
      <4>2. entries'[e].id < ruleCount'
        BY <2>1, <2>2, <2>4, <4>1 DEF Entry
      <4>3. PICK d \in Definitions : d = <<current, next>>
        BY <2>7
      <4>4. d[1] = current /\ d[2] = next
        BY <4>3
      <4>5. Declares(d[1], entries[e].terminal)'
        BY <2>4, <4>1, <4>4 DEF Declares, Elements, Entry, Registration
      <4>6. Numbers(e, d[1], d[2])'
        BY <1>1, <2>1, <2>4, <2>7, <2>8, <4>1, <4>4 DEF Numbers, Entry, Registration
      <4> QED BY <2>8, <4>2, <4>5, <4>6
    <3> QED BY <3>1, <3>2
  <2>13. Numbered'
    BY <2>4, <2>9, <2>10, <2>11, <2>12 DEF Numbered
  <2> QED BY <2>5, <2>13 DEF IInv
<1> QED BY <1>3, <1>4, <1>5

LEMMA StartTreeKeeps == IInv /\ StartTree => IInv'
<1> SUFFICES ASSUME IInv, StartTree PROVE IInv'
  OBVIOUS
<1>1. /\ phase = "patterns" /\ current > Len(registrations) /\ phase' = "insert" /\ next' = 1
      /\ registrations' = registrations /\ current' = current /\ fallbacks' = fallbacks
      /\ entries' = entries /\ ruleCount' = ruleCount /\ slots' = slots /\ views' = views
  BY DEF StartTree, arguments
<1>2. current \in Nat \ {0} /\ DOMAIN slots = {}
  BY <1>1 DEF IInv, Typed, Placed
<1>3. Typed' /\ Placed'
  BY <1>1, <1>2 DEF IInv, Typed, Placed
<1>4. Fixed'
  <2>1. ASSUME NEW r \in DOMAIN registrations, NEW i, Validated(r, i)'
        PROVE  Validated(r, i)
    <3>1. r \in 1..Len(registrations) /\ Len(registrations) \in Nat
      BY RegistrationShape DEF IInv
    <3> QED BY <1>1, <1>2, <3>1 DEF Validated
  <2>2. \A r, t : Declares(r, t)' <=> Declares(r, t)
    BY <1>1 DEF Declares
  <2> QED BY <1>1, <2>1, <2>2 DEF IInv, Fixed
<1>5. Covered'
  BY <1>1 DEF IInv, Covered, Entered, Declares
<1>6. Numbered'
  <2>1. /\ Definitions' = Definitions
        /\ \A c, n : Before(c, n)' = Before(c, n)
        /\ \A d : IdOf(d)' = IdOf(d)
    BY <1>1, SameDefinitions
  <2>2. (ruleCount = Cardinality(Before(current, IF phase = "rules" THEN next ELSE 1)))'
    <3>1. ruleCount = Cardinality(Before(current, 1))
      BY <1>1 DEF IInv, Numbered
    <3> QED BY <1>1, <2>1, <3>1
  <2>3. \A r, k : Written(r, k)' => Written(r, k)
    BY <1>1 DEF Written
  <2>4. \A e, r, k : Numbers(e, r, k)' <=> Numbers(e, r, k)
    BY <1>1, <2>1 DEF Numbers
  <2> QED BY <1>1, <2>1, <2>2, <2>3, <2>4 DEF IInv, Numbered, Declares
<1>7. Grown'
  <2>1. \A e \in DOMAIN entries : ~(e < 1)
    BY DEF IInv, Typed
  <2> QED BY <1>1, <1>2, <2>1 DEF Grown, Inserted
<1>8. Checked' /\ Compiled'
  BY <1>1 DEF Checked, Compiled
<1> QED BY <1>3, <1>4, <1>5, <1>6, <1>7, <1>8 DEF IInv

-----------------------------------------------------------------------------
(***************************************************************************)
(* The tree.                                                               *)
(***************************************************************************)
\* From here on only the tree, the place in it and the views change.
LEMMA TreeTurn ==
  ASSUME IInv, phase \in {"insert", "exclusive"}, phase' \in {"insert", "exclusive", "built"},
         registrations' = registrations, current' = current, fallbacks' = fallbacks,
         entries' = entries, ruleCount' = ruleCount, next' \in Nat \ {0},
         \A t \in DOMAIN slots' : slots'[t] \in SlotType(ruleCount)
  PROVE  Typed' /\ Placed' /\ Fixed' /\ Covered' /\ Numbered'
<1>1. Typed' /\ Placed'
  BY DEF IInv, Typed, Placed
<1>2. Fixed'
  <2>1. \A r, i : Validated(r, i)' => Validated(r, i)
    BY DEF Validated
  <2> QED BY <2>1 DEF IInv, Fixed, Declares
<1>3. Covered'
  BY DEF IInv, Covered, Entered, Declares
<1>4. Numbered'
  <2>1. /\ Definitions' = Definitions
        /\ \A c, n : Before(c, n)' = Before(c, n)
        /\ \A d : IdOf(d)' = IdOf(d)
    BY SameDefinitions
  <2>2. (ruleCount = Cardinality(Before(current, IF phase = "rules" THEN next ELSE 1)))'
    <3>1. ruleCount = Cardinality(Before(current, 1))
      BY DEF IInv, Numbered
    <3> QED BY <2>1, <3>1
  <2>3. \A r, k : Written(r, k)' => Written(r, k)
    BY DEF Written
  <2>4. \A e, r, k : Numbers(e, r, k)' <=> Numbers(e, r, k)
    BY <2>1 DEF Numbers
  <2> QED BY <2>1, <2>2, <2>3, <2>4 DEF IInv, Numbered, Declares
<1> QED BY <1>1, <1>2, <1>3, <1>4

LEMMA EmptySlotShape ==
  ASSUME NEW n \in Nat
  PROVE  EmptySlot \in SlotType(n) /\ DOMAIN EmptySlot.ids = {}
<1>1. << >> \in [{} -> 0..(n - 1)] /\ DOMAIN << >> = {}
  OBVIOUS
<1>2. << >> \in IdTables(n)
  BY <1>1 DEF IdTables
<1> QED BY <1>1, <1>2 DEF EmptySlot, SlotType

\* Adding an id under keys.
LEMMA WithKeysShape ==
  ASSUME NEW n \in Nat, NEW slot \in SlotType(n), NEW keys \in Seq(Keys), NEW id,
         keys = << >> \/ id \in 0..(n - 1),
         NEW result, result = WithKeys(slot, keys, id)
  PROVE  /\ result \in SlotType(n)
         /\ DOMAIN result.ids = DOMAIN slot.ids \cup Elements(keys)
         /\ \A key \in DOMAIN slot.ids : result.ids[key] = slot.ids[key]
         /\ \A key \in Elements(keys) : key \notin DOMAIN slot.ids => result.ids[key] = id
<1> DEFINE K == DOMAIN slot.ids \cup Elements(keys)
           ids == [k \in K |-> IF k \in DOMAIN slot.ids THEN slot.ids[k] ELSE id]
<1>1. result = [slot EXCEPT !.ids = ids]
  BY DEF WithKeys, Elements
<1>2. PICK D \in SUBSET Keys : slot.ids \in [D -> 0..(n - 1)]
  BY DEF SlotType, IdTables
<1>3. Elements(keys) \subseteq Keys /\ (keys = << >> => Elements(keys) = {})
  BY DEF Elements
<1>4. ids \in [K -> 0..(n - 1)] /\ K \in SUBSET Keys
  BY <1>2, <1>3
<1>5. ids \in IdTables(n)
  BY <1>4 DEF IdTables
<1> HIDE DEF ids
<1>6. result \in SlotType(n) /\ result.ids = ids
  BY <1>1, <1>5 DEF SlotType
<1> QED BY <1>6 DEF ids

LEMMA InsertEntryKeeps == IInv /\ InsertEntry => IInv'
<1> SUFFICES ASSUME IInv, InsertEntry PROVE IInv'
  OBVIOUS
<1>1. PICK e : e = entries[next]
  OBVIOUS
<1>2. phase = "insert" /\ next <= Len(entries)
  BY DEF InsertEntry
<1>3. CASE Repeats(SlotAt(e.terminal), e.keys)
  BY <1>1, <1>3, FailKeeps DEF InsertEntry
<1>4. CASE ~Repeats(SlotAt(e.terminal), e.keys)
  <2>1. PICK top : top = e.terminal
    OBVIOUS
  <2>2. /\ phase' = phase /\ next' = next + 1 /\ registrations' = registrations /\ current' = current
        /\ fallbacks' = fallbacks /\ entries' = entries /\ ruleCount' = ruleCount /\ views' = views
        /\ slots' = [t \in DOMAIN slots \cup {top} |->
                       IF t = top THEN WithKeys(SlotAt(t), e.keys, e.id) ELSE slots[t]]
    BY <1>1, <1>2, <1>4, <2>1 DEF InsertEntry, arguments
  <2>3. PICK n : n = ruleCount
    OBVIOUS
  <2>4. /\ n \in Nat /\ next \in Nat \ {0} /\ next \in DOMAIN entries /\ e \in EntryType
        /\ DENIED_RULE \in Nat
        /\ \A t \in DOMAIN slots : slots[t] \in SlotType(n)
    BY <1>1, <1>2, <2>3, IdsAssumption DEF IInv, Typed
  <2>5. e.keys \in Seq(Keys) /\ (e.keys = << >> \/ e.id \in 0..(n - 1))
    <3>1. e.keys = << >> \/ e.id < n
      BY <1>1, <2>3, <2>4 DEF IInv, Numbered
    <3>2. e.keys \in Seq(Keys) /\ e.id \in Nat
      BY <2>4 DEF EntryType
    <3> QED BY <2>4, <3>1, <3>2
  <2>6. PICK old : old = SlotAt(top)
    OBVIOUS
  <2>7. old \in SlotType(n) /\ (top \notin DOMAIN slots => DOMAIN old.ids = {})
        /\ (top \in DOMAIN slots => old = slots[top])
    BY <2>4, <2>6, EmptySlotShape DEF SlotAt
  <2>8. PICK new : new = WithKeys(old, e.keys, e.id)
    OBVIOUS
  <2>9. /\ new \in SlotType(n)
        /\ DOMAIN new.ids = DOMAIN old.ids \cup Elements(e.keys)
        /\ \A key \in DOMAIN old.ids : new.ids[key] = old.ids[key]
        /\ \A key \in Elements(e.keys) : key \notin DOMAIN old.ids => new.ids[key] = e.id
    BY <2>4, <2>5, <2>7, <2>8, WithKeysShape
  <2>10. /\ DOMAIN slots' = DOMAIN slots \cup {top} /\ slots'[top] = new
         /\ \A t \in DOMAIN slots : t # top => slots'[t] = slots[t]
    BY <2>2, <2>6, <2>8
  <2>11. \A t \in DOMAIN slots' : slots'[t] \in SlotType(n)
    BY <2>4, <2>9, <2>10
  <2>12. Typed' /\ Placed' /\ Fixed' /\ Covered' /\ Numbered'
    <3>1. \A t \in DOMAIN slots' : slots'[t] \in SlotType(ruleCount)
      BY <2>3, <2>11
    <3>2. next' \in Nat \ {0}
      BY <2>2, <2>4
    <3> QED BY <1>2, <2>2, <3>1, <3>2, TreeTurn
  <2>13. ASSUME NEW t \in DOMAIN slots'
         PROVE  /\ \E k \in DOMAIN entries : entries[k].terminal = t
                /\ \A key \in DOMAIN slots'[t].ids : \E k \in DOMAIN entries :
                     /\ entries[k].terminal = t /\ key \in Elements(entries[k].keys)
                     /\ slots'[t].ids[key] = entries[k].id
    <3>1. CASE t # top
      BY <2>10, <3>1 DEF IInv, Grown
    <3>2. CASE t = top
      <4>1. entries[next].terminal = t
        BY <1>1, <2>1, <3>2
      <4>2. ASSUME NEW key \in DOMAIN new.ids
            PROVE  \E k \in DOMAIN entries : /\ entries[k].terminal = t /\ key \in Elements(entries[k].keys)
                                             /\ new.ids[key] = entries[k].id
        <5>1. CASE key \in DOMAIN old.ids
          BY <2>7, <2>9, <3>2, <5>1 DEF IInv, Grown
        <5>2. CASE key \notin DOMAIN old.ids
          BY <1>1, <2>4, <2>9, <4>1, <5>2
        <5> QED BY <5>1, <5>2
      <4> QED BY <2>4, <2>10, <3>2, <4>1, <4>2
    <3> QED BY <3>1, <3>2
  <2>14. ASSUME NEW k \in DOMAIN entries, k < next + 1
         PROVE  /\ entries[k].terminal \in DOMAIN slots'
                /\ \A key \in Elements(entries[k].keys) :
                     /\ key \in DOMAIN slots'[entries[k].terminal].ids
                     /\ slots'[entries[k].terminal].ids[key] = entries[k].id
    <3>1. CASE k = next
      <4>1. \A key \in Elements(e.keys) : key \notin DOMAIN old.ids
        BY <1>4, <2>1, <2>6 DEF Repeats, Elements
      <4> QED BY <1>1, <2>1, <2>9, <2>10, <3>1, <4>1
    <3>2. CASE k # next
      <4>1. k < next
        <5>1. k \in Nat
          BY DEF IInv, Typed
        <5> QED BY <2>4, <2>14, <3>2, <5>1
      <4>2. /\ entries[k].terminal \in DOMAIN slots
            /\ \A key \in Elements(entries[k].keys) :
                 /\ key \in DOMAIN slots[entries[k].terminal].ids
                 /\ slots[entries[k].terminal].ids[key] = entries[k].id
        BY <1>2, <4>1 DEF IInv, Grown, Inserted
      <4>3. CASE entries[k].terminal = top
        BY <2>7, <2>9, <2>10, <4>2, <4>3
      <4>4. CASE entries[k].terminal # top
        BY <2>10, <4>2, <4>4
      <4> QED BY <4>3, <4>4
    <3> QED BY <3>1, <3>2
  <2>15. Grown'
    <3>1. \A k \in DOMAIN entries : Inserted(k)' => k < next + 1
      BY <1>2, <2>2 DEF Inserted
    <3>2. (\A k \in DOMAIN entries : Inserted(k) =>
             /\ entries[k].terminal \in DOMAIN slots
             /\ \A key \in Elements(entries[k].keys) :
                  /\ key \in DOMAIN slots[entries[k].terminal].ids
                  /\ slots[entries[k].terminal].ids[key] = entries[k].id)'
      BY <2>2, <2>14, <3>1
    <3>3. (\A t \in DOMAIN slots :
             /\ \E k \in DOMAIN entries : entries[k].terminal = t
             /\ \A key \in DOMAIN slots[t].ids : \E k \in DOMAIN entries :
                  /\ entries[k].terminal = t /\ key \in Elements(entries[k].keys)
                  /\ slots[t].ids[key] = entries[k].id)'
      <4>1. ASSUME NEW t \in DOMAIN slots'
            PROVE  /\ \E k \in DOMAIN entries' : entries'[k].terminal = t
                   /\ \A key \in DOMAIN slots'[t].ids : \E k \in DOMAIN entries' :
                        /\ entries'[k].terminal = t /\ key \in Elements(entries'[k].keys)
                        /\ slots'[t].ids[key] = entries'[k].id
        <5>1. entries' = entries
          BY <2>2
        <5> QED BY <2>13, <5>1
      <4> QED BY <4>1
    <3>4. phase' = "insert"
      BY <1>2, <2>2
    <3> QED BY <3>2, <3>3, <3>4 DEF Grown
  <2>16. Checked' /\ Compiled'
    BY <1>2, <2>2 DEF Checked, Compiled
  <2> QED BY <2>12, <2>15, <2>16 DEF IInv
<1> QED BY <1>3, <1>4

\* Once every registration is entered, so is every pattern with a fallback.
LEMMA EveryPatternEntered ==
  ASSUME IInv, current > Len(registrations), NEW t \in DOMAIN fallbacks
  PROVE  \E e \in DOMAIN entries : entries[e].terminal = t
<1>1. PICK r \in DOMAIN registrations : Declares(r, t)
  BY DEF IInv, Fixed
<1>2. PICK i \in DOMAIN registrations[r].patterns : registrations[r].patterns[i] = t
  BY <1>1 DEF Declares, Elements
<1>3. r < current
  <2>1. r \in 1..Len(registrations) /\ Len(registrations) \in Nat /\ current \in Nat
    BY RegistrationShape DEF IInv, Typed
  <2> QED BY <2>1
<1> QED BY <1>2, <1>3 DEF IInv, Covered, Entered, Declares

LEMMA ApplyFallbacksKeeps == IInv /\ ApplyFallbacks => IInv'
<1> SUFFICES ASSUME IInv, ApplyFallbacks PROVE IInv'
  OBVIOUS
<1>1. /\ phase = "insert" /\ next > Len(entries) /\ phase' = "exclusive" /\ next' = 1
      /\ registrations' = registrations /\ current' = current /\ fallbacks' = fallbacks
      /\ entries' = entries /\ ruleCount' = ruleCount /\ views' = views
  BY DEF ApplyFallbacks, arguments
<1> DEFINE With(t) == [claimed |-> TRUE, inherit |-> fallbacks[t], ids |-> SlotAt(t).ids]
<1>0. slots' = [t \in DOMAIN slots \cup DOMAIN fallbacks |->
                  IF t \in DOMAIN fallbacks THEN With(t) ELSE slots[t]]
  BY DEF ApplyFallbacks
<1> HIDE DEF With
<1>2. PICK n : n = ruleCount
  OBVIOUS
<1>3. /\ n \in Nat /\ next \in Nat \ {0} /\ entries \in Seq(EntryType)
      /\ \A t \in DOMAIN slots : slots[t] \in SlotType(n)
      /\ current > Len(registrations)
  BY <1>1, <1>2, IdsAssumption DEF IInv, Typed, Placed
<1>4. \A t \in DOMAIN fallbacks : fallbacks[t] \in BOOLEAN
  <2> SUFFICES ASSUME NEW t \in DOMAIN fallbacks PROVE fallbacks[t] \in BOOLEAN
    OBVIOUS
  <2>1. PICK r \in DOMAIN registrations : fallbacks[t] = registrations[r].inherit
    BY DEF IInv, Fixed
  <2> QED BY <2>1, RegistrationShape DEF IInv
<1>5. ASSUME NEW t \in DOMAIN fallbacks
      PROVE  /\ t \in DOMAIN slots' /\ slots'[t] \in SlotType(n)
             /\ slots'[t].claimed = TRUE /\ slots'[t].inherit = fallbacks[t]
             /\ slots'[t].ids = SlotAt(t).ids
  <2>1. PICK old : old = SlotAt(t)
    OBVIOUS
  <2>2. PICK b : b = fallbacks[t]
    OBVIOUS
  <2>3. old \in SlotType(n)
    BY <1>3, <2>1, EmptySlotShape DEF SlotAt
  <2>4. b \in BOOLEAN
    BY <1>4, <2>2
  <2>5. t \in DOMAIN slots' /\ slots'[t] = [claimed |-> TRUE, inherit |-> b, ids |-> old.ids]
    BY <1>0, <2>1, <2>2 DEF With
  <2>6. [claimed |-> TRUE, inherit |-> b, ids |-> old.ids] \in SlotType(n)
    BY <2>3, <2>4 DEF SlotType
  <2> QED BY <2>1, <2>2, <2>5, <2>6
<1>6. \A t \in DOMAIN slots' : /\ t \in DOMAIN slots \/ t \in DOMAIN fallbacks
                               /\ t \notin DOMAIN fallbacks => slots'[t] = slots[t]
  BY <1>0
<1>7. \A t \in DOMAIN slots : /\ t \in DOMAIN slots' /\ slots'[t].ids = slots[t].ids
  BY <1>0, <1>5 DEF SlotAt
<1>8. Typed' /\ Placed' /\ Fixed' /\ Covered' /\ Numbered'
  <2>1. \A t \in DOMAIN slots' : slots'[t] \in SlotType(ruleCount)
    BY <1>2, <1>3, <1>5, <1>6
  <2> QED BY <1>1, <2>1, TreeTurn
<1>9. ASSUME NEW t \in DOMAIN slots'
      PROVE  /\ \E e \in DOMAIN entries : entries[e].terminal = t
             /\ \A key \in DOMAIN slots'[t].ids : \E e \in DOMAIN entries :
                  /\ entries[e].terminal = t /\ key \in Elements(entries[e].keys)
                  /\ slots'[t].ids[key] = entries[e].id
  <2>1. CASE t \in DOMAIN slots
    BY <1>7, <2>1 DEF IInv, Grown
  <2>2. CASE t \notin DOMAIN slots
    <3>1. t \in DOMAIN fallbacks /\ DOMAIN slots'[t].ids = {}
      BY <1>3, <1>5, <1>6, <2>2, EmptySlotShape DEF SlotAt
    <3> QED BY <1>3, <3>1, EveryPatternEntered
  <2> QED BY <2>1, <2>2
<1>10. ASSUME NEW e \in DOMAIN entries
       PROVE  /\ entries[e].terminal \in DOMAIN slots'
              /\ \A key \in Elements(entries[e].keys) :
                   /\ key \in DOMAIN slots'[entries[e].terminal].ids
                   /\ slots'[entries[e].terminal].ids[key] = entries[e].id
  <2>1. Inserted(e)
    <3>1. e \in 1..Len(entries) /\ Len(entries) \in Nat
      BY <1>3
    <3> QED BY <1>1, <1>3, <3>1 DEF Inserted
  <2> QED BY <1>7, <2>1 DEF IInv, Grown
<1>11. Grown'
  <2>1. ASSUME NEW t \in DOMAIN slots'
        PROVE  /\ \E e \in DOMAIN entries' : entries'[e].terminal = t
               /\ \A key \in DOMAIN slots'[t].ids : \E e \in DOMAIN entries' :
                    /\ entries'[e].terminal = t /\ key \in Elements(entries'[e].keys)
                    /\ slots'[t].ids[key] = entries'[e].id
    <3>1. entries' = entries
      BY <1>1
    <3> QED BY <1>9, <3>1
  <2>2. (\A e \in DOMAIN entries : Inserted(e) =>
           /\ entries[e].terminal \in DOMAIN slots
           /\ \A key \in Elements(entries[e].keys) :
                /\ key \in DOMAIN slots[entries[e].terminal].ids
                /\ slots[entries[e].terminal].ids[key] = entries[e].id)'
    BY <1>1, <1>10
  <2>3. (\A t \in DOMAIN fallbacks :
           /\ t \in DOMAIN slots
           /\ slots[t].claimed = TRUE /\ slots[t].inherit = fallbacks[t])'
    BY <1>1, <1>5
  <2> QED BY <2>1, <2>2, <2>3 DEF Grown
<1>12. Checked' /\ Compiled'
  <2>1. \A e \in DOMAIN entries : ~(e < 1)
    BY <1>3
  <2> QED BY <1>1, <2>1 DEF Checked, Compiled
<1> QED BY <1>8, <1>11, <1>12 DEF IInv

LEMMA ValidateExclusiveKeeps == IInv /\ ValidateExclusive => IInv'
<1> SUFFICES ASSUME IInv, ValidateExclusive PROVE IInv'
  OBVIOUS
<1> DEFINE e == entries[next]
           intruded == \E k \in DOMAIN entries : OverridesTail(e.terminal.node, entries[k].terminal)
<1>1. phase = "exclusive" /\ next <= Len(entries)
  BY DEF ValidateExclusive
<1>2. CASE Opaque(e) /\ intruded
  BY <1>2, FailKeeps DEF ValidateExclusive, Opaque
<1>3. CASE ~(Opaque(e) /\ intruded)
  <2>1. /\ phase' = phase /\ next' = next + 1 /\ registrations' = registrations /\ current' = current
        /\ fallbacks' = fallbacks /\ entries' = entries /\ ruleCount' = ruleCount
        /\ slots' = slots /\ views' = views
    BY <1>1, <1>3 DEF ValidateExclusive, Opaque, arguments
  <2>2. next \in Nat \ {0} /\ \A k \in DOMAIN entries : k \in Nat
    BY DEF IInv, Typed
  <2>3. Typed' /\ Placed' /\ Fixed' /\ Covered' /\ Numbered'
    <3>1. \A t \in DOMAIN slots' : slots'[t] \in SlotType(ruleCount)
      BY <2>1 DEF IInv, Typed
    <3>2. next' \in Nat \ {0}
      BY <2>1, <2>2
    <3> QED BY <1>1, <2>1, <3>1, <3>2, TreeTurn
  <2>4. Grown'
    <3>1. \A k : Inserted(k)' <=> Inserted(k)
      BY <1>1, <2>1 DEF Inserted
    <3> QED BY <2>1, <3>1 DEF IInv, Grown
  <2>5. Checked'
    <3>1. Undisturbed(next)
      BY <1>3 DEF Undisturbed
    <3>2. \A k \in DOMAIN entries : Undisturbed(k) => Undisturbed(k)'
      BY <2>1 DEF Undisturbed
    <3>3. \A k \in DOMAIN entries : k < next + 1 => k < next \/ k = next
      BY <2>2
    <3>4. \A k \in DOMAIN entries : k < next + 1 => Undisturbed(k)
      BY <1>1, <3>1, <3>3 DEF IInv, Checked
    <3> QED BY <1>1, <2>1, <3>2, <3>4 DEF Checked
  <2>6. Compiled'
    BY <1>1, <2>1 DEF Compiled
  <2> QED BY <2>3, <2>4, <2>5, <2>6 DEF IInv
<1> QED BY <1>2, <1>3

LEMMA CompileKeeps == IInv /\ Compile => IInv'
<1> SUFFICES ASSUME IInv, Compile PROVE IInv'
  OBVIOUS
<1>1. /\ phase = "exclusive" /\ next > Len(entries) /\ phase' = "built"
      /\ views' = [m \in NamedMethods \cup {Other} |-> CompileMethod(m)]
      /\ registrations' = registrations /\ current' = current /\ next' = next
      /\ fallbacks' = fallbacks /\ entries' = entries /\ ruleCount' = ruleCount
      /\ slots' = slots
  BY DEF Compile, arguments
<1>2. next \in Nat \ {0} /\ entries \in Seq(EntryType)
  BY DEF IInv, Typed
<1>3. Typed' /\ Placed' /\ Fixed' /\ Covered' /\ Numbered'
  <2>1. \A t \in DOMAIN slots' : slots'[t] \in SlotType(ruleCount)
    BY <1>1 DEF IInv, Typed
  <2> QED BY <1>1, <1>2, <2>1, TreeTurn
<1>4. Grown'
  <2>1. \A k : Inserted(k)' => Inserted(k)
    BY <1>1 DEF Inserted
  <2> QED BY <1>1, <2>1 DEF IInv, Grown
<1>5. Checked'
  <2>1. \A k \in DOMAIN entries : k < next
    BY <1>1, <1>2
  <2>2. \A k \in DOMAIN entries : Undisturbed(k)
    BY <1>1, <2>1 DEF IInv, Checked
  <2>3. \A k \in DOMAIN entries : Undisturbed(k) => Undisturbed(k)'
    BY <1>1 DEF Undisturbed
  <2> QED BY <1>1, <2>2, <2>3 DEF Checked
<1>6. Compiled'
  <2>1. NamedMethods' = NamedMethods
    BY <1>1 DEF NamedMethods
  <2>2. \A m : CompileMethod(m)' = CompileMethod(m)
    BY <1>1 DEF CompileMethod, Get, IsEmpty, Nodes
  <2> QED BY <1>1, <2>1, <2>2 DEF Compiled
<1> QED BY <1>3, <1>4, <1>5, <1>6 DEF IInv

\* Nothing has been done yet.
Fresh ==
  /\ registrations \in Seq(PathRegistration) /\ phase = "patterns" /\ current = 1 /\ next = 1
  /\ fallbacks = << >> /\ entries = << >> /\ ruleCount = 0 /\ slots = << >>

LEMMA FreshKeeps == Fresh => IInv
<1> SUFFICES ASSUME Fresh PROVE IInv
  OBVIOUS
<1>1. /\ registrations \in Seq(PathRegistration) /\ phase = "patterns" /\ current = 1 /\ next = 1
      /\ fallbacks = << >> /\ entries = << >> /\ ruleCount = 0 /\ slots = << >>
  BY DEF Fresh
<1>2. DOMAIN << >> = {}
  OBVIOUS
<1>3. Typed /\ Placed /\ Covered /\ Grown /\ Checked /\ Compiled
  <2>1. Typed
    BY <1>1, <1>2, IdsAssumption DEF Typed
  <2>2. Placed
    BY <1>1, <1>2 DEF Placed
  <2>3. Covered
    <3>1. \A r \in DOMAIN registrations : ~(r < 1)
      BY <1>1
    <3> QED BY <1>1, <1>2, <3>1 DEF Covered
  <2>4. Grown
    BY <1>1, <1>2 DEF Grown
  <2>5. Checked /\ Compiled
    BY <1>1, <1>2 DEF Checked, Compiled
  <2> QED BY <2>1, <2>2, <2>3, <2>4, <2>5
<1>4. \A r \in DOMAIN registrations : r \in Nat \ {0} /\ \A i \in DOMAIN registrations[r].patterns : i \in Nat \ {0}
  BY <1>3, RegistrationShape
<1>5. Fixed
  <2>1. \A r \in DOMAIN registrations : \A i \in DOMAIN registrations[r].patterns : ~Validated(r, i)
    BY <1>1, <1>4 DEF Validated
  <2> QED BY <1>1, <1>2, <2>1 DEF Fixed
<1>6. Numbered
  <2>1. Before(current, 1) = {}
    <3>1. \A d \in Definitions : ~(d[1] < 1) /\ ~(d[2] < 1)
      <4>1. \A d \in Definitions : d[1] \in DOMAIN registrations /\ d[2] \in 1..DENIED_RULE + 1
        BY DEF Definitions
      <4> QED BY <1>4, <4>1, IdsAssumption
    <3> QED BY <1>1, <3>1 DEF Before
  <2>2. Cardinality({}) = 0
    BY FS_EmptySet
  <2>3. \A r \in DOMAIN registrations : \A k \in DOMAIN registrations[r].rules : ~Written(r, k)
    BY <1>1, <1>4 DEF Written
  <2> QED BY <1>1, <1>2, <2>1, <2>2, <2>3 DEF Numbered
<1> QED BY <1>3, <1>5, <1>6 DEF IInv

LEMMA InitKeeps == Init => IInv
<1>1. Init => Fresh
  BY BuildsAssumption DEF Init, Fresh
<1> QED BY <1>1, FreshKeeps

LEMMA StepKeeps == IInv /\ [Next]_vars => IInv'
<1> SUFFICES ASSUME IInv, [Next]_vars PROVE IInv'
  OBVIOUS
<1>1. CASE ValidatePattern    BY <1>1, ValidatePatternKeeps
<1>2. CASE ClaimWithoutRules  BY <1>2, ClaimWithoutRulesKeeps
<1>3. CASE NumberRule         BY <1>3, NumberRuleKeeps
<1>4. CASE StartTree          BY <1>4, StartTreeKeeps
<1>5. CASE InsertEntry        BY <1>5, InsertEntryKeeps
<1>6. CASE ApplyFallbacks     BY <1>6, ApplyFallbacksKeeps
<1>7. CASE ValidateExclusive  BY <1>7, ValidateExclusiveKeeps
<1>8. CASE Compile            BY <1>8, CompileKeeps
<1>9. CASE UNCHANGED vars
  <2>1. /\ registrations' = registrations /\ current' = current /\ next' = next /\ phase' = phase
        /\ fallbacks' = fallbacks /\ entries' = entries /\ ruleCount' = ruleCount
        /\ slots' = slots /\ views' = views
    BY <1>9 DEF vars
  <2>2. Typed' /\ Placed'
    BY <2>1 DEF IInv, Typed, Placed, Registration
  <2>3. Fixed' /\ Covered'
    BY <2>1 DEF IInv, Fixed, Validated, Declares, Covered, Entered
  <2>4. Numbered'
    <3>1. /\ Definitions' = Definitions
          /\ \A c, n : Before(c, n)' = Before(c, n)
          /\ \A d : IdOf(d)' = IdOf(d)
      BY <2>1, SameDefinitions
    <3> QED BY <2>1, <3>1 DEF IInv, Numbered, Written, Numbers, Declares
  <2>5. Grown' /\ Checked'
    BY <2>1 DEF IInv, Grown, Inserted, Checked, Undisturbed
  <2>6. Compiled'
    <3>1. NamedMethods' = NamedMethods
      BY <2>1 DEF NamedMethods
    <3>2. \A m : CompileMethod(m)' = CompileMethod(m)
      BY <2>1 DEF CompileMethod, Get, IsEmpty, Nodes
    <3> QED BY <2>1, <3>1, <3>2 DEF IInv, Compiled
  <2> QED BY <2>2, <2>3, <2>4, <2>5, <2>6 DEF IInv
<1> QED BY <1>1, <1>2, <1>3, <1>4, <1>5, <1>6, <1>7, <1>8, <1>9 DEF Next

LEMMA Invariance == Spec => []IInv
BY InitKeeps, StepKeeps, PTL DEF Spec

-----------------------------------------------------------------------------
(***************************************************************************)
(* What a built router holds.                                              *)
(***************************************************************************)
\* The terminals of the tree are the declared ones, each with its own fallback.
LEMMA DeclaredInTree ==
  ASSUME IInv, Built
  PROVE  /\ DOMAIN slots = Declared /\ Declared \subseteq Terminals
         /\ \A t \in Declared : ~IsEmpty(slots[t]) /\ slots[t].inherit = Inherits(t)
<1>1. phase = "built" /\ current > Len(registrations)
  BY DEF Built, IInv, Placed
<1>2. \A r \in DOMAIN registrations : r < current
  <2>1. \A r \in DOMAIN registrations : r \in 1..Len(registrations)
    BY RegistrationShape DEF IInv
  <2>2. current \in Nat /\ Len(registrations) \in Nat
    BY DEF IInv, Typed
  <2> QED BY <1>1, <2>1, <2>2
<1>3. \A r \in DOMAIN registrations : \A t \in Elements(registrations[r].patterns) :
        t \in DOMAIN fallbacks /\ fallbacks[t] = registrations[r].inherit
  <2> SUFFICES ASSUME NEW r \in DOMAIN registrations, NEW i \in DOMAIN registrations[r].patterns
               PROVE  /\ registrations[r].patterns[i] \in DOMAIN fallbacks
                      /\ fallbacks[registrations[r].patterns[i]] = registrations[r].inherit
    BY DEF Elements
  <2>1. Validated(r, i)
    BY <1>2 DEF Validated
  <2> QED BY <2>1 DEF IInv, Fixed
<1>4. \A t \in DOMAIN fallbacks :
        /\ t \in DOMAIN slots /\ t \in Terminals
        /\ slots[t].claimed = TRUE /\ slots[t].inherit = fallbacks[t]
  BY <1>1 DEF IInv, Grown, Fixed
<1>5. ASSUME NEW t \in DOMAIN slots PROVE t \in Declared
  <2>1. PICK e \in DOMAIN entries : entries[e].terminal = t
    BY DEF IInv, Grown
  <2>2. PICK r \in DOMAIN registrations : Declares(r, t)
    BY <2>1 DEF IInv, Covered
  <2> QED BY <2>2 DEF Declares, Declared
<1>6. ASSUME NEW t \in Declared
      PROVE  /\ t \in DOMAIN slots /\ t \in Terminals
             /\ ~IsEmpty(slots[t]) /\ slots[t].inherit = Inherits(t)
  <2>1. PICK r \in DOMAIN registrations : t \in Elements(registrations[r].patterns)
    BY DEF Declared
  <2>2. t \in DOMAIN fallbacks
    BY <1>3, <2>1
  <2>3. Inherits(t) <=> fallbacks[t] = TRUE
    <3>1. registrations[r].inherit \in BOOLEAN
      BY RegistrationShape DEF IInv
    <3>2. \A q \in DOMAIN registrations : registrations[q].inherit \in BOOLEAN
      BY RegistrationShape DEF IInv
    <3> QED BY <1>3, <2>1, <3>1, <3>2 DEF Inherits
  <2>4. fallbacks[t] \in BOOLEAN
    <3>1. fallbacks[t] = registrations[r].inherit
      BY <1>3, <2>1
    <3> QED BY <3>1, RegistrationShape DEF IInv
  <2>5. slots[t].inherit = Inherits(t)
    <3>1. slots[t].inherit = fallbacks[t]
      BY <1>4, <2>2
    <3> HIDE DEF Inherits
    <3>2. Inherits(t) \in BOOLEAN
      BY DEF Inherits
    <3> QED BY <2>3, <2>4, <3>1, <3>2
  <2> QED BY <1>4, <2>2, <2>5 DEF IsEmpty
<1> QED BY <1>5, <1>6

\* A key leads where the definitions say, to at most one rule.
LEMMA OffersInTree ==
  ASSUME IInv, Built, NEW t \in Declared, NEW key
  PROVE  Offers(t, key) = IF key \in DOMAIN slots[t].ids THEN {slots[t].ids[key]} ELSE {}
<1>1. phase = "built" /\ current > Len(registrations)
  BY DEF Built, IInv, Placed
<1>2. t \in DOMAIN slots
  BY DeclaredInTree
<1>3. ASSUME NEW d \in Definitions, t \in Elements(registrations[d[1]].patterns),
             key \in Elements(registrations[d[1]].rules[d[2]])
      PROVE  key \in DOMAIN slots[t].ids /\ slots[t].ids[key] = IdOf(d)
  <2>1. /\ d[1] \in DOMAIN registrations /\ d[2] \in DOMAIN registrations[d[1]].rules
        /\ d = <<d[1], d[2]>>
    BY DEF Definitions
  <2>2. d[1] < current
    <3>1. d[1] \in 1..Len(registrations) /\ Len(registrations) \in Nat /\ current \in Nat
      BY <2>1, RegistrationShape DEF IInv, Typed
    <3> QED BY <1>1, <3>1
  <2>3. PICK i \in DOMAIN registrations[d[1]].patterns : registrations[d[1]].patterns[i] = t
    BY <1>3 DEF Elements
  <2>4. PICK e \in DOMAIN entries : entries[e].terminal = t /\ Numbers(e, d[1], d[2])
    BY <2>1, <2>2, <2>3 DEF IInv, Numbered, Written
  <2>5. key \in Elements(entries[e].keys) /\ entries[e].id = IdOf(d)
    BY <1>3, <2>1, <2>4 DEF Numbers
  <2>6. Inserted(e)
    BY <1>1 DEF Inserted
  <2> QED BY <2>4, <2>5, <2>6 DEF IInv, Grown
<1>4. ASSUME key \in DOMAIN slots[t].ids
      PROVE  slots[t].ids[key] \in Offers(t, key)
  <2>1. PICK e \in DOMAIN entries : /\ entries[e].terminal = t /\ key \in Elements(entries[e].keys)
                                    /\ slots[t].ids[key] = entries[e].id
    BY <1>2, <1>4 DEF IInv, Grown
  <2>2. entries[e].keys # << >>
    BY <2>1 DEF Elements
  <2>3. PICK d \in Definitions : Declares(d[1], t) /\ Numbers(e, d[1], d[2])
    BY <2>1, <2>2 DEF IInv, Numbered
  <2>4. d = <<d[1], d[2]>>
    BY DEF Definitions
  <2> QED BY <2>1, <2>3, <2>4 DEF Declares, Numbers, Offers
<1>5. \A id \in Offers(t, key) : key \in DOMAIN slots[t].ids /\ id = slots[t].ids[key]
  BY <1>3 DEF Offers
<1> QED BY <1>4, <1>5

\* The ids in the tree are those of the rules.
LEMMA IdsInTree ==
  ASSUME IInv, NEW t \in DOMAIN slots, NEW method, NEW id \in Get(slots[t], method)
  PROVE  id \in Nat /\ id < ruleCount
<1>1. PICK n : n = ruleCount
  OBVIOUS
<1>2. n \in Nat
  BY <1>1, IdsAssumption DEF IInv, Typed
<1>3. PICK D \in SUBSET Keys : slots[t].ids \in [D -> 0..(n - 1)]
  BY <1>1 DEF IInv, Typed, SlotType, IdTables
<1>4. id \in 0..(n - 1)
  BY <1>3 DEF Get
<1> QED BY <1>1, <1>2, <1>4

\* Every id a view can answer is a denial or one of a rule (rule_for_id).
THEOREM IdsAlwaysResolve == Spec => []RuleIdsResolve
<1>1. IInv => RuleIdsResolve
  <2> SUFFICES ASSUME IInv, Built, NEW m \in DOMAIN views, NEW t \in DOMAIN views[m].rule
               PROVE  views[m].rule[t] = DENIED_RULE \/ views[m].rule[t] < ruleCount
    BY DEF RuleIdsResolve
  <2>1. views[m] = CompileMethod(m)
    BY DEF IInv, Compiled, Built
  <2>2. /\ t \in DOMAIN slots
        /\ \/ Get(slots[t], m) # {} /\ views[m].rule[t] = CHOOSE id \in Get(slots[t], m) : TRUE
           \/ Get(slots[t], m) = {} /\ views[m].rule[t] = DENIED_RULE
    BY <2>1 DEF CompileMethod
  <2>3. CASE Get(slots[t], m) # {} /\ views[m].rule[t] = CHOOSE id \in Get(slots[t], m) : TRUE
    <3>1. views[m].rule[t] \in Get(slots[t], m)
      BY <2>3
    <3> QED BY <2>2, <3>1, IdsInTree
  <2> QED BY <2>2, <2>3
<1> QED BY Invariance, <1>1, PTL

\* Whatever comes before an exclusive catch-all in its tail overrides it.
LEMMA TailsOwned == IInv => ExclusiveOwnsTail
<1> SUFFICES ASSUME IInv, Built, NEW x \in Exclusive, NEW p \in Requests, Claims(x, p),
                    NEW m \in DOMAIN views, NEW t \in Candidates(views[m], p, {}),
                    Precedes(t.node, x.node)
             PROVE  FALSE
  BY DEF ExclusiveOwnsTail
<1>1. PICK r \in DOMAIN registrations : registrations[r].exclusive /\ Declares(r, x)
  BY DEF Exclusive, Declares
<1>2. x \in Declared /\ x.slot = "catchall"
  BY DEF Exclusive
<1>3. t \in DOMAIN slots /\ Claims(t, p)
  <2>1. views[m] = CompileMethod(m)
    BY DEF IInv, Compiled, Built
  <2> QED BY <2>1 DEF CompileMethod, Candidates
<1>4. x \in Terminals /\ t \in Terminals /\ p \in Paths
  BY <1>2, <1>3, DeclaredInTree, RequestsAssumption
<1>5. OverridesTail(x.node, t)
  BY <1>2, <1>3, <1>4, IntrudersOverride
<1>6. PICK k \in DOMAIN entries : entries[k].terminal = t
  BY <1>3 DEF IInv, Grown
<1>7. PICK e \in DOMAIN entries : entries[e].terminal = x /\ entries[e].exclusive
  <2>1. PICK i \in DOMAIN registrations[r].patterns : registrations[r].patterns[i] = x
    BY <1>1 DEF Declares, Elements
  <2>2. r < current
    <3>1. r \in 1..Len(registrations) /\ Len(registrations) \in Nat /\ current \in Nat
      BY RegistrationShape DEF IInv, Typed
    <3>2. current > Len(registrations)
      BY DEF Built, IInv, Placed
    <3> QED BY <3>1, <3>2
  <2> QED BY <1>1, <2>1, <2>2 DEF IInv, Covered, Entered
<1>8. Undisturbed(e)
  BY DEF IInv, Checked, Built
<1> QED BY <1>2, <1>5, <1>6, <1>7, <1>8 DEF Undisturbed, Opaque

\* In a built router no terminal comes before an exclusive catch-all on a path of its
\* tail, under any method (validate_opaque).
THEOREM TailAlwaysOwned == Spec => []ExclusiveOwnsTail
BY Invariance, TailsOwned, PTL

-----------------------------------------------------------------------------
(***************************************************************************)
(* Handing a path down: among the terminals it claims, those that end the  *)
(* search (E) answer, the best of them first; the others pass the path on. *)
(***************************************************************************)
Top(S) == CHOOSE c \in S : IsBest(c, S)

\* The answer without the search.
Outcome(S, E, value) == IF S \cap E = {} THEN DEFAULT_RULE ELSE value[Top(S \cap E)]

\* One step of the search, which f continues.
HandDown(S, E, value, f) ==
  IF S = {} THEN DEFAULT_RULE
  ELSE IF Top(S) \in E THEN value[Top(S)] ELSE f[S \ {Top(S)}]

Claimed(S, p) == \A t \in S : t \in Terminals /\ Claims(t, p)

\* Terminals that claim one path have exactly one best.
LEMMA TopIsBest ==
  ASSUME NEW p \in Paths, NEW S, Claimed(S, p), S # {}
  PROVE  /\ IsBest(Top(S), S)
         /\ \A t : IsBest(t, S) => t = Top(S)
<1>1. \E t \in S : IsBest(t, S)
  <2>1. Len(p) \in Nat /\ Len(p) >= 1
    BY DEF Paths
  <2>2. \A t \in S : t.node \in Addresses /\ Len(t.node) \in Nat /\ Len(t.node) <= Len(p)
    <3> SUFFICES ASSUME NEW t \in S
                 PROVE  t.node \in Addresses /\ Len(t.node) \in Nat /\ Len(t.node) <= Len(p)
      OBVIOUS
    <3>1. t.node \in Addresses /\ Len(t.node) \in Nat /\ Claims(t, p)
      BY DEF Claimed, Terminals, Addresses
    <3> QED BY <2>1, <3>1 DEF Claims, Fits
  <2> QED BY <2>1, <2>2, BestExists
<1>2. IsBest(Top(S), S)
  BY <1>1 DEF Top
<1> QED BY <1>2, BestUnique DEF Claimed

\* The outcome is a solution of the search.
LEMMA OutcomeSteps ==
  ASSUME NEW p \in Paths, NEW S, Claimed(S, p), NEW E, NEW value, NEW f,
         S # {} => f[S \ {Top(S)}] = Outcome(S \ {Top(S)}, E, value)
  PROVE  HandDown(S, E, value, f) = Outcome(S, E, value)
<1>1. CASE S = {}
  BY <1>1 DEF HandDown, Outcome
<1>2. CASE S # {}
  <2>1. IsBest(Top(S), S)
    BY <1>2, TopIsBest
  <2>2. CASE Top(S) \in E
    <3>1. IsBest(Top(S), S \cap E)
      BY <2>1, <2>2 DEF IsBest
    <3>2. Claimed(S \cap E, p) /\ S \cap E # {}
      BY <3>1 DEF Claimed, IsBest
    <3>3. Top(S) = Top(S \cap E)
      BY <3>1, <3>2, TopIsBest
    <3> QED BY <1>2, <2>2, <3>2, <3>3 DEF HandDown, Outcome
  <2>3. CASE Top(S) \notin E
    <3>1. (S \ {Top(S)}) \cap E = S \cap E
      BY <2>3
    <3>2. Outcome(S \ {Top(S)}, E, value) = Outcome(S, E, value)
      BY <3>1 DEF Outcome
    <3> QED BY <1>2, <2>3, <3>2 DEF HandDown
  <2> QED BY <2>2, <2>3
<1> QED BY <1>1, <1>2

\* It is the only one, among finitely many terminals.
LEMMA SearchHasOutcome ==
  ASSUME NEW p \in Paths, NEW C, IsFiniteSet(C), Claimed(C, p), NEW E, NEW value, NEW f,
         \A S \in SUBSET C : f[S] = HandDown(S, E, value, f)
  PROVE  f[C] = Outcome(C, E, value)
<1> DEFINE Wrong == {S \in SUBSET C : f[S] # Outcome(S, E, value)}
<1> SUFFICES ASSUME Wrong # {} PROVE FALSE
  OBVIOUS
<1>1. Wrong \subseteq FiniteSubsetsOf(C)
  BY FS_Subset DEF FiniteSubsetsOf
<1>2. PICK S \in Wrong : \A R \in Wrong : <<R, S>> \notin StrictSubsetOrdering(C)
  <2> HIDE DEF Wrong
  <2> QED BY <1>1, WFMin, FS_StrictSubsetOrderingWellFounded
<1>3. S \in SUBSET C /\ f[S] # Outcome(S, E, value)
  OBVIOUS
<1>4. Claimed(S, p)
  BY <1>3 DEF Claimed
<1>5. S # {} => f[S \ {Top(S)}] = Outcome(S \ {Top(S)}, E, value)
  <2> SUFFICES ASSUME S # {} PROVE f[S \ {Top(S)}] = Outcome(S \ {Top(S)}, E, value)
    OBVIOUS
  <2>1. Top(S) \in S
    BY <1>4, TopIsBest DEF IsBest
  <2>2. <<S \ {Top(S)}, S>> \in StrictSubsetOrdering(C)
    BY <1>3, <2>1 DEF StrictSubsetOrdering
  <2> QED BY <1>2, <1>3, <2>2
<1>6. HandDown(S, E, value, f) = Outcome(S, E, value)
  BY <1>4, <1>5, OutcomeSteps
<1> QED BY <1>3, <1>6

-----------------------------------------------------------------------------
(***************************************************************************)
(* What a view answers.                                                    *)
(***************************************************************************)
\* The rule a declared terminal has for a method, from its registrations.
Stops(t, m) == LocalRule(t, m) # {} \/ ~Inherits(t)
RuleThere(t, m) ==
  IF LocalRule(t, m) # {} THEN CHOOSE id \in LocalRule(t, m) : TRUE ELSE DENIED_RULE

\* The documented lookup answers with the best terminal that ends the search.
LEMMA AnswerIsOutcome ==
  ASSUME NEW p \in Paths, NEW m, NEW D, IsFiniteSet(D), D \subseteq Terminals
  PROVE  AnswerAmong(D, p, m) = Outcome({t \in D : Claims(t, p)}, {t \in D : Stops(t, m)},
                                        [t \in D |-> RuleThere(t, m)])
<1> DEFINE C == {t \in D : Claims(t, p)}
           E == {t \in D : Stops(t, m)}
           value == [t \in D |-> RuleThere(t, m)]
           Turn(f, S) ==
             IF S = {} THEN DEFAULT_RULE
             ELSE LET t == CHOOSE c \in S : IsBest(c, S)
                  IN  IF LocalRule(t, m) # {} THEN CHOOSE id \in LocalRule(t, m) : TRUE
                      ELSE IF Inherits(t) THEN f[S \ {t}] ELSE DENIED_RULE
           from == CHOOSE f : f = [S \in SUBSET C |-> Turn(f, S)]
           g == [S \in SUBSET C |-> Outcome(S, E, value)]
<1>1. Claimed(C, p) /\ IsFiniteSet(C)
  BY FS_Subset DEF Claimed
<1>2. ASSUME NEW S \in SUBSET C, NEW f PROVE Turn(f, S) = HandDown(S, E, value, f)
  <2>1. CASE S = {}
    BY <2>1 DEF HandDown
  <2>2. CASE S # {}
    <3>1. Claimed(S, p)
      BY <1>1 DEF Claimed
    <3>2. Top(S) \in S /\ Top(S) \in D
      BY <2>2, <3>1, TopIsBest DEF IsBest
    <3>3. Top(S) \in E <=> Stops(Top(S), m)
      BY <3>2
    <3>4. value[Top(S)] = RuleThere(Top(S), m)
      BY <3>2
    <3>5. Turn(f, S) = IF LocalRule(Top(S), m) # {} THEN CHOOSE id \in LocalRule(Top(S), m) : TRUE
                       ELSE IF Inherits(Top(S)) THEN f[S \ {Top(S)}] ELSE DENIED_RULE
      BY <2>2 DEF Top
    <3> HIDE DEF E, value, Turn
    <3> QED BY <2>2, <3>3, <3>4, <3>5 DEF HandDown, Stops, RuleThere
  <2> QED BY <2>1, <2>2
<1>3. \E f : f = [S \in SUBSET C |-> Turn(f, S)]
  <2>1. ASSUME NEW S \in SUBSET C PROVE g[S] = Turn(g, S)
    <3>1. Claimed(S, p)
      BY <1>1 DEF Claimed
    <3>2. S # {} => g[S \ {Top(S)}] = Outcome(S \ {Top(S)}, E, value)
      OBVIOUS
    <3>3. g[S] = Outcome(S, E, value)
      OBVIOUS
    <3> HIDE DEF E, value, Turn, g, C
    <3>4. HandDown(S, E, value, g) = Outcome(S, E, value)
      BY <3>1, <3>2, OutcomeSteps
    <3> QED BY <1>2, <3>3, <3>4
  <2>2. g = [S \in SUBSET C |-> g[S]]
    OBVIOUS
  <2> HIDE DEF g, Turn, C
  <2>3. g = [S \in SUBSET C |-> Turn(g, S)]
    BY <2>1, <2>2
  <2> QED BY <2>3
<1>4. from = [S \in SUBSET C |-> Turn(from, S)]
  <2> HIDE DEF C, Turn
  <2> QED BY <1>3
<1>5. \A S \in SUBSET C : from[S] = HandDown(S, E, value, from)
  <2> HIDE DEF C, Turn, E, value, from
  <2> QED BY <1>2, <1>4
<1>6. from[C] = Outcome(C, E, value)
  <2> HIDE DEF C, Turn, E, value, from
  <2> QED BY <1>1, <1>5, SearchHasOutcome
<1>7. AnswerAmong(D, p, m) = from[C]
  BY DEF AnswerAmong
<1> QED BY <1>6, <1>7

\* A terminal's own rule, read from the registrations or from the tree.
LEMMA LocalInTree ==
  ASSUME IInv, Built, NEW t \in Declared, NEW m
  PROVE  LocalRule(t, m) = Get(slots[t], m)
<1>1. Offers(t, m) = IF m \in DOMAIN slots[t].ids THEN {slots[t].ids[m]} ELSE {}
  BY OffersInTree
<1>2. Offers(t, All) = IF All \in DOMAIN slots[t].ids THEN {slots[t].ids[All]} ELSE {}
  BY OffersInTree
<1> HIDE DEF Offers
<1> QED BY <1>1, <1>2 DEF LocalRule, Get

\* A method without a view of its own has no rule of its own.
LEMMA UnnamedAsOther ==
  ASSUME IInv, NEW t \in DOMAIN slots, NEW m, m \notin NamedMethods
  PROVE  Get(slots[t], m) = Get(slots[t], Other)
<1>1. ASSUME NEW key \in DOMAIN slots[t].ids PROVE key \in Keys /\ (key = All \/ key \in NamedMethods)
  <2>1. PICK e \in DOMAIN entries : key \in Elements(entries[e].keys)
    BY DEF IInv, Grown
  <2>2. entries[e].keys \in Seq(Keys)
    <3>1. entries \in Seq(EntryType)
      BY DEF IInv, Typed
    <3>2. entries[e] \in EntryType
      BY <3>1
    <3> QED BY <3>2 DEF EntryType
  <2>3. PICK i \in DOMAIN entries[e].keys : key = entries[e].keys[i]
    BY <2>1 DEF Elements
  <2>4. key \in Keys
    BY <2>2, <2>3
  <2>5. key # All => key \in NamedMethods
    <3>1. entries[e] \in {entries[k] : k \in DOMAIN entries}
      OBVIOUS
    <3>2. key \in {entries[e].keys[k] : k \in DOMAIN entries[e].keys}
      BY <2>3
    <3> QED BY <3>1, <3>2 DEF NamedMethods
  <2> QED BY <2>4, <2>5
<1>2. (m # All => m \notin DOMAIN slots[t].ids) /\ Other \notin DOMAIN slots[t].ids
  <2>1. Other \notin Keys
    BY MethodsAssumption DEF Keys
  <2> QED BY <1>1, <2>1
<1> QED BY <1>2 DEF Get

LEMMA ViewOf ==
  ASSUME IInv, Built, NEW m
  PROVE  \E n : ViewFor(m) = CompileMethod(n) /\ \A t \in DOMAIN slots : Get(slots[t], n) = Get(slots[t], m)
<1>1. views = [n \in NamedMethods \cup {Other} |-> CompileMethod(n)]
  BY DEF IInv, Compiled, Built
<1>2. CASE m \in DOMAIN views
  <2>1. ViewFor(m) = CompileMethod(m)
    BY <1>1, <1>2 DEF ViewFor
  <2> QED BY <2>1
<1>3. CASE m \notin DOMAIN views
  <2>1. m \notin NamedMethods /\ m # Other
    BY <1>1, <1>3
  <2>2. ViewFor(m) = CompileMethod(Other)
    BY <1>1, <1>3 DEF ViewFor
  <2>3. \A t \in DOMAIN slots : Get(slots[t], Other) = Get(slots[t], m)
    BY <2>1, UnnamedAsOther
  <2> QED BY <2>2, <2>3
<1> QED BY <1>2, <1>3

LEMMA DeclaredFinite ==
  ASSUME IInv, Built
  PROVE  IsFiniteSet(Declared)
<1> DEFINE f == [e \in DOMAIN entries |-> entries[e].terminal]
<1>1. IsFiniteSet(DOMAIN f)
  <2>1. Len(entries) \in Nat /\ DOMAIN entries = 1..Len(entries)
    BY DEF IInv, Typed
  <2> QED BY <2>1, FS_Interval
<1>2. DOMAIN slots \subseteq {f[e] : e \in DOMAIN f}
  BY DEF IInv, Grown
<1>3. IsFiniteSet(DOMAIN slots)
  <2> HIDE DEF f
  <2> QED BY <1>1, <1>2, ImageFinite
<1> QED BY <1>3, DeclaredInTree

\* A view holds the terminals that end the search, and what they answer.
ViewHolds(m) ==
  /\ DOMAIN ViewFor(m).rule = {t \in Declared : Stops(t, m)}
  /\ \A t \in Declared : Stops(t, m) => ViewFor(m).rule[t] = RuleThere(t, m)

LEMMA ViewsHold ==
  ASSUME IInv, Built, NEW m
  PROVE  ViewHolds(m)
<1>1. PICK n : ViewFor(m) = CompileMethod(n) /\ \A t \in DOMAIN slots : Get(slots[t], n) = Get(slots[t], m)
  BY ViewOf
<1>2. PICK D : D = Declared
  OBVIOUS
<1>3. D = DOMAIN slots /\ D \subseteq Terminals
  BY <1>2, DeclaredInTree
<1>4. ASSUME NEW t \in D
      PROVE  /\ LocalRule(t, m) = Get(slots[t], n)
             /\ ~IsEmpty(slots[t]) /\ slots[t].inherit = Inherits(t)
  BY <1>1, <1>2, <1>3, LocalInTree, DeclaredInTree
<1>5. DOMAIN CompileMethod(n).rule = {t \in D : Stops(t, m)}
  BY <1>3, <1>4 DEF CompileMethod, Stops
<1>6. ASSUME NEW t \in D, Stops(t, m) PROVE CompileMethod(n).rule[t] = RuleThere(t, m)
  <2>1. CompileMethod(n).rule[t] =
          IF Get(slots[t], n) # {} THEN CHOOSE id \in Get(slots[t], n) : TRUE ELSE DENIED_RULE
    BY <1>5, <1>6 DEF CompileMethod
  <2>2. LocalRule(t, m) = Get(slots[t], n)
    BY <1>4
  <2> QED BY <2>1, <2>2 DEF RuleThere
<1> QED BY <1>1, <1>2, <1>5, <1>6 DEF ViewHolds

\* A compiled view answers with the best terminal that ends the search.
LEMMA ViewIsOutcome ==
  ASSUME NEW p \in Paths, NEW m, Declared \subseteq Terminals, ViewHolds(m)
  PROVE  RuleOf(ViewFor(m), p) =
           Outcome({t \in Declared : Claims(t, p)}, {t \in Declared : Stops(t, m)},
                   [t \in Declared |-> RuleThere(t, m)])
<1>1. PICK D, V : D = Declared /\ V = ViewFor(m)
  OBVIOUS
<1> DEFINE C == {t \in D : Claims(t, p)}
           E == {t \in D : Stops(t, m)}
           value == [t \in D |-> RuleThere(t, m)]
<1>2. DOMAIN V.rule = E /\ \A t \in E : V.rule[t] = value[t]
  BY <1>1 DEF ViewHolds
<1>3. Candidates(V, p, {}) = C \cap E
  BY <1>2 DEF Candidates
<1>4. Claimed(C \cap E, p)
  BY <1>1 DEF Claimed
<1> HIDE DEF C, E, value
<1>5. RuleOf(V, p) = Outcome(C, E, value)
  <2>1. CASE C \cap E = {}
    BY <1>3, <2>1 DEF RuleOf, Outcome
  <2>2. CASE C \cap E # {}
    <3>1. Top(C \cap E) \in E
      BY <1>4, <2>2, TopIsBest DEF IsBest
    <3>2. RuleOf(V, p) = V.rule[Top(C \cap E)]
      BY <1>3, <2>2 DEF RuleOf, Top
    <3> QED BY <1>2, <2>2, <3>1, <3>2 DEF Outcome
  <2> QED BY <2>1, <2>2
<1> QED BY <1>1, <1>5 DEF C, E, value

\* Matching in a compiled view is the lookup the registrations document: the method's own
\* rule, else the wildcard's, else the next matching pattern if this one inherits, else a
\* denial; a method nobody named is answered by the remaining view (compile_method,
\* root_for, MethodSlot::get).
THEOREM ViewsAnswerAsDeclared == Spec => []ContinuationAgrees
<1>1. IInv => ContinuationAgrees
  <2> SUFFICES ASSUME IInv, Built, NEW p \in Requests, NEW m \in Methods \cup {Other}
               PROVE  RuleOf(ViewFor(m), p) = Answer(p, m)
    BY DEF ContinuationAgrees
  <2>1. p \in Paths
    BY RequestsAssumption
  <2>2. PICK D : D = Declared
    OBVIOUS
  <2>3. D \subseteq Terminals /\ IsFiniteSet(D)
    BY <2>2, DeclaredInTree, DeclaredFinite
  <2>4. RuleOf(ViewFor(m), p) = Outcome({t \in D : Claims(t, p)}, {t \in D : Stops(t, m)},
                                        [t \in D |-> RuleThere(t, m)])
    BY <2>1, <2>2, <2>3, ViewsHold, ViewIsOutcome
  <2> QED BY <2>1, <2>2, <2>3, <2>4, AnswerIsOutcome DEF Answer
<1> QED BY Invariance, <1>1, PTL

-----------------------------------------------------------------------------
(***************************************************************************)
(* What is refused, and for what.                                          *)
(***************************************************************************)
\* A literal for each wildcard of two nodes, and a segment beyond them, make a path of
\* both: an override found by the check is one on some path.
LEMMA OverridesIntrude ==
  ASSUME NEW x \in Terminals, NEW t \in Terminals, x.slot = "catchall",
         OverridesTail(x.node, t), Segments # {}
  PROVE  \E p \in Paths : Claims(x, p) /\ Claims(t, p) /\ Precedes(t.node, x.node)
<1>1. PICK X \in Addresses : X = x.node
  BY DEF Terminals
<1>2. PICK T \in Addresses : T = t.node
  BY DEF Terminals
<1>3. PICK a \in Nat : a = Len(X) /\ DOMAIN X = 1..a
  BY DEF Addresses
<1>4. PICK b \in Nat : b = Len(T) /\ DOMAIN T = 1..b
  BY DEF Addresses
<1>5. PICK c \in Segments : TRUE
  OBVIOUS
<1>6. /\ \A i \in 1..a : X[i] \in Segments \cup {Star}
      /\ \A i \in 1..b : T[i] \in Segments \cup {Star}
      /\ Empty \notin Segments /\ Star # Empty
      /\ t.slot \in {"leaf", "leaf_slash", "catchall"}
  BY <1>3, <1>4, SegmentsAssumption DEF Addresses, Terminals, Slots
<1> DEFINE higher(i) == \E j \in 1..i : X[j] = Star /\ T[j] # Star
           shared == IF b < a THEN b ELSE a
<1>7. /\ \A i \in 1..shared : X[i] = Star \/ (T[i] = Star /\ higher(i - 1)) \/ T[i] = X[i]
      /\ b > a \/ (t.slot = "catchall" /\ higher(shared))
  BY <1>1, <1>2, <1>3, <1>4 DEF OverridesTail
<1>8. \E k \in 1..b : /\ k <= a + 1
                      /\ \A j \in 1..(k - 1) : T[j] = X[j]
                      /\ k <= a => T[k] # Star /\ X[k] = Star
  <2> DEFINE S == {j \in 1..shared : X[j] = Star /\ T[j] # Star}
  <2>1. shared \in Nat /\ shared <= a /\ shared <= b
    BY <1>3, <1>4
  <2>2. ASSUME NEW k \in Nat, k <= shared + 1, \A j \in 1..(k - 1) : j \notin S
        PROVE  \A j \in 1..(k - 1) : T[j] = X[j]
    <3> SUFFICES ASSUME NEW j \in 1..(k - 1) PROVE T[j] = X[j]
      OBVIOUS
    <3>1. j \in 1..shared /\ \A h \in 1..(j - 1) : h \in 1..(k - 1) /\ h \in 1..shared
      BY <2>1, <2>2
    <3>2. ~higher(j - 1)
      BY <2>2, <3>1
    <3>3. X[j] = Star => T[j] = Star
      BY <2>2, <3>1
    <3> QED BY <1>7, <3>1, <3>2, <3>3
  <2>3. CASE S = {}
    <3>1. \A j \in 1..((shared + 1) - 1) : T[j] = X[j]
      BY <2>1, <2>2, <2>3
    <3>2. ~higher(shared)
      BY <2>3
    <3>3. b > a /\ shared = a
      BY <1>3, <1>4, <1>7, <3>2
    <3>4. a + 1 \in 1..b
      BY <1>3, <1>4, <3>3
    <3>5. \A j \in 1..((a + 1) - 1) : T[j] = X[j]
      BY <3>1, <3>3
    <3>6. ~(a + 1 <= a)
      BY <1>3
    <3> QED BY <3>4, <3>5, <3>6
  <2>4. CASE S # {}
    <3>1. S \subseteq Nat
      BY <2>1
    <3>2. PICK k \in S : \A j \in S : k <= j
      BY <2>4, <3>1, LeastNatural
    <3>3. k \in 1..shared /\ X[k] = Star /\ T[k] # Star
      OBVIOUS
    <3>4. \A j \in 1..(k - 1) : j \notin S
      BY <3>1, <3>2, <3>3
    <3>5. \A j \in 1..(k - 1) : T[j] = X[j]
      <4> HIDE DEF S, shared
      <4> QED BY <2>1, <2>2, <3>3, <3>4
    <3> QED BY <2>1, <3>3, <3>5
  <2> QED BY <2>3, <2>4
<1>9. Precedes(T, X)
  <2>1. PICK k \in 1..b : /\ k <= a + 1
                          /\ \A j \in 1..(k - 1) : T[j] = X[j]
                          /\ k <= a => T[k] # Star /\ X[k] = Star
    BY <1>8
  <2>2. Len(X) >= k - 1 /\ (Len(X) = k - 1 \/ (Len(X) >= k /\ T[k] # Star /\ X[k] = Star))
    BY <1>3, <1>4, <2>1
  <2> QED BY <1>4, <2>1, <2>2 DEF Precedes
<1> DEFINE n == IF b > a THEN (IF t.slot = "leaf" THEN b ELSE b + 1) ELSE a + 1
           At(i) == IF i \in 1..b /\ T[i] # Star THEN T[i]
                    ELSE IF i \in 1..a /\ X[i] # Star THEN X[i]
                    ELSE IF t.slot = "leaf_slash" /\ i = b + 1 THEN Empty ELSE c
           p == [i \in 1..n |-> At(i)]
<1>10. n \in Nat /\ n > a /\ n >= b /\ n >= 1
  BY <1>3, <1>4
<1>11. \A i \in 1..n : At(i) \in Segments \cup {Empty}
  BY <1>3, <1>4, <1>5, <1>6
<1>12. p \in Paths /\ Len(p) = n /\ \A i \in 1..n : p[i] = At(i)
  <2>1. \A i \in 1..n : p[i] = At(i)
    OBVIOUS
  <2>2. p = [i \in 1..n |-> p[i]]
    OBVIOUS
  <2> HIDE DEF p, At, n
  <2>3. p \in Seq(Segments \cup {Empty}) /\ Len(p) = n
    BY <1>10, <1>11, <2>1, <2>2, Listed
  <2>4. p # << >>
    BY <1>10, <2>3
  <2> QED BY <2>1, <2>3, <2>4 DEF Paths
<1>0. ASSUME NEW i \in 1..b PROVE Takes(T[i], At(i)) /\ At(i) \in Segments
  <2>1. ~(i = b + 1)
    BY <1>4
  <2> QED BY <1>4, <1>5, <1>6, <2>1 DEF Takes
<1>14. ASSUME NEW i \in 1..a PROVE Takes(X[i], At(i))
  <2>1. ~(t.slot = "leaf_slash" /\ i = b + 1)
    BY <1>3, <1>4, <1>7
  <2>2. CASE X[i] = Star
    <3>1. At(i) \in Segments
      BY <1>3, <1>4, <1>5, <1>6, <2>1
    <3> QED BY <1>6, <2>2, <3>1 DEF Takes
  <2>3. CASE X[i] # Star
    <3>1. i \in 1..b => T[i] = Star \/ T[i] = X[i]
      BY <1>3, <1>4, <1>7, <2>3
    <3>2. At(i) = X[i]
      BY <2>3, <3>1
    <3> QED BY <3>2 DEF Takes
  <2> QED BY <2>2, <2>3
<1>15. /\ At(n) = Empty => t.slot = "leaf_slash" /\ n = b + 1 /\ b > a
       /\ b > a => At(a + 1) \in Segments
       /\ b <= a => n = a + 1 /\ t.slot = "catchall" /\ At(n) = c
       /\ t.slot = "leaf_slash" => n = b + 1 /\ At(n) = Empty
  BY <1>3, <1>4, <1>5, <1>6, <1>7
<1> HIDE DEF p, At
<1>16. p # Bare
  <2> SUFFICES ASSUME p = Bare PROVE FALSE
    OBVIOUS
  <2>1. n = 1 /\ p[1] = Empty
    BY <1>12 DEF Bare
  <2> QED BY <1>3, <1>4, <1>12, <1>15, <2>1
<1>17. Claims(x, p)
  <2>1. Fits(X, p)
    BY <1>3, <1>10, <1>12, <1>14 DEF Fits
  <2>2. MoreAt(a, p)
    BY <1>3, <1>4, <1>5, <1>6, <1>10, <1>12, <1>15 DEF MoreAt, SlashAt
  <2> QED BY <1>1, <1>3, <1>16, <2>1, <2>2 DEF Claims
<1>18. Claims(t, p)
  <2>1. Fits(T, p)
    BY <1>4, <1>10, <1>12, <1>0 DEF Fits
  <2>2. \/ t.slot = "leaf" /\ EndsAt(b, p)
        \/ t.slot = "leaf_slash" /\ SlashAt(b, p) /\ b # 0
        \/ t.slot = "catchall" /\ MoreAt(b, p)
    <3>1. CASE t.slot = "leaf"
      BY <1>3, <1>4, <1>12, <1>15, <3>1 DEF EndsAt
    <3>2. CASE t.slot = "leaf_slash"
      BY <1>3, <1>4, <1>10, <1>12, <1>15, <3>2 DEF SlashAt
    <3>3. CASE t.slot = "catchall"
      <4>1. n > b /\ At(n) # Empty
        BY <1>3, <1>4, <1>15, <3>3
      <4> QED BY <1>3, <1>4, <1>10, <1>12, <3>3, <4>1 DEF MoreAt, SlashAt
    <3> QED BY <1>6, <3>1, <3>2, <3>3
  <2> QED BY <1>2, <1>4, <1>16, <2>1, <2>2 DEF Claims
<1> QED BY <1>1, <1>2, <1>9, <1>12, <1>17, <1>18

\* Every entry comes from a pattern of its own for a rule of its own, and every rule that
\* is numbered has one for each pattern.
Origin(e, r, k, i) ==
  /\ r \in DOMAIN registrations /\ i \in DOMAIN registrations[r].patterns
  /\ entries[e].terminal = registrations[r].patterns[i]
  /\ entries[e].exclusive = registrations[r].exclusive
  /\ \/ k = 0 /\ r < current /\ entries[e].keys = << >>
     \/ /\ k \in DOMAIN registrations[r].rules /\ Written(r, k)
        /\ entries[e].keys = registrations[r].rules[k]
LaidBy(origin) ==
  /\ \A e \in DOMAIN entries : \E r, k, i : origin[e] = <<r, k, i>> /\ Origin(e, r, k, i)
  /\ \A d, e \in DOMAIN entries : origin[d] = origin[e] => d = e
  /\ \A r \in DOMAIN registrations :
       \A k \in DOMAIN registrations[r].rules, i \in DOMAIN registrations[r].patterns :
         Written(r, k) => \E e \in DOMAIN entries : origin[e] = <<r, k, i>>
Laid == phase # "failed" => \E origin : LaidBy(origin)

\* What has been inserted repeats no key, and no key in the tree is ahead of its entry.
Distinct(keys) == \A i, j \in DOMAIN keys : keys[i] = keys[j] => i = j
Apart ==
  \A e \in DOMAIN entries : Inserted(e) =>
    /\ Distinct(entries[e].keys)
    /\ \A d \in DOMAIN entries :
         Inserted(d) /\ d # e /\ entries[d].terminal = entries[e].terminal =>
           Elements(entries[d].keys) \cap Elements(entries[e].keys) = {}
Planted ==
  phase = "insert" => \A t \in DOMAIN slots : \A key \in DOMAIN slots[t].ids :
    \E e \in DOMAIN entries : e < next /\ entries[e].terminal = t /\ key \in Elements(entries[e].keys)

\* What has been validated has no fault of its own.
Clean ==
  /\ \A r \in DOMAIN registrations : \A i \in DOMAIN registrations[r].patterns :
       Validated(r, i) => Rejection(registrations[r].patterns[i]) = {}
  /\ \A r \in DOMAIN registrations : r < current => registrations[r].patterns # << >>
  /\ \A r \in DOMAIN registrations : \A k \in DOMAIN registrations[r].rules :
       Written(r, k) => registrations[r].rules[k] # << >>

\* What each error says of the registrations, without reference to any path.
Fault(kind, at) ==
  \/ kind = "EmptyPatternSet" /\ at = << >> /\ \E r \in DOMAIN registrations : registrations[r].patterns = << >>
  \/ kind \in {"Route", "NonCanonical", "NonCanonicalCase"} /\ at \in Declared /\ kind \in Rejection(at)
  \/ kind = "ConflictingFallback" /\ at \in Declared /\ Disputed(at)
  \/ /\ kind = "EmptyMethodSet" /\ at \in Declared
     /\ \E r \in DOMAIN registrations : \E k \in DOMAIN registrations[r].rules : registrations[r].rules[k] = << >>
  \/ kind = "TooManyRegistrations" /\ at = << >> /\ Cardinality(Definitions) > DENIED_RULE
  \/ kind = "Conflict" /\ at \in Declared /\ Repeated(at)
  \/ /\ kind = "NestedUnderExclusive" /\ at \in Exclusive \cap Terminals
     /\ \E t \in Declared \cap Terminals : OverridesTail(at.node, t)
Faulted == phase = "failed" => Fault(failure.kind, failure.at)

\* The inductive invariant of what is accepted and refused, next to IInv.
JInv == Laid /\ Apart /\ Planted /\ Clean /\ Faulted

\* What the registrations say of faults changes with none of the steps.
LEMMA SameFaults ==
  ASSUME registrations' = registrations, config' = config
  PROVE  /\ \A kind, at : Fault(kind, at)' <=> Fault(kind, at)
         /\ \A t : Rejection(t)' = Rejection(t)
<1>1. \A t : Rejection(t)' = Rejection(t)
  BY DEF Rejection
<1>2. Declared' = Declared /\ Exclusive' = Exclusive /\ Definitions' = Definitions
  BY DEF Declared, Exclusive, Definitions, Elements
<1>3. \A t : (Disputed(t)' <=> Disputed(t)) /\ (Repeated(t)' <=> Repeated(t))
  BY DEF Disputed, Repeated
<1> QED BY <1>1, <1>2, <1>3 DEF Fault

\* A refusal leaves the registrations to blame; nothing else is said of a failed build.
LEMMA FailBlames ==
  ASSUME IInv, JInv, NEW kind, NEW where, Fail(kind, where), Fault(kind, where)
  PROVE  JInv'
<1>1. /\ registrations' = registrations /\ config' = config /\ current' = current /\ next' = next
      /\ entries' = entries /\ slots' = slots /\ phase' = "failed"
      /\ failure' = [kind |-> kind, at |-> where]
  BY DEF Fail, arguments
<1>2. /\ \A k, at : Fault(k, at)' <=> Fault(k, at)
      /\ \A t : Rejection(t)' = Rejection(t)
  BY <1>1, SameFaults
<1>3. Laid' /\ Planted'
  BY <1>1 DEF Laid, Planted
<1>4. Apart'
  BY <1>1 DEF Apart, Inserted
<1>5. Clean'
  BY <1>1, <1>2 DEF JInv, Clean, Validated, Written
<1>6. Faulted'
  <2>1. failure'.kind = kind /\ failure'.at = where
    BY <1>1
  <2>2. PICK k, at : k = failure'.kind /\ at = failure'.at
    OBVIOUS
  <2>3. Fault(k, at)'
    BY <1>2, <2>1, <2>2
  <2> QED BY <2>2, <2>3 DEF Faulted
<1> QED BY <1>3, <1>4, <1>5, <1>6 DEF JInv

\* A step that adds no entry and numbers no rule.
LEMMA LaidStays ==
  ASSUME Typed, Laid, registrations' = registrations, entries' = entries, current' = current,
         phase \notin {"rules", "failed"}, phase' = "rules" => next' = 1
  PROVE  Laid'
<1>1. PICK origin : LaidBy(origin)
  BY DEF Laid
<1>2. \A r \in DOMAIN registrations : \A k \in DOMAIN registrations[r].rules : Written(r, k)' <=> Written(r, k)
  <2> SUFFICES ASSUME NEW r \in DOMAIN registrations, NEW k \in DOMAIN registrations[r].rules
               PROVE  Written(r, k)' <=> Written(r, k)
    OBVIOUS
  <2>1. k \in Nat \ {0}
    BY RegistrationShape
  <2> QED BY <2>1 DEF Written
<1>3. \A e, r, k, i : Origin(e, r, k, i) => Origin(e, r, k, i)'
  BY <1>2 DEF Origin
<1>4. LaidBy(origin)'
  BY <1>1, <1>2, <1>3 DEF LaidBy
<1> QED BY <1>4 DEF Laid

\* Nothing more is validated or written than was.
LEMMA CleanStays ==
  ASSUME Clean, registrations' = registrations, config' = config, current' = current,
         \A r \in DOMAIN registrations : \A i \in DOMAIN registrations[r].patterns :
           Validated(r, i)' => Validated(r, i),
         \A r \in DOMAIN registrations : \A k \in DOMAIN registrations[r].rules :
           Written(r, k)' => Written(r, k)
  PROVE  Clean'
<1>1. \A t : Rejection(t)' = Rejection(t)
  BY SameFaults
<1> QED BY <1>1 DEF Clean

LEMMA ValidatePatternBlames == IInv /\ JInv /\ ValidatePattern => JInv'
<1> SUFFICES ASSUME IInv, JInv, ValidatePattern PROVE JInv'
  OBVIOUS
<1>1. PICK patterns : patterns = Registration.patterns
  OBVIOUS
<1>2. PICK pattern : pattern = patterns[next]
  OBVIOUS
<1>3. phase = "patterns" /\ current <= Len(registrations)
  BY DEF ValidatePattern
<1>4. /\ Typed /\ current \in DOMAIN registrations /\ next \in Nat \ {0} /\ current \in Nat
      /\ patterns \in Seq(Malformed \cup Terminals) /\ Len(patterns) \in Nat
      /\ patterns = registrations[current].patterns
  <2>1. Typed /\ current \in DOMAIN registrations /\ next \in Nat \ {0} /\ current \in Nat
    BY <1>3 DEF IInv, Typed
  <2> QED BY <1>1, <2>1, RegistrationShape DEF Registration
<1>5. CASE patterns = << >>
  <2>1. Fail("EmptyPatternSet", << >>)
    BY <1>1, <1>3, <1>5 DEF ValidatePattern
  <2>2. Fault("EmptyPatternSet", << >>)
    BY <1>4, <1>5 DEF Fault
  <2> QED BY <2>1, <2>2, FailBlames
<1>6. ASSUME ~(next > Len(patterns))
      PROVE  next \in DOMAIN patterns /\ pattern \in Declared /\ Declares(current, pattern)
  BY <1>2, <1>4, <1>6 DEF Declared, Declares, Elements
<1>7. ASSUME phase' \in {"patterns", "rules"}, phase' = "rules" => next' = 1,
             registrations' = registrations, config' = config, current' = current,
             entries' = entries, slots' = slots, Clean'
      PROVE  JInv'
  <2>1. Laid'
    BY <1>3, <1>4, <1>7, LaidStays DEF JInv
  <2>2. Apart' /\ Planted' /\ Faulted'
    BY <1>7 DEF Apart, Inserted, Planted, Faulted
  <2> QED BY <1>7, <2>1, <2>2 DEF JInv
<1>8. CASE patterns # << >> /\ next > Len(patterns)
  <2>1. /\ phase' = "rules" /\ next' = 1 /\ registrations' = registrations /\ config' = config
        /\ current' = current /\ entries' = entries /\ slots' = slots
    BY <1>1, <1>3, <1>8 DEF ValidatePattern, arguments
  <2>2. ASSUME NEW r \in DOMAIN registrations, NEW i \in DOMAIN registrations[r].patterns, Validated(r, i)'
        PROVE  Validated(r, i)
    BY <1>3, <1>4, <1>8, <2>1, <2>2 DEF Validated
  <2>3. ASSUME NEW r \in DOMAIN registrations, NEW k \in DOMAIN registrations[r].rules, Written(r, k)'
        PROVE  Written(r, k)
    <3>1. k \in Nat \ {0}
      BY <1>4, RegistrationShape
    <3> QED BY <2>1, <2>3, <3>1 DEF Written
  <2>4. Clean'
    BY <2>1, <2>2, <2>3, CleanStays DEF JInv
  <2> QED BY <1>7, <2>1, <2>4
<1>9. CASE patterns # << >> /\ ~(next > Len(patterns)) /\ Rejection(pattern) # {}
  <2>1. PICK kind : kind = CHOOSE k \in Rejection(pattern) : TRUE
    OBVIOUS
  <2>2. kind \in Rejection(pattern)
    BY <1>9, <2>1
  <2>3. kind \in {"Route", "NonCanonical", "NonCanonicalCase"}
    BY <2>2, Zenon DEF Rejection
  <2>4. Fail(kind, pattern)
    BY <1>1, <1>2, <1>3, <1>9, <2>1 DEF ValidatePattern
  <2>5. Fault(kind, pattern)
    BY <1>6, <1>9, <2>2, <2>3 DEF Fault
  <2> QED BY <2>4, <2>5, FailBlames
<1>10. CASE /\ patterns # << >> /\ ~(next > Len(patterns)) /\ Rejection(pattern) = {}
            /\ pattern \in DOMAIN fallbacks /\ fallbacks[pattern] # Registration.inherit
  <2>1. Fail("ConflictingFallback", pattern)
    BY <1>1, <1>2, <1>3, <1>10 DEF ValidatePattern
  <2>2. PICK r \in DOMAIN registrations :
          Declares(r, pattern) /\ fallbacks[pattern] = registrations[r].inherit
    BY <1>10 DEF IInv, Fixed
  <2>3. Disputed(pattern)
    BY <1>4, <1>6, <1>10, <2>2 DEF Disputed, Declares, Registration
  <2>4. Fault("ConflictingFallback", pattern)
    BY <1>6, <1>10, <2>3 DEF Fault
  <2> QED BY <2>1, <2>4, FailBlames
<1>11. CASE /\ patterns # << >> /\ ~(next > Len(patterns)) /\ Rejection(pattern) = {}
            /\ ~(pattern \in DOMAIN fallbacks /\ fallbacks[pattern] # Registration.inherit)
  <2>1. /\ phase' = phase /\ next' = next + 1 /\ registrations' = registrations /\ config' = config
        /\ current' = current /\ entries' = entries /\ slots' = slots
    BY <1>1, <1>2, <1>3, <1>11 DEF ValidatePattern, arguments
  <2>2. \A t : Rejection(t)' = Rejection(t)
    BY <2>1, SameFaults
  <2>3. ASSUME NEW r \in DOMAIN registrations, NEW i \in DOMAIN registrations[r].patterns, Validated(r, i)'
        PROVE  Rejection(registrations[r].patterns[i]) = {}
    <3>1. CASE Validated(r, i)
      BY <3>1 DEF JInv, Clean
    <3>2. CASE ~Validated(r, i)
      <4>1. i \in Nat
        BY <1>4, RegistrationShape
      <4>2. r = current /\ i = next
        BY <1>3, <1>4, <2>1, <2>3, <3>2, <4>1 DEF Validated
      <4> QED BY <1>2, <1>4, <1>11, <4>2
    <3> QED BY <3>1, <3>2
  <2>4. \A r, k : Written(r, k)' => Written(r, k)
    BY <1>3, <2>1 DEF Written
  <2>5. Clean'
    BY <2>1, <2>2, <2>3, <2>4 DEF JInv, Clean
  <2> QED BY <1>3, <1>7, <2>1, <2>5
<1> QED BY <1>1, <1>2, <1>5, <1>8, <1>9, <1>10, <1>11

LEMMA InHandDeclared ==
  ASSUME IInv, phase = "rules"
  PROVE  /\ 1 \in DOMAIN Registration.patterns /\ Registration.patterns[1] \in Declared
         /\ current \in DOMAIN registrations
<1>1. Registration.patterns # << >> /\ Registration.patterns \in Seq(Terminals) /\ current \in DOMAIN registrations
  BY InHand DEF IInv, Placed
<1>2. 1 \in DOMAIN Registration.patterns
  BY <1>1
<1>3. Registration.patterns[1] \in Declared
  BY <1>1, <1>2 DEF Declared, Elements, Registration
<1> QED BY <1>1, <1>2, <1>3

\* The entries of a rule, or of none, join those there are.
LEMMA LaidGrows ==
  ASSUME IInv, Laid, phase = "rules", NEW id \in 0..DENIED_RULE, NEW keys \in Seq(Keys),
         NEW k \in Nat, NEW c, c = current,
         registrations' = registrations, entries' = entries \o EntriesOf(id, keys),
         current' \in {c, c + 1},
         \/ k = 0 /\ keys = << >> /\ current' = c + 1 /\ Registration.rules = << >>
         \/ /\ k \in DOMAIN Registration.rules /\ keys = Registration.rules[k]
            /\ ~Written(c, k) /\ Written(c, k)',
         \A r \in DOMAIN registrations : \A j \in DOMAIN registrations[r].rules :
           /\ Written(r, j) => Written(r, j)'
           /\ Written(r, j)' => Written(r, j) \/ (r = c /\ j = k)
  PROVE  Laid'
<1>1. PICK old : LaidBy(old)
  BY DEF Laid
<1>2. PICK n : n = Len(entries)
  OBVIOUS
<1>3. PICK patterns : patterns = Registration.patterns
  OBVIOUS
<1>4. /\ \A e \in DOMAIN entries : e \in DOMAIN entries' /\ entries'[e] = entries[e]
      /\ \A i \in DOMAIN patterns : n + i \in DOMAIN entries' \ DOMAIN entries
      /\ \A e \in DOMAIN entries' \ DOMAIN entries :
           /\ e - n \in DOMAIN patterns
           /\ entries'[e] = Entry(patterns[e - n], id, keys)
  BY <1>2, <1>3, EntriesAdded
<1>5. /\ c \in DOMAIN registrations /\ c \in Nat /\ patterns \in Seq(Terminals)
      /\ patterns = registrations[c].patterns /\ n \in Nat
      /\ \A r \in DOMAIN registrations : r \in Nat
      /\ \A r \in DOMAIN registrations : \A j \in DOMAIN registrations[r].rules : j \in Nat \ {0}
      /\ \A i \in DOMAIN patterns : i \in Nat /\ (n + i) - n = i
      /\ \A e \in DOMAIN entries' : e \in Nat
  <2>1. c \in DOMAIN registrations /\ c \in Nat /\ patterns \in Seq(Terminals) /\ n \in Nat
    BY <1>2, <1>3, InHand DEF IInv, Typed
  <2>2. \A i \in DOMAIN patterns : i \in Nat /\ (n + i) - n = i
    BY <2>1
  <2>3. \A e \in DOMAIN entries' : e \in Nat
    <3>1. entries' \in Seq(EntryType)
      BY EntriesAdded
    <3> QED BY <3>1
  <2>4. ASSUME NEW r \in DOMAIN registrations
        PROVE  r \in Nat /\ \A j \in DOMAIN registrations[r].rules : j \in Nat \ {0}
    <3>1. PICK seq : seq = registrations[r].rules
      OBVIOUS
    <3>2. r \in Nat /\ seq \in Seq(Seq(Keys))
      BY <3>1, RegistrationShape DEF IInv
    <3>3. \A j \in DOMAIN seq : j \in Nat \ {0}
      BY <3>2
    <3> QED BY <3>1, <3>2, <3>3
  <2> QED BY <1>3, <2>1, <2>2, <2>3, <2>4 DEF Registration
<1>0. PICK new : new = [e \in DOMAIN entries' |-> IF e \in DOMAIN entries THEN old[e] ELSE <<c, k, e - n>>]
  OBVIOUS
<1>6. /\ \A e \in DOMAIN entries : new[e] = old[e]
      /\ \A e \in DOMAIN entries' \ DOMAIN entries : new[e] = <<c, k, e - n>>
  BY <1>4, <1>0
<1>7. ASSUME NEW e \in DOMAIN entries
      PROVE  \E r, j, i : /\ new[e] = <<r, j, i>> /\ Origin(e, r, j, i)' /\ <<r, j>> # <<c, k>>
  <2>1. PICK r, j, i : old[e] = <<r, j, i>> /\ Origin(e, r, j, i)
    BY <1>1 DEF LaidBy
  <2>2. Origin(e, r, j, i)'
    <3>1. r < current => r < current'
      BY <1>5, <2>1 DEF Origin
    <3> QED BY <1>4, <2>1, <3>1 DEF Origin
  <2>3. <<r, j>> # <<c, k>>
    <3> SUFFICES ASSUME r = c, j = k PROVE FALSE
      OBVIOUS
    <3>1. k = 0 => Registration.rules = << >>
      BY <1>5 DEF Registration
    <3>2. ~(c < c)
      BY <1>5
    <3> QED BY <1>5, <2>1, <3>1, <3>2 DEF Origin, Registration
  <2> QED BY <1>6, <2>1, <2>2, <2>3
<1>8. ASSUME NEW e \in DOMAIN entries', e \notin DOMAIN entries
      PROVE  new[e] = <<c, k, e - n>> /\ Origin(e, c, k, e - n)'
  <2>1. PICK i \in DOMAIN patterns : i = e - n /\ entries'[e] = Entry(patterns[i], id, keys)
    BY <1>4, <1>8
  <2>2. /\ entries'[e].terminal = registrations[c].patterns[i]
        /\ entries'[e].exclusive = registrations[c].exclusive
        /\ entries'[e].keys = keys
    BY <1>5, <2>1 DEF Entry, Registration
  <2>3. \/ k = 0 /\ c < current' /\ keys = << >>
        \/ k \in DOMAIN registrations[c].rules /\ Written(c, k)' /\ keys = registrations[c].rules[k]
    BY <1>5 DEF Registration
  <2>4. Origin(e, c, k, i)'
    BY <1>5, <2>1, <2>2, <2>3 DEF Origin
  <2> QED BY <1>6, <1>8, <2>1, <2>4
<1>9. ASSUME NEW d \in DOMAIN entries', NEW e \in DOMAIN entries', new[d] = new[e]
      PROVE  d = e
  <2>1. CASE d \in DOMAIN entries /\ e \in DOMAIN entries
    BY <1>1, <1>6, <1>9, <2>1 DEF LaidBy
  <2>2. CASE d \in DOMAIN entries /\ e \notin DOMAIN entries
    BY <1>7, <1>8, <1>9, <2>2
  <2>3. CASE d \notin DOMAIN entries /\ e \in DOMAIN entries
    BY <1>7, <1>8, <1>9, <2>3
  <2>4. CASE d \notin DOMAIN entries /\ e \notin DOMAIN entries
    <3>1. d - n = e - n
      BY <1>8, <1>9, <2>4
    <3> QED BY <1>5, <3>1
  <2> QED BY <2>1, <2>2, <2>3, <2>4
<1>10. ASSUME NEW r \in DOMAIN registrations, NEW j \in DOMAIN registrations[r].rules,
              NEW i \in DOMAIN registrations[r].patterns, Written(r, j)'
       PROVE  \E e \in DOMAIN entries' : new[e] = <<r, j, i>>
  <2>1. CASE Written(r, j)
    <3>1. PICK e \in DOMAIN entries : old[e] = <<r, j, i>>
      BY <1>1, <2>1 DEF LaidBy
    <3> QED BY <1>4, <1>6, <3>1
  <2>2. CASE ~Written(r, j)
    <3>1. r = c /\ j = k /\ i \in DOMAIN patterns
      BY <1>5, <1>10, <2>2
    <3>2. n + i \in DOMAIN entries' \ DOMAIN entries /\ (n + i) - n = i
      BY <1>4, <1>5, <3>1
    <3>3. new[n + i] = <<c, k, (n + i) - n>>
      BY <1>6, <3>2
    <3> QED BY <3>1, <3>2, <3>3
  <2> QED BY <2>1, <2>2
<1>11. LaidBy(new)'
  <2>1. \A e \in DOMAIN entries' : \E r, j, i : new[e] = <<r, j, i>> /\ Origin(e, r, j, i)'
    BY <1>7, <1>8
  <2>2. (\A r \in DOMAIN registrations :
           \A j \in DOMAIN registrations[r].rules, i \in DOMAIN registrations[r].patterns :
             Written(r, j) => \E e \in DOMAIN entries : new[e] = <<r, j, i>>)'
    BY <1>10
  <2> QED BY <1>9, <2>1, <2>2 DEF LaidBy
<1> QED BY <1>11 DEF Laid

LEMMA ClaimWithoutRulesBlames == IInv /\ JInv /\ ClaimWithoutRules => JInv'
<1> SUFFICES ASSUME IInv, JInv, ClaimWithoutRules PROVE JInv'
  OBVIOUS
<1>1. PICK c : c = current
  OBVIOUS
<1>2. /\ phase = "rules" /\ Registration.rules = << >>
      /\ entries' = entries \o EntriesOf(DENIED_RULE, << >>)
      /\ phase' = "patterns" /\ current' = c + 1 /\ next' = 1
      /\ registrations' = registrations /\ config' = config /\ slots' = slots
  BY <1>1 DEF ClaimWithoutRules, NextRegistration, arguments
<1>3. /\ c \in DOMAIN registrations /\ c \in Nat /\ registrations[c].rules = << >>
      /\ registrations[c].patterns # << >>
      /\ DENIED_RULE \in 0..DENIED_RULE /\ << >> \in Seq(Keys)
      /\ \A r \in DOMAIN registrations : r \in Nat
      /\ \A r \in DOMAIN registrations : \A i \in DOMAIN registrations[r].patterns : i \in Nat \ {0}
  <2>1. c \in DOMAIN registrations /\ c \in Nat /\ DENIED_RULE \in 0..DENIED_RULE
    BY <1>1, <1>2, InHand DEF IInv, Typed
  <2>2. << >> \in Seq(Keys)
    OBVIOUS
  <2>3. registrations[c].rules = << >> /\ registrations[c].patterns # << >>
    BY <1>1, <1>2 DEF IInv, Placed, Registration
  <2>4. ASSUME NEW r \in DOMAIN registrations
        PROVE  r \in Nat /\ \A i \in DOMAIN registrations[r].patterns : i \in Nat \ {0}
    <3>1. PICK seq : seq = registrations[r].patterns
      OBVIOUS
    <3>2. r \in Nat /\ seq \in Seq(Malformed \cup Terminals)
      BY <3>1, RegistrationShape DEF IInv
    <3>3. \A j \in DOMAIN seq : j \in Nat \ {0}
      BY <3>2
    <3> QED BY <3>1, <3>2, <3>3
  <2> QED BY <2>1, <2>2, <2>3, <2>4
<1>4. ASSUME NEW r \in DOMAIN registrations, NEW j \in DOMAIN registrations[r].rules
      PROVE  Written(r, j)' <=> Written(r, j)
  <2>1. r # c
    BY <1>3
  <2> QED BY <1>1, <1>2, <1>3, <2>1 DEF Written
<1>5. Laid'
  <2>1. PICK k \in Nat : k = 0
    OBVIOUS
  <2> QED BY <1>1, <1>2, <1>3, <1>4, <2>1, LaidGrows DEF JInv
<1>6. Clean'
  <2>1. \A t : Rejection(t)' = Rejection(t)
    BY <1>2, SameFaults
  <2>2. ASSUME NEW r \in DOMAIN registrations, NEW i \in DOMAIN registrations[r].patterns, Validated(r, i)'
        PROVE  Validated(r, i)
    BY <1>1, <1>2, <1>3, <2>2 DEF Validated
  <2>3. ASSUME NEW r \in DOMAIN registrations, r < current' PROVE registrations[r].patterns # << >>
    <3>1. r < current \/ r = c
      BY <1>1, <1>2, <1>3, <2>3
    <3> QED BY <1>3, <3>1 DEF JInv, Clean
  <2> QED BY <1>2, <1>4, <2>1, <2>2, <2>3 DEF JInv, Clean
<1>7. Apart' /\ Planted' /\ Faulted'
  BY <1>2 DEF Apart, Inserted, Planted, Faulted
<1> QED BY <1>5, <1>6, <1>7 DEF JInv

LEMMA NumberRuleBlames == IInv /\ JInv /\ NumberRule => JInv'
<1> SUFFICES ASSUME IInv, JInv, NumberRule PROVE JInv'
  OBVIOUS
<1>1. PICK c : c = current
  OBVIOUS
<1>2. PICK n : n = next
  OBVIOUS
<1>3. PICK keys : keys = Registration.rules[next]
  OBVIOUS
<1>4. phase = "rules" /\ Registration.rules # << >>
  BY DEF NumberRule
<1>5. /\ c \in DOMAIN registrations /\ c \in Nat /\ n \in Nat \ {0}
      /\ registrations[c].rules \in Seq(Seq(Keys)) /\ n <= Len(registrations[c].rules)
      /\ registrations[c].rules = Registration.rules /\ registrations[c].patterns # << >>
      /\ n \in DOMAIN registrations[c].rules /\ keys = registrations[c].rules[n] /\ keys \in Seq(Keys)
      /\ ruleCount \in 0..DENIED_RULE /\ DENIED_RULE \in Nat
  BY <1>1, <1>2, <1>3, <1>4, InHand, IdsAssumption DEF IInv, Typed, Placed, Registration
<1>6. \A r \in DOMAIN registrations :
        /\ r \in Nat
        /\ \A i \in DOMAIN registrations[r].patterns : i \in Nat \ {0}
        /\ \A j \in DOMAIN registrations[r].rules : j \in Nat \ {0}
  BY RegistrationShape DEF IInv
<1>7. CASE keys = << >>
  <2>1. Fail("EmptyMethodSet", Registration.patterns[1])
    BY <1>3, <1>4, <1>7 DEF NumberRule
  <2>2. Fault("EmptyMethodSet", Registration.patterns[1])
    BY <1>4, <1>5, <1>7, InHandDeclared DEF Fault
  <2> QED BY <2>1, <2>2, FailBlames
<1>8. CASE keys # << >> /\ ~IdsLeft
  <2>1. Fail("TooManyRegistrations", << >>)
    BY <1>3, <1>4, <1>8 DEF NumberRule
  <2>2. Cardinality(Before(current, next + 1)) = DENIED_RULE + 1
    BY <1>4, <1>5, <1>8, OneMore DEF IdsLeft
  <2>3. /\ Cardinality(Before(current, next + 1)) <= Cardinality(Definitions)
        /\ Cardinality(Definitions) \in Nat
    <3>1. IsFiniteSet(Definitions) /\ Before(current, next + 1) \subseteq Definitions
      BY DefinitionsFinite DEF IInv, Before
    <3> QED BY <3>1, FS_Subset, FS_CardinalityType
  <2>4. Fault("TooManyRegistrations", << >>)
    BY <1>5, <2>2, <2>3 DEF Fault
  <2> QED BY <2>1, <2>4, FailBlames
<1>9. CASE keys # << >> /\ IdsLeft
  <2>1. PICK id : id = ruleCount
    OBVIOUS
  <2>2. /\ entries' = entries \o EntriesOf(id, keys) /\ id \in 0..DENIED_RULE
        /\ registrations' = registrations /\ config' = config /\ slots' = slots
        /\ \/ /\ n = Len(registrations[c].rules) /\ phase' = "patterns" /\ current' = c + 1 /\ next' = 1
           \/ /\ n # Len(registrations[c].rules) /\ phase' = "rules" /\ current' = c /\ next' = n + 1
    BY <1>1, <1>2, <1>3, <1>4, <1>5, <1>9, <2>1 DEF NumberRule, NextRegistration, FreshId, arguments
  <2>3. ASSUME NEW r \in DOMAIN registrations, NEW j \in DOMAIN registrations[r].rules
        PROVE  Written(r, j)' <=> Written(r, j) \/ (r = c /\ j = n)
    <3>1. r = c => j <= Len(registrations[c].rules)
      BY <1>5
    <3>2. Written(r, j) <=> r < c \/ (r = c /\ j < n)
      BY <1>1, <1>2, <1>4 DEF Written
    <3>3. r \in Nat /\ j \in Nat /\ c \in Nat /\ n \in Nat
      BY <1>5, <1>6
    <3>4. CASE n = Len(registrations[c].rules)
      <4>1. Written(r, j)' <=> r < c + 1
        BY <2>2, <3>4 DEF Written
      <4> QED BY <3>1, <3>2, <3>3, <3>4, <4>1
    <3>5. CASE n # Len(registrations[c].rules)
      <4>1. Written(r, j)' <=> r < c \/ (r = c /\ j < n + 1)
        BY <2>2, <3>5 DEF Written
      <4> QED BY <3>2, <3>3, <4>1
    <3> QED BY <3>4, <3>5
  <2>4. Laid'
    <3>1. ~Written(c, n) /\ Written(c, n)'
      BY <1>1, <1>2, <1>5, <2>3 DEF Written
    <3>2. current' \in {c, c + 1} /\ n \in DOMAIN Registration.rules /\ keys = Registration.rules[n]
      BY <1>5, <2>2
    <3>3. \A r \in DOMAIN registrations : \A j \in DOMAIN registrations[r].rules :
            /\ Written(r, j) => Written(r, j)'
            /\ Written(r, j)' => Written(r, j) \/ (r = c /\ j = n)
      BY <2>3
    <3>4. Laid /\ registrations' = registrations /\ entries' = entries \o EntriesOf(id, keys)
          /\ id \in 0..DENIED_RULE /\ keys \in Seq(Keys)
      BY <1>5, <2>2 DEF JInv
    <3>5. \/ n = 0 /\ keys = << >> /\ current' = c + 1 /\ Registration.rules = << >>
          \/ /\ n \in DOMAIN Registration.rules /\ keys = Registration.rules[n]
             /\ ~Written(c, n) /\ Written(c, n)'
      BY <3>1, <3>2
    <3>6. c = current /\ phase = "rules" /\ current' \in {c, c + 1} /\ IInv /\ n \in Nat
      BY <1>1, <1>4, <1>5, <3>2
    <3> QED BY <3>3, <3>4, <3>5, <3>6, LaidGrows
  <2>5. Clean'
    <3>1. \A t : Rejection(t)' = Rejection(t)
      BY <2>2, SameFaults
    <3>2. ASSUME NEW r \in DOMAIN registrations, NEW i \in DOMAIN registrations[r].patterns, Validated(r, i)'
          PROVE  Validated(r, i)
      BY <1>1, <1>4, <1>5, <1>6, <2>2, <3>2 DEF Validated
    <3>3. ASSUME NEW r \in DOMAIN registrations, r < current' PROVE registrations[r].patterns # << >>
      <4>1. r < current \/ r = c
        BY <1>1, <1>5, <1>6, <2>2, <3>3
      <4> QED BY <1>5, <4>1 DEF JInv, Clean
    <3>4. ASSUME NEW r \in DOMAIN registrations, NEW j \in DOMAIN registrations[r].rules, Written(r, j)'
          PROVE  registrations[r].rules[j] # << >>
      BY <1>5, <1>9, <2>3, <3>4 DEF JInv, Clean
    <3> QED BY <2>2, <3>1, <3>2, <3>3, <3>4 DEF JInv, Clean
  <2>6. Apart' /\ Planted' /\ Faulted'
    BY <2>2 DEF Apart, Inserted, Planted, Faulted
  <2> QED BY <2>4, <2>5, <2>6 DEF JInv
<1> QED BY <1>7, <1>8, <1>9

\* A step that leaves the registrations in hand and the entries alone.
LEMMA EntriesStay ==
  ASSUME IInv, JInv, registrations' = registrations, config' = config, entries' = entries,
         current' = current, phase \in {"patterns", "insert", "exclusive"},
         phase' \in {"insert", "exclusive", "built"}
  PROVE  Laid' /\ Clean' /\ Faulted'
<1>1. Laid'
  BY LaidStays DEF IInv, JInv
<1>2. Clean'
  <2>1. \A r, k : Written(r, k)' => Written(r, k)
    BY DEF Written
  <2>2. \A r, i : Validated(r, i)' => Validated(r, i)
    BY DEF Validated
  <2> QED BY <2>1, <2>2, CleanStays DEF JInv
<1>3. Faulted'
  BY DEF Faulted
<1> QED BY <1>1, <1>2, <1>3

LEMMA StartTreeBlames == IInv /\ JInv /\ StartTree => JInv'
<1> SUFFICES ASSUME IInv, JInv, StartTree PROVE JInv'
  OBVIOUS
<1>1. /\ phase = "patterns" /\ phase' = "insert" /\ next' = 1
      /\ registrations' = registrations /\ config' = config /\ current' = current
      /\ entries' = entries /\ slots' = slots
  BY DEF StartTree, arguments
<1>2. Laid' /\ Clean' /\ Faulted'
  BY <1>1, EntriesStay
<1>3. (\A e \in DOMAIN entries : ~(e < 1)) /\ DOMAIN slots = {}
  BY <1>1 DEF IInv, Typed, Placed
<1>4. Apart' /\ Planted'
  BY <1>1, <1>3 DEF Apart, Inserted, Planted
<1> QED BY <1>2, <1>4 DEF JInv

LEMMA ApplyFallbacksBlames == IInv /\ JInv /\ ApplyFallbacks => JInv'
<1> SUFFICES ASSUME IInv, JInv, ApplyFallbacks PROVE JInv'
  OBVIOUS
<1>1. /\ phase = "insert" /\ next > Len(entries) /\ phase' = "exclusive"
      /\ registrations' = registrations /\ config' = config /\ current' = current
      /\ entries' = entries
  BY DEF ApplyFallbacks, arguments
<1>2. Laid' /\ Clean' /\ Faulted'
  BY <1>1, EntriesStay
<1>3. \A e \in DOMAIN entries : Inserted(e)
  <2>1. next \in Nat /\ \A e \in DOMAIN entries : e \in 1..Len(entries) /\ Len(entries) \in Nat
    BY DEF IInv, Typed
  <2> QED BY <1>1, <2>1 DEF Inserted
<1>4. Apart' /\ Planted'
  BY <1>1, <1>3 DEF JInv, Apart, Planted
<1> QED BY <1>2, <1>4 DEF JInv

LEMMA CompileBlames == IInv /\ JInv /\ Compile => JInv'
<1> SUFFICES ASSUME IInv, JInv, Compile PROVE JInv'
  OBVIOUS
<1>1. /\ phase = "exclusive" /\ phase' = "built"
      /\ registrations' = registrations /\ config' = config /\ current' = current
      /\ entries' = entries
  BY DEF Compile, arguments
<1>2. Laid' /\ Clean' /\ Faulted'
  BY <1>1, EntriesStay
<1>3. Apart' /\ Planted'
  BY <1>1 DEF JInv, Apart, Inserted, Planted
<1> QED BY <1>2, <1>3 DEF JInv

\* Two entries that offer a key at one terminal, or one that offers it twice, repeat it.
LEMMA EntriesRepeat ==
  ASSUME IInv, Laid, phase # "failed", NEW d \in DOMAIN entries, NEW e \in DOMAIN entries,
         entries[d].terminal = entries[e].terminal,
         NEW m \in DOMAIN entries[d].keys, NEW j \in DOMAIN entries[e].keys,
         entries[d].keys[m] = entries[e].keys[j], d # e \/ m # j
  PROVE  entries[e].terminal \in Declared /\ Repeated(entries[e].terminal)
<1>1. PICK origin : LaidBy(origin)
  BY DEF Laid
<1>2. PICK q, l, h : origin[d] = <<q, l, h>> /\ Origin(d, q, l, h)
  BY <1>1 DEF LaidBy
<1>3. PICK r, k, i : origin[e] = <<r, k, i>> /\ Origin(e, r, k, i)
  BY <1>1 DEF LaidBy
<1>4. <<q, h, l, m>> # <<r, i, k, j>>
  <2>1. d # e => origin[d] # origin[e]
    BY <1>1 DEF LaidBy
  <2> QED BY <1>2, <1>3, <2>1
<1>5. DOMAIN << >> = {}
  OBVIOUS
<1>6. /\ q \in DOMAIN registrations /\ h \in DOMAIN registrations[q].patterns
      /\ registrations[q].patterns[h] = entries[e].terminal
      /\ l \in DOMAIN registrations[q].rules /\ entries[d].keys = registrations[q].rules[l]
  BY <1>2, <1>5 DEF Origin
<1>7. /\ r \in DOMAIN registrations /\ i \in DOMAIN registrations[r].patterns
      /\ registrations[r].patterns[i] = entries[e].terminal
      /\ k \in DOMAIN registrations[r].rules /\ entries[e].keys = registrations[r].rules[k]
  BY <1>3, <1>5 DEF Origin
<1>8. Repeated(entries[e].terminal)
  BY <1>4, <1>6, <1>7 DEF Repeated
<1>9. entries[e].terminal \in Declared
  BY <1>7 DEF Declared, Elements
<1> QED BY <1>8, <1>9

LEMMA InsertEntryBlames == IInv /\ JInv /\ InsertEntry => JInv'
<1> SUFFICES ASSUME IInv, JInv, InsertEntry PROVE JInv'
  OBVIOUS
<1>1. PICK n : n = next
  OBVIOUS
<1>2. PICK e : e = entries[n]
  OBVIOUS
<1>3. PICK top : top = e.terminal
  OBVIOUS
<1>4. PICK old : old = SlotAt(top)
  OBVIOUS
<1>5. phase = "insert" /\ n \in DOMAIN entries /\ n \in Nat /\ e.keys \in Seq(Keys)
      /\ \A d \in DOMAIN entries : d \in Nat
  <2>1. phase = "insert" /\ next <= Len(entries) /\ next \in Nat \ {0} /\ entries \in Seq(EntryType)
    BY DEF InsertEntry, IInv, Typed
  <2>2. next \in DOMAIN entries /\ \A d \in DOMAIN entries : d \in Nat
    BY <2>1
  <2>3. entries[next] \in EntryType
    BY <2>1, <2>2
  <2> QED BY <1>1, <1>2, <2>1, <2>2, <2>3 DEF EntryType
<1>6. /\ top \in DOMAIN slots => old = slots[top]
      /\ top \notin DOMAIN slots => DOMAIN old.ids = {}
  <2>1. DOMAIN EmptySlot.ids = {}
    BY EmptySlotShape
  <2> QED BY <1>4, <2>1 DEF SlotAt
<1>7. CASE Repeats(old, e.keys)
  <2>1. Fail("Conflict", top)
    BY <1>1, <1>2, <1>3, <1>4, <1>5, <1>7 DEF InsertEntry, Blamed
  <2>2. PICK i \in DOMAIN e.keys :
          e.keys[i] \in DOMAIN old.ids \/ \E j \in 1..(i - 1) : e.keys[j] = e.keys[i]
    BY <1>7 DEF Repeats
  <2>3. top \in Declared /\ Repeated(top)
    <3>1. CASE e.keys[i] \in DOMAIN old.ids
      <4>1. top \in DOMAIN slots /\ e.keys[i] \in DOMAIN slots[top].ids
        BY <1>6, <3>1
      <4>2. PICK d \in DOMAIN entries :
              d < n /\ entries[d].terminal = top /\ e.keys[i] \in Elements(entries[d].keys)
        BY <1>1, <1>5, <4>1 DEF JInv, Planted
      <4>3. PICK m \in DOMAIN entries[d].keys : entries[d].keys[m] = e.keys[i]
        BY <4>2 DEF Elements
      <4>4. d # n
        BY <1>5, <4>2
      <4> QED BY <1>2, <1>3, <1>5, <4>2, <4>3, <4>4, EntriesRepeat DEF JInv
    <3>2. CASE \E j \in 1..(i - 1) : e.keys[j] = e.keys[i]
      <4>1. PICK j \in 1..(i - 1) : e.keys[j] = e.keys[i]
        BY <3>2
      <4>2. j \in DOMAIN e.keys /\ j # i
        BY <1>5
      <4> QED BY <1>2, <1>3, <1>5, <4>1, <4>2, EntriesRepeat DEF JInv
    <3> QED BY <2>2, <3>1, <3>2
  <2>4. Fault("Conflict", top)
    BY <2>3 DEF Fault
  <2> QED BY <2>1, <2>4, FailBlames
<1>8. CASE ~Repeats(old, e.keys)
  <2>1. /\ phase' = phase /\ next' = n + 1 /\ registrations' = registrations /\ config' = config
        /\ current' = current /\ entries' = entries
        /\ slots' = [t \in DOMAIN slots \cup {top} |->
                       IF t = top THEN WithKeys(SlotAt(t), e.keys, e.id) ELSE slots[t]]
    BY <1>1, <1>2, <1>3, <1>4, <1>5, <1>8 DEF InsertEntry, arguments
  <2>2. PICK new : new = WithKeys(old, e.keys, e.id)
    OBVIOUS
  <2>3. /\ DOMAIN slots' = DOMAIN slots \cup {top} /\ slots'[top] = new
        /\ \A t \in DOMAIN slots : t # top => slots'[t] = slots[t]
    BY <1>4, <2>1, <2>2
  <2>4. DOMAIN new.ids = DOMAIN old.ids \cup Elements(e.keys)
    <3>1. PICK count : count = ruleCount
      OBVIOUS
    <3>2. /\ count \in Nat /\ \A t \in DOMAIN slots : slots[t] \in SlotType(count)
          /\ e \in EntryType /\ DENIED_RULE \in Nat
      BY <1>2, <1>5, <3>1, IdsAssumption DEF IInv, Typed
    <3>3. e.keys = << >> \/ e.id \in 0..(count - 1)
      <4>1. e.keys = << >> \/ e.id < count
        BY <1>2, <1>5, <3>1 DEF IInv, Numbered
      <4>2. e.id \in Nat
        BY <3>2 DEF EntryType
      <4> QED BY <3>2, <4>1, <4>2
    <3>4. old \in SlotType(count)
      BY <1>4, <3>2, EmptySlotShape DEF SlotAt
    <3> QED BY <1>5, <2>2, <3>2, <3>3, <3>4, WithKeysShape
  <2>5. \A i \in DOMAIN e.keys : e.keys[i] \notin DOMAIN old.ids
    BY <1>8 DEF Repeats
  <2>6. Distinct(e.keys)
    <3> SUFFICES ASSUME NEW i \in DOMAIN e.keys, NEW j \in DOMAIN e.keys, e.keys[i] = e.keys[j], i # j
                 PROVE  FALSE
      BY DEF Distinct
    <3>1. j \in 1..(i - 1) \/ i \in 1..(j - 1)
      BY <1>5
    <3> QED BY <1>8, <3>1 DEF Repeats
  <2>7. ASSUME NEW d \in DOMAIN entries, d < n, entries[d].terminal = top
        PROVE  Elements(entries[d].keys) \cap Elements(e.keys) = {}
    <3>1. Inserted(d)
      BY <1>1, <1>5, <2>7 DEF Inserted
    <3>2. top \in DOMAIN slots /\ Elements(entries[d].keys) \subseteq DOMAIN slots[top].ids
      BY <2>7, <3>1 DEF IInv, Grown
    <3> QED BY <1>6, <2>5, <3>2 DEF Elements
  <2>8. \A d \in DOMAIN entries : Inserted(d)' => Inserted(d) \/ d = n
    BY <1>1, <1>5, <2>1 DEF Inserted
  <2>9. \A d \in DOMAIN entries : Inserted(d) => d < n
    BY <1>1, <1>5 DEF Inserted
  <2>10. Apart'
    <3>1. ASSUME NEW k \in DOMAIN entries, Inserted(k)'
          PROVE  /\ Distinct(entries[k].keys)
                 /\ \A d \in DOMAIN entries :
                      Inserted(d)' /\ d # k /\ entries[d].terminal = entries[k].terminal =>
                        Elements(entries[d].keys) \cap Elements(entries[k].keys) = {}
      <4>1. Distinct(entries[k].keys)
        BY <1>2, <2>6, <2>8, <3>1 DEF JInv, Apart
      <4>2. ASSUME NEW d \in DOMAIN entries, Inserted(d)', d # k, entries[d].terminal = entries[k].terminal
            PROVE  Elements(entries[d].keys) \cap Elements(entries[k].keys) = {}
        <5>1. CASE Inserted(d) /\ Inserted(k)
          BY <4>2, <5>1 DEF JInv, Apart
        <5>2. CASE Inserted(d) /\ k = n
          BY <1>2, <1>3, <2>7, <2>9, <4>2, <5>2
        <5>3. CASE d = n /\ Inserted(k)
          BY <1>2, <1>3, <2>7, <2>9, <4>2, <5>3
        <5> QED BY <2>8, <3>1, <4>2, <5>1, <5>2, <5>3
      <4> QED BY <4>1, <4>2
    <3> QED BY <2>1, <3>1 DEF Apart
  <2>11. Planted'
    <3>1. ASSUME NEW t \in DOMAIN slots', NEW key \in DOMAIN slots'[t].ids
          PROVE  \E d \in DOMAIN entries :
                   d < n + 1 /\ entries[d].terminal = t /\ key \in Elements(entries[d].keys)
      <4>1. CASE t \in DOMAIN slots /\ key \in DOMAIN slots[t].ids
        <5>1. PICK d \in DOMAIN entries :
                d < n /\ entries[d].terminal = t /\ key \in Elements(entries[d].keys)
          BY <1>1, <1>5, <4>1 DEF JInv, Planted
        <5>2. d < n + 1
          BY <1>5, <5>1
        <5> QED BY <5>1, <5>2
      <4>2. CASE ~(t \in DOMAIN slots /\ key \in DOMAIN slots[t].ids)
        <5>1. t = top /\ key \in Elements(e.keys)
          BY <1>6, <2>3, <2>4, <4>2
        <5>2. n < n + 1
          BY <1>5
        <5> QED BY <1>2, <1>3, <1>5, <5>1, <5>2
      <4> QED BY <4>1, <4>2
    <3>2. (\A t \in DOMAIN slots : \A key \in DOMAIN slots[t].ids : \E d \in DOMAIN entries :
             d < next /\ entries[d].terminal = t /\ key \in Elements(entries[d].keys))'
      BY <2>1, <3>1
    <3> QED BY <3>2 DEF Planted
  <2>12. Laid' /\ Clean' /\ Faulted'
    BY <1>5, <2>1, EntriesStay
  <2> QED BY <2>10, <2>11, <2>12 DEF JInv
<1> QED BY <1>7, <1>8

LEMMA ValidateExclusiveBlames == IInv /\ JInv /\ ValidateExclusive => JInv'
<1> SUFFICES ASSUME IInv, JInv, ValidateExclusive PROVE JInv'
  OBVIOUS
<1>1. PICK n : n = next
  OBVIOUS
<1>2. PICK e : e = entries[n]
  OBVIOUS
<1>3. PICK at : at = e.terminal
  OBVIOUS
<1>4. phase = "exclusive" /\ n \in DOMAIN entries
  <2>1. phase = "exclusive" /\ next <= Len(entries) /\ next \in Nat \ {0} /\ entries \in Seq(EntryType)
    BY DEF ValidateExclusive, IInv, Typed
  <2> QED BY <1>1, <2>1
<1> DEFINE overridden == \E k \in DOMAIN entries : OverridesTail(at.node, entries[k].terminal)
<1>5. CASE Opaque(e) /\ overridden
  <2>1. Fail("NestedUnderExclusive", at)
    BY <1>1, <1>2, <1>3, <1>5 DEF ValidateExclusive, Opaque
  <2>2. PICK origin : LaidBy(origin)
    BY <1>4 DEF JInv, Laid
  <2>3. \A d \in DOMAIN entries :
          /\ entries[d].terminal \in Declared \cap Terminals
          /\ Opaque(entries[d]) => entries[d].terminal \in Exclusive
    <3> SUFFICES ASSUME NEW d \in DOMAIN entries
                 PROVE  /\ entries[d].terminal \in Declared \cap Terminals
                        /\ Opaque(entries[d]) => entries[d].terminal \in Exclusive
      OBVIOUS
    <3>1. PICK r, k, i : Origin(d, r, k, i)
      BY <2>2 DEF LaidBy
    <3>2. /\ r \in DOMAIN registrations /\ entries[d].terminal \in Elements(registrations[r].patterns)
          /\ entries[d].exclusive = registrations[r].exclusive
      BY <3>1 DEF Origin, Elements
    <3>3. entries[d].terminal \in Declared
      BY <3>2 DEF Declared
    <3>4. entries[d] \in EntryType
      BY DEF IInv, Typed
    <3> QED BY <3>2, <3>3, <3>4 DEF EntryType, Opaque, Exclusive
  <2>4. Fault("NestedUnderExclusive", at)
    BY <1>2, <1>3, <1>4, <1>5, <2>3 DEF Fault
  <2> QED BY <2>1, <2>4, FailBlames
<1>6. CASE ~(Opaque(e) /\ overridden)
  <2>1. /\ phase' = phase /\ registrations' = registrations /\ config' = config
        /\ current' = current /\ entries' = entries
    BY <1>1, <1>2, <1>3, <1>6 DEF ValidateExclusive, Opaque, arguments
  <2>2. Laid' /\ Clean' /\ Faulted'
    BY <1>4, <2>1, EntriesStay
  <2>3. Apart' /\ Planted'
    BY <1>4, <2>1 DEF JInv, Apart, Inserted, Planted
  <2> QED BY <2>2, <2>3 DEF JInv
<1> QED BY <1>5, <1>6

LEMMA FreshBlames == Fresh => JInv
<1> SUFFICES ASSUME Fresh PROVE JInv
  OBVIOUS
<1>1. phase = "patterns" /\ current = 1 /\ next = 1 /\ entries = << >> /\ slots = << >>
  BY DEF Fresh
<1>2. \A r \in DOMAIN registrations :
        /\ ~(r < 1)
        /\ \A i \in DOMAIN registrations[r].patterns : ~Validated(r, i)
        /\ \A k \in DOMAIN registrations[r].rules : ~Written(r, k)
  <2> SUFFICES ASSUME NEW r \in DOMAIN registrations
               PROVE  /\ ~(r < 1)
                      /\ \A i \in DOMAIN registrations[r].patterns : ~Validated(r, i)
                      /\ \A k \in DOMAIN registrations[r].rules : ~Written(r, k)
    OBVIOUS
  <2>1. /\ r \in Nat \ {0}
        /\ \A i \in DOMAIN registrations[r].patterns : i \in Nat \ {0}
    BY FreshKeeps, RegistrationShape DEF IInv
  <2> QED BY <1>1, <2>1 DEF Validated, Written
<1>3. DOMAIN << >> = {}
  OBVIOUS
<1>4. Laid
  <2>1. LaidBy(<< >>)
    BY <1>1, <1>2, <1>3 DEF LaidBy
  <2> QED BY <2>1 DEF Laid
<1>5. Apart /\ Planted /\ Clean /\ Faulted
  BY <1>1, <1>2, <1>3 DEF Apart, Planted, Clean, Faulted
<1> QED BY <1>4, <1>5 DEF JInv

LEMMA InitBlames == Init => JInv
<1>1. Init => Fresh
  BY BuildsAssumption DEF Init, Fresh
<1> QED BY <1>1, FreshBlames

LEMMA StepBlames == IInv /\ JInv /\ [Next]_vars => JInv'
<1> SUFFICES ASSUME IInv, JInv, [Next]_vars PROVE JInv'
  OBVIOUS
<1>1. CASE ValidatePattern    BY <1>1, ValidatePatternBlames
<1>2. CASE ClaimWithoutRules  BY <1>2, ClaimWithoutRulesBlames
<1>3. CASE NumberRule         BY <1>3, NumberRuleBlames
<1>4. CASE StartTree          BY <1>4, StartTreeBlames
<1>5. CASE InsertEntry        BY <1>5, InsertEntryBlames
<1>6. CASE ApplyFallbacks     BY <1>6, ApplyFallbacksBlames
<1>7. CASE ValidateExclusive  BY <1>7, ValidateExclusiveBlames
<1>8. CASE Compile            BY <1>8, CompileBlames
<1>9. CASE UNCHANGED vars
  <2>1. /\ registrations' = registrations /\ config' = config /\ current' = current
        /\ next' = next /\ phase' = phase /\ entries' = entries /\ slots' = slots
        /\ failure' = failure
    BY <1>9 DEF vars, arguments
  <2>2. Laid'
    <3>1. \A r, k : Written(r, k)' <=> Written(r, k)
      BY <2>1 DEF Written
    <3>2. \A e, r, k, i : Origin(e, r, k, i)' <=> Origin(e, r, k, i)
      BY <2>1, <3>1 DEF Origin
    <3>3. \A origin : LaidBy(origin) => LaidBy(origin)'
      BY <2>1, <3>1, <3>2 DEF LaidBy
    <3> QED BY <2>1, <3>3 DEF JInv, Laid
  <2>3. Apart' /\ Planted'
    BY <2>1 DEF JInv, Apart, Inserted, Planted
  <2>4. Clean'
    BY <2>1, CleanStays DEF JInv, Validated, Written
  <2>5. Faulted'
    BY <2>1, SameFaults DEF JInv, Faulted
  <2> QED BY <2>2, <2>3, <2>4, <2>5 DEF JInv
<1> QED BY <1>1, <1>2, <1>3, <1>4, <1>5, <1>6, <1>7, <1>8, <1>9 DEF Next

LEMMA BlameInvariance == Spec => [](IInv /\ JInv)
<1>1. Init => IInv /\ JInv
  BY InitKeeps, InitBlames
<1>2. IInv /\ JInv /\ [Next]_vars => (IInv /\ JInv)'
  BY StepKeeps, StepBlames
<1> QED BY <1>1, <1>2, PTL DEF Spec

\* A build that is accepted has none of the faults a build is refused for.
LEMMA AcceptedIsAcceptable == IInv /\ JInv /\ Built => Acceptable
<1> SUFFICES ASSUME IInv, JInv, Built PROVE Acceptable
  OBVIOUS
<1>1. /\ phase = "built" /\ current > Len(registrations) /\ current \in Nat
      /\ ruleCount <= DENIED_RULE
  BY IdsAssumption DEF Built, IInv, Typed, Placed
<1>2. \A r \in DOMAIN registrations :
        /\ r < current
        /\ \A i \in DOMAIN registrations[r].patterns : Validated(r, i)
        /\ \A k \in DOMAIN registrations[r].rules : Written(r, k)
  <2>1. \A r \in DOMAIN registrations : r \in 1..Len(registrations) /\ Len(registrations) \in Nat
    BY RegistrationShape DEF IInv
  <2>2. \A r \in DOMAIN registrations : r < current
    BY <1>1, <2>1
  <2> QED BY <2>2 DEF Validated, Written
<1>3. ASSUME NEW r \in DOMAIN registrations
      PROVE  /\ registrations[r].patterns # << >>
             /\ \A k \in DOMAIN registrations[r].rules : registrations[r].rules[k] # << >>
  BY <1>2 DEF JInv, Clean
<1>4. Cardinality(Definitions) <= DENIED_RULE
  <2>1. ruleCount = Cardinality(Before(current, 1))
    BY <1>1 DEF IInv, Numbered
  <2>2. Before(current, 1) = Definitions
    BY <1>2 DEF Before, Definitions
  <2> QED BY <1>1, <2>1, <2>2
<1>5. ASSUME NEW r \in DOMAIN registrations, NEW t, Declares(r, t)
      PROVE  /\ Rejection(t) = {} /\ t \in DOMAIN fallbacks /\ fallbacks[t] = registrations[r].inherit
             /\ \E e \in DOMAIN entries : /\ entries[e].terminal = t
                                          /\ entries[e].exclusive = registrations[r].exclusive
  <2>1. PICK i \in DOMAIN registrations[r].patterns : t = registrations[r].patterns[i]
    BY <1>5 DEF Declares, Elements
  <2>2. Validated(r, i) /\ r < current
    BY <1>2
  <2> QED BY <2>1, <2>2 DEF IInv, JInv, Clean, Fixed, Covered, Entered
<1>6. ASSUME NEW t \in Declared PROVE \E r \in DOMAIN registrations : Declares(r, t)
  BY DEF Declared, Declares
<1>7. ASSUME NEW t \in Declared PROVE Rejection(t) = {}
  BY <1>5, <1>6
<1>8. ASSUME NEW t \in Declared PROVE ~Disputed(t)
  BY <1>5 DEF Disputed, Declares
<1>9. ASSUME NEW t \in Declared, Repeated(t) PROVE FALSE
  <2>1. PICK origin : LaidBy(origin)
    BY <1>1 DEF JInv, Laid
  <2>2. PICK q \in DOMAIN registrations, r \in DOMAIN registrations :
        \E h \in DOMAIN registrations[q].patterns, i \in DOMAIN registrations[r].patterns :
          \E l \in DOMAIN registrations[q].rules, k \in DOMAIN registrations[r].rules :
            \E m \in DOMAIN registrations[q].rules[l], j \in DOMAIN registrations[r].rules[k] :
              /\ <<q, h, l, m>> # <<r, i, k, j>>
              /\ registrations[q].patterns[h] = t /\ registrations[r].patterns[i] = t
              /\ registrations[q].rules[l][m] = registrations[r].rules[k][j]
    BY <1>9 DEF Repeated
  <2>3. PICK h \in DOMAIN registrations[q].patterns, i \in DOMAIN registrations[r].patterns,
             l \in DOMAIN registrations[q].rules, k \in DOMAIN registrations[r].rules :
          \E m \in DOMAIN registrations[q].rules[l], j \in DOMAIN registrations[r].rules[k] :
            /\ <<q, h, l, m>> # <<r, i, k, j>>
            /\ registrations[q].patterns[h] = t /\ registrations[r].patterns[i] = t
            /\ registrations[q].rules[l][m] = registrations[r].rules[k][j]
    BY <2>2
  <2>4. PICK m \in DOMAIN registrations[q].rules[l], j \in DOMAIN registrations[r].rules[k] :
          /\ <<q, h, l, m>> # <<r, i, k, j>>
          /\ registrations[q].patterns[h] = t /\ registrations[r].patterns[i] = t
          /\ registrations[q].rules[l][m] = registrations[r].rules[k][j]
    BY <2>3
  <2>5. ASSUME NEW o \in DOMAIN registrations, NEW u \in DOMAIN registrations[o].rules,
               NEW v \in DOMAIN registrations[o].patterns
        PROVE  \E e \in DOMAIN entries : /\ origin[e] = <<o, u, v>>
                                         /\ entries[e].terminal = registrations[o].patterns[v]
                                         /\ entries[e].keys = registrations[o].rules[u]
    <3>1. PICK e \in DOMAIN entries : origin[e] = <<o, u, v>>
      BY <1>2, <2>1 DEF LaidBy
    <3>2. PICK x, y, z : origin[e] = <<x, y, z>> /\ Origin(e, x, y, z)
      BY <2>1 DEF LaidBy
    <3>3. x = o /\ y = u /\ z = v
      BY <3>1, <3>2
    <3>4. u # 0
      BY RegistrationShape DEF IInv
    <3> QED BY <3>1, <3>2, <3>3, <3>4 DEF Origin
  <2>6. PICK d \in DOMAIN entries : /\ origin[d] = <<q, l, h>> /\ entries[d].terminal = t
                                    /\ entries[d].keys = registrations[q].rules[l]
    <3>1. registrations[q].patterns[h] = t
      BY <2>4
    <3>2. \E x \in DOMAIN entries : /\ origin[x] = <<q, l, h>>
                                   /\ entries[x].terminal = registrations[q].patterns[h]
                                   /\ entries[x].keys = registrations[q].rules[l]
      BY <2>5
    <3> QED BY <3>1, <3>2
  <2>7. PICK e \in DOMAIN entries : /\ origin[e] = <<r, k, i>> /\ entries[e].terminal = t
                                    /\ entries[e].keys = registrations[r].rules[k]
    <3>1. registrations[r].patterns[i] = t
      BY <2>4
    <3>2. \E x \in DOMAIN entries : /\ origin[x] = <<r, k, i>>
                                   /\ entries[x].terminal = registrations[r].patterns[i]
                                   /\ entries[x].keys = registrations[r].rules[k]
      BY <2>5
    <3> QED BY <3>1, <3>2
  <2>8. Inserted(d) /\ Inserted(e)
    BY <1>1 DEF Inserted
  <2>9. CASE d = e
    <3>1. q = r /\ l = k /\ h = i
      BY <2>6, <2>7, <2>9
    <3>2. Distinct(entries[e].keys)
      BY <2>8 DEF JInv, Apart
    <3>3. m # j
      BY <2>4, <3>1
    <3> QED BY <2>4, <2>7, <3>1, <3>2, <3>3 DEF Distinct
  <2>10. CASE d # e
    <3>1. Elements(entries[d].keys) \cap Elements(entries[e].keys) = {}
      BY <2>6, <2>7, <2>8, <2>10 DEF JInv, Apart
    <3>2. PICK key : key = registrations[q].rules[l][m]
      OBVIOUS
    <3>3. key \in Elements(entries[d].keys) /\ key \in Elements(entries[e].keys)
      BY <2>4, <2>6, <2>7, <3>2 DEF Elements
    <3> QED BY <3>1, <3>3
  <2> QED BY <2>9, <2>10
<1>10. ASSUME NEW x \in Exclusive, NEW t \in Declared, NEW p \in Requests,
              Claims(x, p), Claims(t, p), Precedes(t.node, x.node)
       PROVE  FALSE
  <2>1. PICK r \in DOMAIN registrations : Declares(r, x) /\ registrations[r].exclusive
    BY DEF Exclusive, Declares
  <2>2. x.slot = "catchall"
    BY DEF Exclusive
  <2>3. PICK d \in DOMAIN entries : entries[d].terminal = x /\ entries[d].exclusive
    BY <1>5, <2>1
  <2>4. PICK e \in DOMAIN entries : entries[e].terminal = t
    BY <1>5, <1>6
  <2>5. x \in Terminals /\ t \in Terminals
    BY <1>5, <1>6, <2>1 DEF IInv, Fixed
  <2>6. OverridesTail(x.node, t)
    <3>1. p \in Paths
      BY RequestsAssumption
    <3> QED BY <1>10, <2>2, <2>5, <3>1, IntrudersOverride
  <2>7. Undisturbed(d)
    BY <1>1 DEF IInv, Checked
  <2> QED BY <2>2, <2>3, <2>4, <2>6, <2>7 DEF Undisturbed, Opaque
<1> QED BY <1>3, <1>4, <1>7, <1>8, <1>9, <1>10 DEF Acceptable, Invaded

\* A build that is refused has the fault it is refused for; an override found by the check
\* is one on some path.
LEMMA RefusedIsNotAcceptable ==
  ASSUME IInv, JInv, phase = "failed", Requests = Paths, Segments # {}
  PROVE  /\ ~Acceptable
         /\ failure.kind = "NestedUnderExclusive" => Invaded(failure.at)
<1>1. PICK kind, at : kind = failure.kind /\ at = failure.at /\ Fault(kind, at)
  BY DEF JInv, Faulted
<1>2. CASE kind = "NestedUnderExclusive"
  <2>1. at \in Exclusive \cap Terminals /\ \E t \in Declared \cap Terminals : OverridesTail(at.node, t)
    BY <1>1, <1>2 DEF Fault
  <2>2. at.slot = "catchall"
    BY <2>1 DEF Exclusive
  <2>3. PICK t \in Declared \cap Terminals : OverridesTail(at.node, t)
    BY <2>1
  <2>4. PICK p \in Paths : Claims(at, p) /\ Claims(t, p) /\ Precedes(t.node, at.node)
    BY <2>1, <2>2, <2>3, OverridesIntrude
  <2>5. Invaded(at)
    BY <2>3, <2>4 DEF Invaded
  <2> QED BY <1>1, <2>1, <2>5 DEF Acceptable
<1>3. CASE kind = "EmptyPatternSet" \/ kind = "EmptyMethodSet"
  BY <1>1, <1>3 DEF Fault, Acceptable
<1>4. CASE kind \in {"Route", "NonCanonical", "NonCanonicalCase", "ConflictingFallback", "Conflict"}
  <2>1. at \in Declared /\ (Rejection(at) # {} \/ Disputed(at) \/ Repeated(at))
    BY <1>1, <1>4 DEF Fault
  <2> QED BY <1>1, <1>4, <2>1 DEF Acceptable
<1>5. CASE kind = "TooManyRegistrations"
  <2>1. Cardinality(Definitions) > DENIED_RULE
    BY <1>1, <1>5 DEF Fault
  <2>2. Cardinality(Definitions) \in Nat /\ DENIED_RULE \in Nat
    BY DefinitionsFinite, FS_CardinalityType, IdsAssumption DEF IInv
  <2> QED BY <1>1, <1>5, <2>1, <2>2 DEF Acceptable
<1> QED BY <1>1, <1>2, <1>3, <1>4, <1>5 DEF Fault

\* Whatever is built makes sense: no pattern is malformed or non-canonical, no terminal is
\* given two fallbacks or a key twice, the ids suffice, and nothing wins a path in the tail
\* of an exclusive catch-all (from_registrations, build_with_fallbacks, validate_opaque).
THEOREM OnlyTheAcceptableIsBuilt == Spec => [](Built => Acceptable)
BY BlameInvariance, AcceptedIsAcceptable, PTL

\* Looking at every path there is, a build is refused only for registrations that make no
\* sense together, and accepted only if they do.
THEOREM AcceptableIsBuilt ==
  ASSUME Requests = Paths, Segments # {}
  PROVE  Spec => []BuildsExactly
<1>1. IInv /\ JInv => BuildsExactly
  BY AcceptedIsAcceptable, RefusedIsNotAcceptable DEF BuildsExactly
<1> QED BY BlameInvariance, <1>1, PTL

\* Looking at every path there is, the pattern an error names has the fault it reports
\* (map_build_err and the errors of the build's loops).
THEOREM OffenderAlwaysBlamed ==
  ASSUME Requests = Paths, Segments # {}
  PROVE  Spec => []BlamesOffender
<1>1. IInv /\ JInv => BlamesOffender
  <2> SUFFICES ASSUME IInv, JInv, phase = "failed" PROVE BlamesOffender
    BY DEF BlamesOffender
  <2>1. PICK kind, at : kind = failure.kind /\ at = failure.at
    OBVIOUS
  <2>2. Fault(kind, at) /\ (kind = "NestedUnderExclusive" => Invaded(at))
    BY <2>1, RefusedIsNotAcceptable DEF JInv, Faulted
  <2>3. CASE kind = "Conflict"              BY <2>1, <2>2, <2>3 DEF Fault, BlamesOffender
  <2>4. CASE kind = "ConflictingFallback"   BY <2>1, <2>2, <2>4 DEF Fault, BlamesOffender
  <2>5. CASE kind = "NestedUnderExclusive"  BY <2>1, <2>2, <2>5 DEF Fault, BlamesOffender
  <2>6. CASE kind \in {"Route", "NonCanonical", "NonCanonicalCase"}
    BY <2>1, <2>2, <2>6 DEF Fault, BlamesOffender
  <2>7. CASE kind \in {"EmptyPatternSet", "EmptyMethodSet", "TooManyRegistrations"}
    BY <2>1, <2>2, <2>7 DEF Fault, BlamesOffender
  <2> QED BY <2>2, <2>3, <2>4, <2>5, <2>6, <2>7 DEF Fault
<1> QED BY BlameInvariance, <1>1, PTL
-----------------------------------------------------------------------------
(***************************************************************************)
(* What the calls on a draft say, and what the draft then holds.           *)
(***************************************************************************)
PatternCalls == {"patterns", "subtree", "exclusive_subtree", "with_path", "with_subtree"}
CallType == [call : PatternCalls \cup {"define", "fallback_inherit"},
             arg : Seq(Malformed \cup Terminals) \cup Seq(Keys) \cup BOOLEAN]

Naming(calls, names) == {k \in DOMAIN calls : calls[k].call \in names}
Gathers(calls) == UNION {Elements(calls[k].arg) : k \in Naming(calls, PatternCalls)}
Latest(S) == CHOOSE k \in S : \A j \in S : j <= k
Settles(calls) ==
  LET said == Naming(calls, {"fallback_inherit"}) IN said # {} /\ calls[Latest(said)].arg

\* The rules are those of the defining calls, which stand at these places.
Places(at, rules, calls) ==
  /\ at \in Seq(Nat) /\ Len(at) = Len(rules)
  /\ \A m, n \in DOMAIN at : m < n => at[m] < at[n]
  /\ \A m \in DOMAIN at : at[m] \in Naming(calls, {"define"}) /\ rules[m] = calls[at[m]].arg
  /\ \A k \in Naming(calls, {"define"}) : \E m \in DOMAIN at : k = at[m]

Tells(calls, draft) ==
  /\ Elements(draft.patterns) = Gathers(calls)
  /\ draft.inherit = Settles(calls)
  /\ draft.exclusive = (calls[1].call = "exclusive_subtree")
  /\ \E at : Places(at, draft.rules, calls)

\* Drafts are what their calls say.
Drafted ==
  /\ drafts \in Seq(PathRegistration) /\ log \in Seq(Seq(CallType)) /\ Len(log) = Len(drafts)
  /\ \A d \in DOMAIN drafts : log[d] # << >> /\ Tells(log[d], drafts[d])

\* The registrations are the drafts handed over, each once.
HandedOver ==
  /\ registrations \in Seq(PathRegistration) /\ handed \in Seq(Nat)
  /\ Len(registrations) = Len(handed)
  /\ \A i \in DOMAIN handed : handed[i] \in DOMAIN drafts /\ registrations[i] = drafts[handed[i]]
  /\ \A i, j \in DOMAIN handed : handed[i] = handed[j] => i = j

\* The inductive invariant of the builder: until it builds, Registration has not begun.
BInv == Drafted /\ HandedOver /\ (~building => Fresh) /\ (building => IInv /\ JInv)

LEMMA NamingGrows ==
  ASSUME NEW calls \in Seq(CallType), NEW c \in CallType, NEW names
  PROVE  /\ Naming(Append(calls, c), names) =
              Naming(calls, names) \cup (IF c.call \in names THEN {Len(calls) + 1} ELSE {})
         /\ Len(calls) \in Nat /\ DOMAIN calls = 1..Len(calls)
         /\ Append(calls, c)[Len(calls) + 1] = c
         /\ \A k \in DOMAIN calls : Append(calls, c)[k] = calls[k]
         /\ \A k \in Naming(calls, names) : k \in 1..Len(calls)
<1>1. /\ Append(calls, c) \in Seq(CallType) /\ Len(Append(calls, c)) = Len(calls) + 1
      /\ Len(calls) \in Nat /\ DOMAIN calls = 1..Len(calls)
      /\ DOMAIN Append(calls, c) = 1..(Len(calls) + 1)
      /\ Append(calls, c)[Len(calls) + 1] = c
      /\ \A k \in 1..Len(calls) : Append(calls, c)[k] = calls[k]
  OBVIOUS
<1>2. \A k \in 1..(Len(calls) + 1) : k \in 1..Len(calls) \/ k = Len(calls) + 1
  BY <1>1
<1>3. \A k \in 1..Len(calls) : k \in 1..(Len(calls) + 1)
  BY <1>1
<1>4. Len(calls) + 1 \in 1..(Len(calls) + 1)
  BY <1>1
<1>5. \A k : k \in Naming(Append(calls, c), names) <=>
              k \in 1..(Len(calls) + 1) /\ Append(calls, c)[k].call \in names
  BY <1>1 DEF Naming
<1>6. \A k : k \in Naming(calls, names) <=> k \in 1..Len(calls) /\ calls[k].call \in names
  BY <1>1 DEF Naming
<1>7. Naming(Append(calls, c), names) = Naming(calls, names) \cup (IF c.call \in names THEN {Len(calls) + 1} ELSE {})
  BY <1>1, <1>2, <1>3, <1>4, <1>5, <1>6
<1> QED BY <1>1, <1>6, <1>7

\* One call more.
LEMMA GathersGrows ==
  ASSUME NEW calls \in Seq(CallType), NEW c \in CallType
  PROVE  Gathers(Append(calls, c)) =
           Gathers(calls) \cup (IF c.call \in PatternCalls THEN Elements(c.arg) ELSE {})
<1> DEFINE all == Append(calls, c)
<1>1. \A k \in Naming(calls, PatternCalls) : k \in Naming(all, PatternCalls) /\ all[k].arg = calls[k].arg
  BY NamingGrows
<1>2. \A k \in Naming(all, PatternCalls) :
        k \in Naming(calls, PatternCalls) \/ (c.call \in PatternCalls /\ k = Len(calls) + 1)
  BY NamingGrows
<1>3. c.call \in PatternCalls => Len(calls) + 1 \in Naming(all, PatternCalls)
  BY NamingGrows
<1>4. all[Len(calls) + 1] = c
  BY NamingGrows
<1>5. \A x : x \in Gathers(all) <=> \E k \in Naming(all, PatternCalls) : x \in Elements(all[k].arg)
  BY DEF Gathers
<1>6. \A x : x \in Gathers(calls) <=> \E k \in Naming(calls, PatternCalls) : x \in Elements(calls[k].arg)
  BY DEF Gathers
<1> HIDE DEF all
<1>7. \A x : x \in Gathers(all) <=> x \in Gathers(calls) \/ (c.call \in PatternCalls /\ x \in Elements(c.arg))
  <2>1. ASSUME NEW x, x \in Gathers(all)
        PROVE  x \in Gathers(calls) \/ (c.call \in PatternCalls /\ x \in Elements(c.arg))
    BY <1>1, <1>2, <1>4, <1>5, <1>6, <2>1
  <2>2. ASSUME NEW x, x \in Gathers(calls) \/ (c.call \in PatternCalls /\ x \in Elements(c.arg))
        PROVE  x \in Gathers(all)
    BY <1>1, <1>3, <1>4, <1>5, <1>6, <2>2
  <2> QED BY <2>1, <2>2
<1>8. Gathers(all) = Gathers(calls) \cup (IF c.call \in PatternCalls THEN Elements(c.arg) ELSE {})
  BY <1>7
<1> QED BY <1>8 DEF all

LEMMA SettlesGrows ==
  ASSUME NEW calls \in Seq(CallType), NEW c \in CallType
  PROVE  /\ c.call = "fallback_inherit" /\ c.arg \in BOOLEAN => Settles(Append(calls, c)) = c.arg
         /\ c.call # "fallback_inherit" => Settles(Append(calls, c)) = Settles(calls)
<1> DEFINE said == Naming(calls, {"fallback_inherit"})
           all == Append(calls, c)
           said2 == Naming(all, {"fallback_inherit"})
<1>1. /\ said2 = said \cup (IF c.call = "fallback_inherit" THEN {Len(calls) + 1} ELSE {})
      /\ Len(calls) \in Nat /\ all[Len(calls) + 1] = c /\ \A k \in DOMAIN calls : all[k] = calls[k]
      /\ \A k \in said : k \in 1..Len(calls) /\ k \in DOMAIN calls
  BY NamingGrows DEF Naming
<1>2. CASE c.call = "fallback_inherit"
  <2>1. Len(calls) + 1 \in said2 /\ \A k \in said2 : k <= Len(calls) + 1 /\ k \in Nat
    BY <1>1, <1>2
  <2>2. Latest(said2) = Len(calls) + 1
    <3>1. PICK top : top = Latest(said2)
      OBVIOUS
    <3>2. top \in said2 /\ \A k \in said2 : k <= top
      <4> HIDE DEF said2
      <4> QED BY <2>1, <3>1 DEF Latest
    <3>3. top \in Nat /\ top <= Len(calls) + 1 /\ Len(calls) + 1 <= top
      BY <2>1, <3>2
    <3> QED BY <1>1, <3>1, <3>3
  <2>3. ASSUME c.arg \in BOOLEAN PROVE Settles(all) = c.arg
    <3>1. Settles(all) = (said2 # {} /\ all[Latest(said2)].arg)
      BY DEF Settles
    <3>2. all[Latest(said2)].arg = c.arg
      BY <1>1, <2>2
    <3> HIDE DEF said2, all
    <3>3. said2 # {}
      BY <2>1
    <3> QED BY <2>3, <3>1, <3>2, <3>3
  <2> QED BY <1>2, <2>3
<1>3. CASE c.call # "fallback_inherit"
  <2>1. said2 = said
    BY <1>1, <1>3
  <2>2. /\ Settles(all) = (said2 # {} /\ all[Latest(said2)].arg)
        /\ Settles(calls) = (said # {} /\ calls[Latest(said)].arg)
    BY DEF Settles
  <2>3. said # {} => all[Latest(said)] = calls[Latest(said)]
    <3> SUFFICES ASSUME said # {} PROVE all[Latest(said)] = calls[Latest(said)]
      OBVIOUS
    <3>1. said \subseteq 1..Len(calls)
      BY <1>1
    <3> HIDE DEF said
    <3>2. PICK k \in said : \A j \in said : j <= k
      BY <1>1, <3>1, GreatestNatural
    <3>3. Latest(said) \in said
      BY <3>2 DEF Latest
    <3> QED BY <1>1, <3>3
  <2>4. Settles(all) = Settles(calls)
    <3> HIDE DEF said, said2, all
    <3>1. CASE said = {}
      BY <2>1, <2>2, <3>1
    <3>2. CASE said # {}
      BY <2>1, <2>2, <2>3, <3>2
    <3> QED BY <3>1, <3>2
  <2> QED BY <1>3, <2>4
<1> QED BY <1>2, <1>3
LEMMA PlacesGrows ==
  ASSUME NEW calls \in Seq(CallType), NEW c \in CallType, NEW at, NEW rules \in Seq(Seq(Keys)),
         Places(at, rules, calls)
  PROVE  /\ c.call # "define" => Places(at, rules, Append(calls, c))
         /\ c.call = "define" /\ c.arg \in Seq(Keys) =>
              Places(Append(at, Len(calls) + 1), Append(rules, c.arg), Append(calls, c))
<1> DEFINE all == Append(calls, c)
           was == Naming(calls, {"define"})
           is  == Naming(all, {"define"})
<1>1. /\ is = was \cup (IF c.call = "define" THEN {Len(calls) + 1} ELSE {})
      /\ Len(calls) \in Nat /\ all[Len(calls) + 1] = c
      /\ \A k \in was : all[k] = calls[k] /\ k \in 1..Len(calls)
  BY NamingGrows DEF Naming
<1>2. /\ at \in Seq(Nat) /\ Len(at) = Len(rules)
      /\ \A m, n \in DOMAIN at : m < n => at[m] < at[n]
      /\ \A m \in DOMAIN at : at[m] \in was /\ rules[m] = calls[at[m]].arg
      /\ \A k \in was : \E m \in DOMAIN at : k = at[m]
  BY DEF Places
<1> HIDE DEF was, is, all
<1>3. ASSUME c.call # "define" PROVE Places(at, rules, all)
  <2>1. is = was
    BY <1>1, <1>3
  <2>2. \A m \in DOMAIN at : at[m] \in is /\ rules[m] = all[at[m]].arg
    BY <1>1, <1>2, <2>1
  <2> QED BY <1>2, <2>1, <2>2 DEF Places, is
<1>4. ASSUME c.call = "define", c.arg \in Seq(Keys)
      PROVE  Places(Append(at, Len(calls) + 1), Append(rules, c.arg), all)
  <2>1. PICK len \in Nat : len = Len(calls)
    BY <1>1
  <2>2. PICK n \in Nat : n = Len(at)
    BY <1>2
  <2>3. PICK places : places = Append(at, len + 1)
    OBVIOUS
  <2>4. PICK ruled : ruled = Append(rules, c.arg)
    OBVIOUS
  <2>5. /\ places \in Seq(Nat) /\ Len(places) = n + 1 /\ DOMAIN places = 1..(n + 1)
        /\ DOMAIN at = 1..n /\ places[n + 1] = len + 1 /\ \A m \in 1..n : places[m] = at[m]
    BY <1>2, <2>1, <2>2, <2>3
  <2>6. Len(ruled) = n + 1 /\ ruled[n + 1] = c.arg /\ \A m \in 1..n : ruled[m] = rules[m]
    BY <1>2, <1>4, <2>2, <2>4
  <2>7. is = was \cup {len + 1}
    BY <1>1, <1>4, <2>1
  <2>8. \A m \in 1..(n + 1) : m \in 1..n \/ m = n + 1
    OBVIOUS
  <2>9. \A m \in 1..n : at[m] \in Nat /\ at[m] <= len
    <3>1. \A m \in 1..n : at[m] \in was
      BY <1>2, <2>5
    <3>2. \A k \in was : k \in 1..len
      BY <1>1, <2>1
    <3>3. \A k \in 1..len : k \in Nat /\ k <= len
      BY <2>1
    <3> QED BY <3>1, <3>2, <3>3
  <2>10. \A k, m \in DOMAIN places : k < m => places[k] < places[m]
    <3> SUFFICES ASSUME NEW k \in 1..(n + 1), NEW m \in 1..(n + 1), k < m PROVE places[k] < places[m]
      BY <2>5
    <3>1. k \in 1..n
      OBVIOUS
    <3>2. places[k] = at[k] /\ at[k] \in Nat /\ at[k] <= len
      BY <2>5, <2>9, <3>1
    <3>3. CASE m = n + 1
      BY <2>5, <3>2, <3>3
    <3>4. CASE m \in 1..n
      BY <1>2, <2>5, <3>1, <3>2, <3>4
    <3> QED BY <2>8, <3>3, <3>4
  <2>11. \A m \in DOMAIN places : places[m] \in is /\ ruled[m] = all[places[m]].arg
    BY <1>1, <1>2, <2>1, <2>5, <2>6, <2>7, <2>8
  <2>12. \A k \in is : \E m \in DOMAIN places : k = places[m]
    <3>1. n + 1 \in DOMAIN places /\ \A m \in DOMAIN at : m \in DOMAIN places
      BY <2>5
    <3> QED BY <1>2, <2>5, <2>7, <3>1
  <2>13. Len(places) = Len(ruled)
    BY <2>5, <2>6
  <2>14. Places(places, ruled, all)
    BY <2>5, <2>10, <2>11, <2>12, <2>13 DEF Places, is
  <2> QED BY <2>1, <2>3, <2>4, <2>14
<1> QED BY <1>3, <1>4 DEF all

\* A call on a draft says what it does to the draft.
LEMMA CallTells ==
  ASSUME NEW calls \in Seq(CallType), calls # << >>, NEW c \in CallType,
         NEW was \in PathRegistration, NEW is \in PathRegistration, Tells(calls, was),
         is.exclusive = was.exclusive,
         \/ /\ c.call \in PatternCalls /\ Elements(is.patterns) = Elements(was.patterns) \cup Elements(c.arg)
            /\ is.rules = was.rules /\ is.inherit = was.inherit
         \/ /\ c.call = "define" /\ c.arg \in Seq(Keys) /\ is.rules = Append(was.rules, c.arg)
            /\ is.patterns = was.patterns /\ is.inherit = was.inherit
         \/ /\ c.call = "fallback_inherit" /\ c.arg \in BOOLEAN /\ is.inherit = c.arg
            /\ is.patterns = was.patterns /\ is.rules = was.rules
  PROVE  Append(calls, c) # << >> /\ Tells(Append(calls, c), is)
<1>1. /\ Elements(was.patterns) = Gathers(calls) /\ was.inherit = Settles(calls)
      /\ was.exclusive = (calls[1].call = "exclusive_subtree")
  BY DEF Tells
<1>2. PICK at : Places(at, was.rules, calls)
  BY DEF Tells
<1>3. was.rules \in Seq(Seq(Keys)) /\ was.inherit \in BOOLEAN
  BY DEF PathRegistration, Keys
<1>4. "define" \notin PatternCalls /\ "fallback_inherit" \notin PatternCalls
  BY DEF PatternCalls
<1>5. Append(calls, c)[1] = calls[1] /\ Append(calls, c) # << >>
  OBVIOUS
<1>6. CASE c.call \in PatternCalls
  <2>0. c.call # "define" /\ c.call # "fallback_inherit"
    BY <1>4, <1>6
  <2>1. /\ Elements(is.patterns) = Elements(was.patterns) \cup Elements(c.arg)
        /\ is.rules = was.rules /\ is.inherit = was.inherit
    BY <2>0
  <2>2. Elements(is.patterns) = Gathers(Append(calls, c))
    BY <1>1, <1>6, <2>1, GathersGrows
  <2>3. is.inherit = Settles(Append(calls, c))
    BY <1>1, <2>0, <2>1, SettlesGrows
  <2>4. Places(at, is.rules, Append(calls, c))
    BY <1>2, <1>3, <2>0, <2>1, PlacesGrows
  <2> QED BY <1>1, <1>5, <2>2, <2>3, <2>4 DEF Tells
<1>7. CASE c.call = "define"
  <2>0. c.call # "fallback_inherit" /\ c.call \notin PatternCalls
    BY <1>4, <1>7
  <2>1. /\ c.arg \in Seq(Keys) /\ is.rules = Append(was.rules, c.arg)
        /\ is.patterns = was.patterns /\ is.inherit = was.inherit
    BY <2>0
  <2>2. Elements(is.patterns) = Gathers(Append(calls, c))
    BY <1>1, <2>0, <2>1, GathersGrows
  <2>3. is.inherit = Settles(Append(calls, c))
    BY <1>1, <2>0, <2>1, SettlesGrows
  <2>4. Places(Append(at, Len(calls) + 1), is.rules, Append(calls, c))
    BY <1>2, <1>3, <1>7, <2>1, PlacesGrows
  <2> QED BY <1>1, <1>5, <2>2, <2>3, <2>4 DEF Tells
<1>8. CASE c.call = "fallback_inherit"
  <2>0. c.call # "define" /\ c.call \notin PatternCalls
    BY <1>4, <1>8
  <2>1. /\ c.arg \in BOOLEAN /\ is.inherit = c.arg
        /\ is.patterns = was.patterns /\ is.rules = was.rules
    BY <2>0
  <2>2. Elements(is.patterns) = Gathers(Append(calls, c))
    BY <1>1, <2>0, <2>1, GathersGrows
  <2>3. is.inherit = Settles(Append(calls, c))
    BY <1>8, <2>1, SettlesGrows
  <2>4. Places(at, is.rules, Append(calls, c))
    BY <1>2, <1>3, <2>0, <2>1, PlacesGrows
  <2> QED BY <1>1, <1>5, <2>2, <2>3, <2>4 DEF Tells
<1> QED BY <1>6, <1>7, <1>8

LEMMA FirstCallTells ==
  ASSUME NEW c \in CallType, c.call \in PatternCalls, NEW draft \in PathRegistration,
         draft.patterns = c.arg, draft.rules = << >>, draft.inherit = FALSE,
         draft.exclusive = (c.call = "exclusive_subtree")
  PROVE  <<c>> \in Seq(CallType) /\ <<c>> # << >> /\ Tells(<<c>>, draft)
<1>1. PICK calls : calls = <<c>>
  OBVIOUS
<1>2. calls \in Seq(CallType) /\ DOMAIN calls = {1} /\ calls[1] = c /\ calls # << >>
  BY <1>1
<1>3. c.call # "define" /\ c.call # "fallback_inherit"
  BY DEF PatternCalls
<1>4. /\ Naming(calls, PatternCalls) = {1} /\ Naming(calls, {"define"}) = {}
      /\ Naming(calls, {"fallback_inherit"}) = {}
  BY <1>2, <1>3 DEF Naming
<1>5. Gathers(calls) = Elements(draft.patterns)
  BY <1>2, <1>4 DEF Gathers
<1>6. draft.inherit = Settles(calls)
  <2>1. Settles(calls) = (Naming(calls, {"fallback_inherit"}) # {}
                            /\ calls[Latest(Naming(calls, {"fallback_inherit"}))].arg)
    BY DEF Settles
  <2>2. ~(Naming(calls, {"fallback_inherit"}) # {})
    BY <1>4
  <2> QED BY <2>1, <2>2
<1>7. Places(<< >>, draft.rules, calls)
  BY <1>4 DEF Places
<1> QED BY <1>1, <1>2, <1>5, <1>6, <1>7 DEF Tells

LEMMA SubtreeListed ==
  ASSUME NEW path \in Subtrees \cup Added
  PROVE  /\ SubtreeOf(path) \in Seq(Malformed \cup Terminals) /\ <<path>> \in Seq(Malformed \cup Terminals)
         /\ path \in Terminals
<1>1. path \in Terminals
  BY WrittenAssumption
<1>2. [path EXCEPT !.slot = "leaf_slash"] \in Terminals /\ [path EXCEPT !.slot = "catchall"] \in Terminals
  BY <1>1 DEF Terminals, Slots
<1> DEFINE All3 == Malformed \cup Terminals
<1>3. PICK slash \in All3 : slash = [path EXCEPT !.slot = "leaf_slash"]
  BY <1>2
<1>4. PICK tail \in All3 : tail = [path EXCEPT !.slot = "catchall"]
  BY <1>2
<1>5. <<path, tail>> \in Seq(All3) /\ <<path, slash, tail>> \in Seq(All3) /\ <<path>> \in Seq(All3)
  BY <1>1
<1>6. SubtreeOf(path) \in {<<path, tail>>, <<path, slash, tail>>}
  BY <1>3, <1>4 DEF SubtreeOf
<1> QED BY <1>1, <1>5, <1>6

LEMMA ElementsTogether ==
  ASSUME NEW S, NEW p \in Seq(S), NEW q \in Seq(S)
  PROVE  Elements(p \o q) = Elements(p) \cup Elements(q)
<1>1. PICK m \in Nat : m = Len(p)
  OBVIOUS
<1>2. PICK n \in Nat : n = Len(q)
  OBVIOUS
<1>3. PICK both : both = p \o q
  OBVIOUS
<1>4. /\ DOMAIN p = 1..m /\ DOMAIN q = 1..n /\ DOMAIN both = 1..(m + n)
      /\ \A i \in 1..m : both[i] = p[i] /\ i \in 1..(m + n)
      /\ \A i \in 1..n : both[m + i] = q[i] /\ m + i \in 1..(m + n)
  BY <1>1, <1>2, <1>3
<1>5. \A i \in 1..(m + n) : i \in 1..m \/ \E j \in 1..n : i = m + j
  <2> SUFFICES ASSUME NEW i \in 1..(m + n), i \notin 1..m PROVE \E j \in 1..n : i = m + j
    OBVIOUS
  <2>1. i - m \in 1..n /\ i = m + (i - m)
    OBVIOUS
  <2> QED BY <2>1
<1>6. \A x : x \in Elements(both) <=> x \in Elements(p) \/ x \in Elements(q)
  <2>1. ASSUME NEW x, x \in Elements(both) PROVE x \in Elements(p) \/ x \in Elements(q)
    <3>1. PICK i \in 1..(m + n) : x = both[i]
      BY <1>4, <2>1 DEF Elements
    <3>2. CASE i \in 1..m
      BY <1>4, <3>1, <3>2 DEF Elements
    <3>3. CASE \E j \in 1..n : i = m + j
      BY <1>4, <3>1, <3>3 DEF Elements
    <3> QED BY <1>5, <3>2, <3>3
  <2>2. ASSUME NEW x, x \in Elements(p) PROVE x \in Elements(both)
    BY <1>4, <2>2 DEF Elements
  <2>3. ASSUME NEW x, x \in Elements(q) PROVE x \in Elements(both)
    BY <1>4, <2>3 DEF Elements
  <2> QED BY <2>1, <2>2, <2>3
<1> QED BY <1>3, <1>6

\* Drafts written: one more, or one of them rewritten.
LEMMA NewDraftKeeps ==
  ASSUME Drafted, HandedOver, NEW name \in {"patterns", "subtree", "exclusive_subtree"},
         NEW patterns \in Seq(Malformed \cup Terminals), NEW exclusive \in BOOLEAN,
         exclusive = (name = "exclusive_subtree"), NewDraft(name, patterns, exclusive)
  PROVE  Drafted' /\ HandedOver'
<1> DEFINE draft == [patterns |-> patterns, rules |-> << >>, exclusive |-> exclusive, inherit |-> FALSE]
           call  == [call |-> name, arg |-> patterns]
<1>1. /\ drafts \in Seq(PathRegistration) /\ log \in Seq(Seq(CallType)) /\ Len(log) = Len(drafts)
      /\ \A d \in DOMAIN drafts : log[d] # << >> /\ Tells(log[d], drafts[d])
  BY DEF Drafted
<1>2. /\ drafts' = Append(drafts, draft) /\ log' = Append(log, <<call>>)
      /\ registrations' = registrations /\ handed' = handed
  BY DEF NewDraft
<1>3. draft \in PathRegistration /\ call \in CallType
  <2>1. << >> \in Seq(Seq(Methods \cup {All}))
    OBVIOUS
  <2>2. draft \in PathRegistration
    BY <2>1 DEF PathRegistration
  <2>3. name \in PatternCalls
    BY DEF PatternCalls
  <2>4. call \in CallType
    BY <2>3 DEF CallType
  <2> QED BY <2>2, <2>4
<1>4. call.call \in PatternCalls /\ draft.patterns = call.arg /\ draft.rules = << >>
      /\ draft.inherit = FALSE /\ draft.exclusive = (call.call = "exclusive_subtree")
  BY DEF PatternCalls
<1> HIDE DEF draft, call
<1>5. <<call>> \in Seq(CallType) /\ <<call>> # << >> /\ Tells(<<call>>, draft)
  BY <1>3, <1>4, FirstCallTells
<1>6. PICK n \in Nat : n = Len(drafts)
  BY <1>1
<1>7. /\ drafts' \in Seq(PathRegistration) /\ log' \in Seq(Seq(CallType)) /\ Len(log') = Len(drafts')
      /\ DOMAIN drafts' = 1..(n + 1) /\ DOMAIN drafts = 1..n
      /\ drafts'[n + 1] = draft /\ log'[n + 1] = <<call>>
      /\ \A d \in 1..n : drafts'[d] = drafts[d] /\ log'[d] = log[d]
  BY <1>1, <1>2, <1>3, <1>5, <1>6
<1>8. \A d \in 1..(n + 1) : d \in 1..n \/ d = n + 1
  OBVIOUS
<1>9. \A d \in DOMAIN drafts' : log'[d] # << >> /\ Tells(log'[d], drafts'[d])
  BY <1>1, <1>5, <1>7, <1>8
<1>10. Drafted'
  BY <1>7, <1>9 DEF Drafted
<1>11. \A d \in DOMAIN drafts : d \in DOMAIN drafts' /\ drafts'[d] = drafts[d]
  BY <1>7
<1> QED BY <1>2, <1>10, <1>11 DEF HandedOver

LEMMA RewriteKeeps ==
  ASSUME Drafted, HandedOver, NEW d \in DOMAIN drafts, NEW name, NEW arg, NEW draft \in PathRegistration,
         [call |-> name, arg |-> arg] \in CallType, Rewrite(d, name, arg, draft),
         draft.exclusive = drafts[d].exclusive,
         \/ /\ name \in PatternCalls /\ Elements(draft.patterns) = Elements(drafts[d].patterns) \cup Elements(arg)
            /\ draft.rules = drafts[d].rules /\ draft.inherit = drafts[d].inherit
         \/ /\ name = "define" /\ arg \in Seq(Keys) /\ draft.rules = Append(drafts[d].rules, arg)
            /\ draft.patterns = drafts[d].patterns /\ draft.inherit = drafts[d].inherit
         \/ /\ name = "fallback_inherit" /\ arg \in BOOLEAN /\ draft.inherit = arg
            /\ draft.patterns = drafts[d].patterns /\ draft.rules = drafts[d].rules
  PROVE  Drafted' /\ HandedOver'
<1>1. /\ drafts \in Seq(PathRegistration) /\ log \in Seq(Seq(CallType)) /\ Len(log) = Len(drafts)
      /\ \A e \in DOMAIN drafts : log[e] # << >> /\ Tells(log[e], drafts[e])
  BY DEF Drafted
<1>2. PICK c \in CallType : c = [call |-> name, arg |-> arg]
  OBVIOUS
<1>3. c.call = name /\ c.arg = arg
  BY <1>2
<1>4. PICK calls \in Seq(CallType) : calls = log[d]
  BY <1>1
<1>5. PICK was \in PathRegistration : was = drafts[d]
  BY <1>1
<1>6. calls # << >> /\ Tells(calls, was)
  BY <1>1, <1>4, <1>5
<1>7. Append(calls, c) # << >> /\ Tells(Append(calls, c), draft)
  BY <1>3, <1>5, <1>6, CallTells
<1>8. /\ drafts' = [drafts EXCEPT ![d] = draft] /\ log' = [log EXCEPT ![d] = Append(calls, c)]
      /\ registrations' = registrations /\ handed' = handed /\ d \notin Range(handed)
  BY <1>2, <1>4 DEF Rewrite
<1>9. Append(calls, c) \in Seq(CallType)
  OBVIOUS
<1>10. /\ drafts' \in Seq(PathRegistration) /\ log' \in Seq(Seq(CallType)) /\ Len(log') = Len(drafts')
       /\ DOMAIN drafts' = DOMAIN drafts
       /\ drafts'[d] = draft /\ log'[d] = Append(calls, c)
       /\ \A e \in DOMAIN drafts : e # d => drafts'[e] = drafts[e] /\ log'[e] = log[e]
  BY <1>1, <1>8, <1>9
<1>11. \A e \in DOMAIN drafts' : log'[e] # << >> /\ Tells(log'[e], drafts'[e])
  BY <1>1, <1>7, <1>10
<1>12. Drafted'
  BY <1>10, <1>11 DEF Drafted
<1>13. \A i \in DOMAIN handed : handed[i] # d
  BY <1>8 DEF Range
<1> QED BY <1>8, <1>10, <1>12, <1>13 DEF HandedOver

LEMMA RegisterKeeps ==
  ASSUME Drafted, HandedOver, NEW d \in DOMAIN drafts, Register(d)
  PROVE  Drafted' /\ HandedOver'
<1>1. /\ drafts' = drafts /\ log' = log /\ registrations' = Append(registrations, drafts[d])
      /\ handed' = Append(handed, d) /\ d \notin Range(handed)
  BY DEF Register
<1>2. drafts[d] \in PathRegistration /\ d \in Nat
  BY DEF Drafted
<1>3. /\ registrations \in Seq(PathRegistration) /\ handed \in Seq(Nat)
      /\ Len(registrations) = Len(handed)
      /\ \A i \in DOMAIN handed : handed[i] \in DOMAIN drafts /\ registrations[i] = drafts[handed[i]]
      /\ \A i, j \in DOMAIN handed : handed[i] = handed[j] => i = j
  BY DEF HandedOver
<1>4. PICK n \in Nat : n = Len(handed)
  BY <1>3
<1>5. /\ registrations' \in Seq(PathRegistration) /\ handed' \in Seq(Nat)
      /\ Len(registrations') = Len(handed')
      /\ DOMAIN handed' = 1..(n + 1) /\ DOMAIN handed = 1..n
      /\ handed'[n + 1] = d /\ registrations'[n + 1] = drafts[d]
      /\ \A i \in 1..n : handed'[i] = handed[i] /\ registrations'[i] = registrations[i]
  BY <1>1, <1>2, <1>3, <1>4
<1>6. \A i \in 1..(n + 1) : i \in 1..n \/ i = n + 1
  OBVIOUS
<1>7. \A i \in 1..n : handed[i] # d
  BY <1>1, <1>5 DEF Range
<1>8. \A i \in DOMAIN handed' : handed'[i] \in DOMAIN drafts /\ registrations'[i] = drafts[handed'[i]]
  BY <1>3, <1>5, <1>6
<1>9. \A i, j \in DOMAIN handed' : handed'[i] = handed'[j] => i = j
  BY <1>3, <1>5, <1>6, <1>7
<1>10. HandedOver'
  BY <1>1, <1>5, <1>8, <1>9 DEF HandedOver
<1>11. Drafted'
  BY <1>1 DEF Drafted
<1> QED BY <1>10, <1>11

\* The calls themselves.
LEMMA CallKeeps ==
  ASSUME Drafted, HandedOver, NEW d \in DOMAIN drafts,
         \/ \E path \in Added : WithPath(d, path) \/ WithSubtree(d, path)
         \/ \E keys \in KeyLists : Define(d, keys)
         \/ FallbackInherit(d, ~drafts[d].inherit)
  PROVE  Drafted' /\ HandedOver'
<1>0. PICK was : was = drafts[d]
  OBVIOUS
<1>1. /\ was \in PathRegistration /\ was.patterns \in Seq(Malformed \cup Terminals)
      /\ was.rules \in Seq(Seq(Keys)) /\ was.exclusive \in BOOLEAN /\ was.inherit \in BOOLEAN
      /\ was = [patterns |-> was.patterns, rules |-> was.rules,
                exclusive |-> was.exclusive, inherit |-> was.inherit]
  <2>1. was \in PathRegistration
    BY <1>0 DEF Drafted
  <2> QED BY <2>1 DEF PathRegistration, Keys
<1>2. ASSUME NEW path \in Added, NEW more \in Seq(Malformed \cup Terminals),
             NEW name \in {"with_path", "with_subtree"},
             Rewrite(d, name, more, [drafts[d] EXCEPT !.patterns = @ \o more])
      PROVE  Drafted' /\ HandedOver'
  <2>1. PICK is : is = [drafts[d] EXCEPT !.patterns = @ \o more]
    OBVIOUS
  <2>2. PICK both : both = was.patterns \o more
    OBVIOUS
  <2>3. both \in Seq(Malformed \cup Terminals) /\ Elements(both) = Elements(was.patterns) \cup Elements(more)
    BY <1>1, <2>2, ElementsTogether
  <2>4. is = [patterns |-> both, rules |-> was.rules, exclusive |-> was.exclusive, inherit |-> was.inherit]
    BY <1>0, <1>1, <2>1, <2>2
  <2>5. /\ is \in PathRegistration /\ is.patterns = both /\ is.rules = was.rules
        /\ is.exclusive = was.exclusive /\ is.inherit = was.inherit
    BY <1>1, <2>3, <2>4 DEF PathRegistration, Keys
  <2>6. name \in PatternCalls
    BY DEF PatternCalls
  <2>7. [call |-> name, arg |-> more] \in CallType
    BY <2>6 DEF CallType
  <2>8. Rewrite(d, name, more, is)
    BY <1>2, <2>1
  <2> QED BY <1>0, <2>3, <2>5, <2>6, <2>7, <2>8, RewriteKeeps
<1>3. ASSUME NEW path \in Added, WithPath(d, path) PROVE Drafted' /\ HandedOver'
  <2>1. <<path>> \in Seq(Malformed \cup Terminals) /\ path \in Terminals
    BY SubtreeListed
  <2>2. Append(was.patterns, path) = was.patterns \o <<path>>
    BY <1>1, <2>1
  <2>3. [drafts[d] EXCEPT !.patterns = Append(@, path)] = [drafts[d] EXCEPT !.patterns = @ \o <<path>>]
    BY <1>0, <1>1, <2>2
  <2>4. Rewrite(d, "with_path", <<path>>, [drafts[d] EXCEPT !.patterns = @ \o <<path>>])
    BY <1>3, <2>3 DEF WithPath
  <2> QED BY <1>2, <2>1, <2>4
<1>4. ASSUME NEW path \in Added, WithSubtree(d, path) PROVE Drafted' /\ HandedOver'
  <2>1. SubtreeOf(path) \in Seq(Malformed \cup Terminals)
    BY SubtreeListed
  <2>2. Rewrite(d, "with_subtree", SubtreeOf(path), [drafts[d] EXCEPT !.patterns = @ \o SubtreeOf(path)])
    BY <1>4 DEF WithSubtree
  <2> QED BY <1>2, <2>1, <2>2
<1>5. ASSUME NEW keys \in KeyLists, Define(d, keys) PROVE Drafted' /\ HandedOver'
  <2>1. PICK is : is = [drafts[d] EXCEPT !.rules = Append(@, keys)]
    OBVIOUS
  <2>2. keys \in Seq(Keys)
    BY WrittenAssumption DEF Keys
  <2>3. PICK ruled : ruled = Append(was.rules, keys)
    OBVIOUS
  <2>4. ruled \in Seq(Seq(Keys))
    BY <1>1, <2>2, <2>3
  <2>5. is = [patterns |-> was.patterns, rules |-> ruled, exclusive |-> was.exclusive, inherit |-> was.inherit]
    BY <1>0, <1>1, <2>1, <2>3
  <2>6. /\ is \in PathRegistration /\ is.patterns = was.patterns /\ is.rules = ruled
        /\ is.exclusive = was.exclusive /\ is.inherit = was.inherit
    BY <1>1, <2>4, <2>5 DEF PathRegistration, Keys
  <2>7. [call |-> "define", arg |-> keys] \in CallType
    BY <2>2 DEF CallType
  <2>8. Rewrite(d, "define", keys, is)
    BY <1>5, <2>1 DEF Define
  <2> QED BY <1>0, <2>2, <2>3, <2>6, <2>7, <2>8, RewriteKeeps
<1>6. ASSUME FallbackInherit(d, ~drafts[d].inherit) PROVE Drafted' /\ HandedOver'
  <2>1. PICK inherit \in BOOLEAN : inherit = ~drafts[d].inherit
    OBVIOUS
  <2>2. PICK is : is = [drafts[d] EXCEPT !.inherit = inherit]
    OBVIOUS
  <2>3. is = [patterns |-> was.patterns, rules |-> was.rules, exclusive |-> was.exclusive, inherit |-> inherit]
    BY <1>0, <1>1, <2>2
  <2>4. /\ is \in PathRegistration /\ is.patterns = was.patterns /\ is.rules = was.rules
        /\ is.exclusive = was.exclusive /\ is.inherit = inherit
    BY <1>1, <2>3 DEF PathRegistration, Keys
  <2>5. [call |-> "fallback_inherit", arg |-> inherit] \in CallType
    BY DEF CallType
  <2>6. Rewrite(d, "fallback_inherit", inherit, is)
    BY <1>6, <2>1, <2>2 DEF FallbackInherit
  <2> QED BY <1>0, <2>4, <2>5, <2>6, RewriteKeeps
<1> QED BY <1>3, <1>4, <1>5, <1>6

LEMMA BInitKeeps == BInit => BInv
<1> SUFFICES ASSUME BInit PROVE BInv
  OBVIOUS
<1>1. Fresh
  BY DEF BInit, Init, Fresh
<1>2. ~building
  BY DEF BInit
<1>3. Drafted /\ HandedOver
  BY DEF BInit, Drafted, HandedOver
<1> QED BY <1>1, <1>2, <1>3 DEF BInv

LEMMA BStepKeeps == BInv /\ [BNext]_allvars => BInv'
<1> SUFFICES ASSUME BInv, [BNext]_allvars PROVE BInv'
  OBVIOUS
<1>1. Drafted /\ HandedOver /\ (~building => Fresh) /\ (building => IInv /\ JInv)
  BY DEF BInv
<1>2. ASSUME ~building, building' = building, UNCHANGED buildVars, Drafted', HandedOver'
      PROVE  BInv'
  <2>1. Fresh'
    BY <1>1, <1>2 DEF Fresh, buildVars, HandedOver
  <2> QED BY <1>2, <2>1 DEF BInv
<1>3. ASSUME NEW list \in Lists, Patterns(list) PROVE BInv'
  <2>1. list \in Seq(Malformed \cup Terminals)
    BY WrittenAssumption
  <2>2. Drafted' /\ HandedOver'
    BY <1>1, <1>3, <2>1, NewDraftKeeps DEF Patterns
  <2> QED BY <1>2, <1>3, <2>2 DEF Patterns, NewDraft
<1>4. ASSUME NEW path \in Subtrees, Subtree(path) \/ ExclusiveSubtree(path) PROVE BInv'
  <2>1. SubtreeOf(path) \in Seq(Malformed \cup Terminals)
    BY SubtreeListed
  <2>2. Drafted' /\ HandedOver'
    BY <1>1, <1>4, <2>1, NewDraftKeeps DEF Subtree, ExclusiveSubtree
  <2> QED BY <1>2, <1>4, <2>2 DEF Subtree, ExclusiveSubtree, NewDraft
<1>5. ASSUME NEW d \in DOMAIN drafts,
             \/ \E path \in Added : WithPath(d, path) \/ WithSubtree(d, path)
             \/ \E keys \in KeyLists : Define(d, keys)
             \/ FallbackInherit(d, ~drafts[d].inherit)
      PROVE  BInv'
  <2>1. Drafted' /\ HandedOver'
    BY <1>1, <1>5, CallKeeps
  <2>2. ~building /\ building' = building /\ UNCHANGED buildVars
    BY <1>5 DEF WithPath, WithSubtree, Define, FallbackInherit, Rewrite
  <2> QED BY <1>2, <2>1, <2>2
<1>6. ASSUME NEW d \in DOMAIN drafts, Register(d) PROVE BInv'
  <2>1. Drafted' /\ HandedOver'
    BY <1>1, <1>6, RegisterKeeps
  <2> QED BY <1>2, <1>6, <2>1 DEF Register
<1>7. ASSUME registrations' = registrations, drafts' = drafts, handed' = handed, log' = log
      PROVE  Drafted' /\ HandedOver'
  BY <1>1, <1>7 DEF Drafted, HandedOver
<1>8. CASE Build
  <2>1. IInv /\ JInv
    BY <1>1, <1>8, FreshKeeps, FreshBlames DEF Build
  <2>2. UNCHANGED vars
    BY <1>8 DEF Build, buildVars, vars
  <2>3. IInv' /\ JInv'
    BY <2>1, <2>2, StepKeeps, StepBlames
  <2>4. building' = TRUE
    BY <1>8 DEF Build
  <2> QED BY <1>7, <1>8, <2>3, <2>4 DEF BInv, Build
<1>9. CASE Run
  <2>1. IInv /\ JInv /\ building /\ Next
    BY <1>1, <1>9 DEF Run
  <2>2. IInv' /\ JInv'
    BY <2>1, StepKeeps, StepBlames
  <2>3. registrations' = registrations
    BY <2>1 DEF Next, ValidatePattern, ClaimWithoutRules, NumberRule, StartTree, InsertEntry,
                ApplyFallbacks, ValidateExclusive, Compile, Fail, arguments
  <2>4. building' = building
    BY <1>9 DEF Run
  <2> QED BY <1>7, <1>9, <2>1, <2>2, <2>3, <2>4 DEF BInv, Run
<1>10. CASE UNCHANGED allvars
  <2>1. UNCHANGED vars /\ drafts' = drafts /\ handed' = handed /\ log' = log /\ building' = building
    BY <1>10 DEF allvars
  <2>2. registrations' = registrations
    BY <2>1 DEF vars
  <2>3. building => IInv' /\ JInv'
    BY <1>1, <2>1, StepKeeps, StepBlames
  <2>4. ~building => Fresh'
    BY <1>1, <2>1 DEF Fresh, vars
  <2> QED BY <1>7, <2>1, <2>2, <2>3, <2>4 DEF BInv
<1> QED BY <1>3, <1>4, <1>5, <1>6, <1>8, <1>9, <1>10 DEF BNext

LEMMA BInvariance == BSpec => []BInv
BY BInitKeeps, BStepKeeps, PTL DEF BSpec

-----------------------------------------------------------------------------
(***************************************************************************)
(* The numbers the calls give the definitions.                             *)
(***************************************************************************)
LEMMA SameCount ==
  ASSUME NEW S, IsFiniteSet(S), NEW T, NEW f \in [S -> T],
         \A x, y \in S : f[x] = f[y] => x = y,
         \A y \in T : \E x \in S : y = f[x]
  PROVE  Cardinality(S) = Cardinality(T)
<1>1. f \in Injection(S, T)
  BY DEF Injection, IsInjective
<1>2. f \in Surjection(S, T)
  BY DEF Surjection
<1>3. ExistsBijection(S, T)
  BY <1>1, <1>2 DEF ExistsBijection, Bijection
<1> QED BY <1>3, FS_Bijection

\* The places of a registration's definitions among the calls on its draft.
At(i) == CHOOSE at : Places(at, registrations[i].rules, log[handed[i]])

LEMMA AsWritten ==
  ASSUME BInv, NEW i \in DOMAIN handed
  PROVE  /\ handed[i] \in Asked /\ i \in DOMAIN registrations
         /\ Elements(registrations[i].patterns) = PatternsOf(handed[i])
         /\ registrations[i].inherit = LastSays(handed[i])
         /\ registrations[i].exclusive = (log[handed[i]][1].call = "exclusive_subtree")
         /\ Places(At(i), registrations[i].rules, log[handed[i]])
         /\ registrations[i].rules \in Seq(Seq(Keys))
<1>1. Drafted /\ HandedOver
  BY DEF BInv
<1>2. /\ registrations \in Seq(PathRegistration) /\ handed \in Seq(Nat)
      /\ Len(registrations) = Len(handed)
      /\ handed[i] \in DOMAIN drafts /\ registrations[i] = drafts[handed[i]]
  BY <1>1 DEF HandedOver
<1>3. i \in DOMAIN registrations
  BY <1>2
<1>4. Tells(log[handed[i]], drafts[handed[i]])
  BY <1>1, <1>2 DEF Drafted
<1>5. PatternsOf(handed[i]) = Gathers(log[handed[i]])
  BY DEF PatternsOf, Gathers, CallsOf, Naming, PatternCalls, Elements, Range
<1>6. LastSays(handed[i]) = Settles(log[handed[i]])
  BY DEF LastSays, Settles, CallsOf, Naming, Latest
<1>7. Places(At(i), registrations[i].rules, log[handed[i]])
  <2>1. \E at : Places(at, registrations[i].rules, log[handed[i]])
    BY <1>2, <1>4 DEF Tells
  <2> HIDE DEF Places
  <2> QED BY <2>1 DEF At
<1>8. handed[i] \in Asked
  BY DEF Asked, Range
<1>9. registrations[i].rules \in Seq(Seq(Keys))
  <2>1. registrations[i] \in PathRegistration
    BY <1>2, <1>3
  <2> QED BY <2>1 DEF PathRegistration, Keys
<1> QED BY <1>2, <1>3, <1>4, <1>5, <1>6, <1>7, <1>8, <1>9 DEF Tells

LEMMA AskedAre ==
  ASSUME BInv
  PROVE  /\ DOMAIN registrations = DOMAIN handed
         /\ \A d : d \in Asked <=> \E i \in DOMAIN handed : d = handed[i]
         /\ \A i, j \in DOMAIN handed : handed[i] = handed[j] => i = j
         /\ \A i \in DOMAIN handed : i \in Nat
<1>1. /\ registrations \in Seq(PathRegistration) /\ handed \in Seq(Nat)
      /\ Len(registrations) = Len(handed)
      /\ \A i, j \in DOMAIN handed : handed[i] = handed[j] => i = j
  BY DEF BInv, HandedOver
<1>2. DOMAIN registrations = DOMAIN handed /\ \A i \in DOMAIN handed : i \in Nat
  BY <1>1
<1>3. \A d : d \in Asked <=> \E i \in DOMAIN handed : d = handed[i]
  BY DEF Asked, Range
<1> QED BY <1>1, <1>2, <1>3

\* When the router is built every definition has a number.
LEMMA DefinitionsAre ==
  ASSUME BInv, Built
  PROVE  /\ IInv /\ IsFiniteSet(Definitions)
         /\ \A i, m : <<i, m>> \in Definitions <=> i \in DOMAIN handed /\ m \in DOMAIN At(i)
         /\ \A c \in Definitions : \E i \in DOMAIN handed : \E m \in DOMAIN At(i) : c = <<i, m>>
<1>1. building /\ IInv
  BY DEF BInv, Fresh, Built
<1>2. IsFiniteSet(Definitions)
  BY <1>1, DefinitionsFinite DEF IInv
<1>3. DOMAIN registrations = DOMAIN handed
  BY AskedAre
<1>4. \A i \in DOMAIN handed : DOMAIN registrations[i].rules = DOMAIN At(i)
  <2> SUFFICES ASSUME NEW i \in DOMAIN handed PROVE DOMAIN registrations[i].rules = DOMAIN At(i)
    OBVIOUS
  <2>1. PICK at : at = At(i)
    OBVIOUS
  <2>2. Places(at, registrations[i].rules, log[handed[i]]) /\ registrations[i].rules \in Seq(Seq(Keys))
    BY <2>1, AsWritten
  <2>3. at \in Seq(Nat) /\ Len(at) = Len(registrations[i].rules)
    BY <2>2 DEF Places
  <2> QED BY <2>1, <2>2, <2>3
<1>5. \A i \in DOMAIN registrations : \A m \in DOMAIN registrations[i].rules : m \in 1..DENIED_RULE + 1
  <2> SUFFICES ASSUME NEW i \in DOMAIN registrations, NEW m \in DOMAIN registrations[i].rules
               PROVE  m \in 1..DENIED_RULE + 1
    OBVIOUS
  <2>1. /\ i \in 1..Len(registrations) /\ Len(registrations) \in Nat /\ current \in Nat
        /\ registrations[i].rules \in Seq(Seq(Keys))
    BY <1>1, RegistrationShape DEF IInv, Typed
  <2>2. current > Len(registrations)
    BY <1>1 DEF Built, IInv, Placed
  <2>3. Written(i, m)
    BY <2>1, <2>2 DEF Written
  <2>4. m <= DENIED_RULE /\ m \in Nat /\ 1 <= m /\ DENIED_RULE \in Nat
    <3>1. m <= DENIED_RULE
      BY <1>1, <2>3 DEF IInv, Numbered
    <3>2. DOMAIN registrations[i].rules = 1..Len(registrations[i].rules)
      BY <2>1
    <3> QED BY <2>1, <3>1, <3>2, IdsAssumption
  <2> QED BY <2>4
<1>6. \A i, m : <<i, m>> \in Definitions <=> i \in DOMAIN handed /\ m \in DOMAIN At(i)
  BY <1>3, <1>4, <1>5 DEF Definitions
<1>7. \A c \in Definitions : c = <<c[1], c[2]>>
  BY DEF Definitions
<1> QED BY <1>1, <1>2, <1>6, <1>7

LEMMA NumberedAsCalled ==
  ASSUME BInv, Built, NEW i \in DOMAIN handed, NEW m \in DOMAIN At(i)
  PROVE  IdOf(<<i, m>>) = NumberOf(handed[i], At(i)[m])
<1> DEFINE S == {c \in Definitions : c[1] < i \/ (c[1] = i /\ c[2] < m)}
           calls(e) == {e} \X CallsOf(e, {"define"})
           before == {e \in Asked : \E j, k \in DOMAIN handed : j < k /\ handed[j] = e /\ handed[k] = handed[i]}
           T == (UNION {calls(e) : e \in before}) \cup {c \in calls(handed[i]) : c[2] < At(i)[m]}
           f == [c \in S |-> <<handed[c[1]], At(c[1])[c[2]]>>]
<1>1. IdOf(<<i, m>>) = Cardinality(S)
  BY DEF IdOf
<1>2. NumberOf(handed[i], At(i)[m]) = Cardinality(T)
  BY DEF NumberOf
<1>3. /\ IsFiniteSet(Definitions)
      /\ \A j, k : <<j, k>> \in Definitions <=> j \in DOMAIN handed /\ k \in DOMAIN At(j)
      /\ \A c \in Definitions : \E j \in DOMAIN handed : \E k \in DOMAIN At(j) : c = <<j, k>>
  BY DefinitionsAre
<1>4. /\ \A d : d \in Asked <=> \E j \in DOMAIN handed : d = handed[j]
      /\ \A j, k \in DOMAIN handed : handed[j] = handed[k] => j = k
      /\ \A j \in DOMAIN handed : j \in Nat
  BY AskedAre
<1>5. ASSUME NEW j \in DOMAIN handed
      PROVE  /\ DOMAIN At(j) \subseteq Nat
             /\ \A k, n \in DOMAIN At(j) : k < n => At(j)[k] < At(j)[n]
             /\ \A k \in DOMAIN At(j) : At(j)[k] \in Nat /\ At(j)[k] \in CallsOf(handed[j], {"define"})
             /\ \A n \in CallsOf(handed[j], {"define"}) : \E k \in DOMAIN At(j) : n = At(j)[k]
  <2>1. PICK at : at = At(j)
    OBVIOUS
  <2>2. Places(at, registrations[j].rules, log[handed[j]])
    BY <2>1, AsWritten
  <2>3. Naming(log[handed[j]], {"define"}) = CallsOf(handed[j], {"define"})
    BY DEF Naming, CallsOf
  <2>4. /\ at \in Seq(Nat)
        /\ \A k, n \in DOMAIN at : k < n => at[k] < at[n]
        /\ \A k \in DOMAIN at : at[k] \in CallsOf(handed[j], {"define"})
        /\ \A n \in CallsOf(handed[j], {"define"}) : \E k \in DOMAIN at : n = at[k]
    BY <2>2, <2>3 DEF Places
  <2>5. DOMAIN at \subseteq Nat /\ \A k \in DOMAIN at : at[k] \in Nat
    BY <2>4
  <2> QED BY <2>1, <2>4, <2>5
<1>6. ASSUME NEW j \in DOMAIN handed, NEW k \in DOMAIN At(j), NEW n \in DOMAIN At(j), At(j)[k] = At(j)[n]
      PROVE  k = n
  <2>1. k \in Nat /\ n \in Nat /\ At(j)[k] \in Nat
    BY <1>5
  <2>2. ~(k < n) /\ ~(n < k)
    BY <1>5, <1>6, <2>1
  <2> QED BY <2>1, <2>2
<1> HIDE DEF At
<1>7. ASSUME NEW c \in S
      PROVE  \E j \in DOMAIN handed : \E k \in DOMAIN At(j) :
               /\ c = <<j, k>> /\ (j < i \/ (j = i /\ k < m)) /\ f[c] = <<handed[j], At(j)[k]>>
  <2>1. PICK j \in DOMAIN handed : \E k \in DOMAIN At(j) : c = <<j, k>>
    BY <1>3
  <2>2. PICK k \in DOMAIN At(j) : c = <<j, k>>
    BY <2>1
  <2>3. c[1] = j /\ c[2] = k
    BY <2>2
  <2>4. j < i \/ (j = i /\ k < m)
    BY <2>3
  <2>5. f[c] = <<handed[j], At(j)[k]>>
    BY <2>3
  <2> QED BY <2>2, <2>4, <2>5
<1>8. ASSUME NEW j \in DOMAIN handed, NEW k \in DOMAIN At(j), j < i \/ (j = i /\ k < m)
      PROVE  <<j, k>> \in S /\ f[<<j, k>>] = <<handed[j], At(j)[k]>>
  <2>1. <<j, k>> \in Definitions
    BY <1>3
  <2>2. <<j, k>> \in S
    BY <1>8, <2>1
  <2> QED BY <2>2
<1>9. \A c : c \in T <=>
        \/ \E e \in before : \E n \in CallsOf(e, {"define"}) : c = <<e, n>>
        \/ \E n \in CallsOf(handed[i], {"define"}) : c = <<handed[i], n>> /\ n < At(i)[m]
  <2>1. ASSUME NEW c, c \in T
        PROVE  \/ \E e \in before : \E n \in CallsOf(e, {"define"}) : c = <<e, n>>
               \/ \E n \in CallsOf(handed[i], {"define"}) : c = <<handed[i], n>> /\ n < At(i)[m]
    <3>1. CASE c \in UNION {calls(e) : e \in before}
      BY <3>1
    <3>2. CASE c \in {b \in calls(handed[i]) : b[2] < At(i)[m]}
      BY <3>2
    <3> QED BY <2>1, <3>1, <3>2
  <2>2. ASSUME NEW e \in before, NEW n \in CallsOf(e, {"define"})
        PROVE  <<e, n>> \in T
    <3>1. <<e, n>> \in calls(e)
      OBVIOUS
    <3> HIDE DEF calls, before
    <3> QED BY <3>1
  <2>3. ASSUME NEW n \in CallsOf(handed[i], {"define"}), n < At(i)[m]
        PROVE  <<handed[i], n>> \in T
    <3>1. <<handed[i], n>> \in calls(handed[i]) /\ <<handed[i], n>>[2] = n
      OBVIOUS
    <3> HIDE DEF calls, before
    <3> QED BY <2>3, <3>1
  <2> HIDE DEF T, before
  <2> QED BY <2>1, <2>2, <2>3
<1>10. \A e : e \in before <=> \E j \in DOMAIN handed : j < i /\ e = handed[j]
  BY <1>4
<1> HIDE DEF S, T, f, before
<1>11. f \in [S -> T]
  <2>1. ASSUME NEW c \in S PROVE f[c] \in T
    <3>1. PICK j \in DOMAIN handed : \E k \in DOMAIN At(j) :
               /\ c = <<j, k>> /\ (j < i \/ (j = i /\ k < m)) /\ f[c] = <<handed[j], At(j)[k]>>
      BY <1>7
    <3>2. PICK k \in DOMAIN At(j) :
               /\ c = <<j, k>> /\ (j < i \/ (j = i /\ k < m)) /\ f[c] = <<handed[j], At(j)[k]>>
      BY <3>1
    <3>3. At(j)[k] \in CallsOf(handed[j], {"define"})
      BY <1>5
    <3>4. CASE j < i
      BY <1>9, <1>10, <3>2, <3>3, <3>4
    <3>5. CASE j = i /\ k < m
      <4>1. At(j)[k] < At(i)[m]
        BY <1>5, <3>5
      <4> QED BY <1>9, <3>2, <3>3, <3>5, <4>1
    <3> QED BY <3>2, <3>4, <3>5
  <2> QED BY <2>1 DEF f
<1>12. \A b, c \in S : f[b] = f[c] => b = c
  <2> SUFFICES ASSUME NEW b \in S, NEW c \in S, f[b] = f[c] PROVE b = c
    OBVIOUS
  <2>1. PICK j \in DOMAIN handed : \E k \in DOMAIN At(j) : b = <<j, k>> /\ f[b] = <<handed[j], At(j)[k]>>
    BY <1>7
  <2>2. PICK k \in DOMAIN At(j) : b = <<j, k>> /\ f[b] = <<handed[j], At(j)[k]>>
    BY <2>1
  <2>3. PICK l \in DOMAIN handed : \E n \in DOMAIN At(l) : c = <<l, n>> /\ f[c] = <<handed[l], At(l)[n]>>
    BY <1>7
  <2>4. PICK n \in DOMAIN At(l) : c = <<l, n>> /\ f[c] = <<handed[l], At(l)[n]>>
    BY <2>3
  <2>5. handed[j] = handed[l] /\ At(j)[k] = At(l)[n]
    BY <2>2, <2>4
  <2>6. j = l
    BY <1>4, <2>5
  <2> QED BY <1>6, <2>2, <2>4, <2>5, <2>6
<1>13. \A y \in T : \E c \in S : y = f[c]
  <2> SUFFICES ASSUME NEW y \in T PROVE \E c \in S : y = f[c]
    OBVIOUS
  <2>1. CASE \E e \in before : \E n \in CallsOf(e, {"define"}) : y = <<e, n>>
    <3>1. PICK e \in before : \E n \in CallsOf(e, {"define"}) : y = <<e, n>>
      BY <2>1
    <3>2. PICK j \in DOMAIN handed : j < i /\ e = handed[j]
      BY <1>10, <3>1
    <3>3. PICK n \in CallsOf(handed[j], {"define"}) : y = <<handed[j], n>>
      BY <3>1, <3>2
    <3>4. PICK k \in DOMAIN At(j) : n = At(j)[k]
      BY <1>5
    <3> QED BY <1>8, <3>2, <3>3, <3>4
  <2>2. CASE \E n \in CallsOf(handed[i], {"define"}) : y = <<handed[i], n>> /\ n < At(i)[m]
    <3>1. PICK n \in CallsOf(handed[i], {"define"}) : y = <<handed[i], n>> /\ n < At(i)[m]
      BY <2>2
    <3>2. PICK k \in DOMAIN At(i) : n = At(i)[k]
      BY <1>5
    <3>3. k < m
      <4>1. k \in Nat /\ m \in Nat /\ At(i)[k] \in Nat /\ At(i)[m] \in Nat /\ At(i)[k] < At(i)[m]
        BY <1>5, <3>1, <3>2
      <4>2. k # m /\ ~(m < k)
        BY <1>5, <4>1
      <4> QED BY <4>1, <4>2
    <3> QED BY <1>8, <3>1, <3>2, <3>3
  <2> QED BY <1>9, <2>1, <2>2
<1>14. IsFiniteSet(S)
  <2>1. S \subseteq Definitions
    BY DEF S
  <2> QED BY <1>3, <2>1, FS_Subset
<1>15. Cardinality(S) = Cardinality(T)
  BY <1>11, <1>12, <1>13, <1>14, SameCount
<1> QED BY <1>1, <1>2, <1>15

\* Each key has the rules the calls say.
LEMMA OffersAsCalled ==
  ASSUME BInv, Built, NEW t, NEW key
  PROVE  Offers(t, key) = DefinedFor(t, key)
<1>1. /\ \A j, k : <<j, k>> \in Definitions <=> j \in DOMAIN handed /\ k \in DOMAIN At(j)
      /\ \A c \in Definitions : \E j \in DOMAIN handed : \E k \in DOMAIN At(j) : c = <<j, k>>
  BY DefinitionsAre
<1>2. \A d : d \in Asked <=> \E j \in DOMAIN handed : d = handed[j]
  BY AskedAre
<1>3. ASSUME NEW j \in DOMAIN handed
      PROVE  /\ Elements(registrations[j].patterns) = PatternsOf(handed[j])
             /\ \A k \in DOMAIN At(j) :
                  /\ At(j)[k] \in CallsOf(handed[j], {"define"})
                  /\ Elements(registrations[j].rules[k]) = Range(log[handed[j]][At(j)[k]].arg)
                  /\ IdOf(<<j, k>>) = NumberOf(handed[j], At(j)[k])
             /\ \A n \in CallsOf(handed[j], {"define"}) : \E k \in DOMAIN At(j) : n = At(j)[k]
  <2>1. PICK at : at = At(j)
    OBVIOUS
  <2>2. Places(at, registrations[j].rules, log[handed[j]])
    BY <2>1, AsWritten
  <2>3. Naming(log[handed[j]], {"define"}) = CallsOf(handed[j], {"define"})
    BY DEF Naming, CallsOf
  <2>4. /\ \A k \in DOMAIN at : at[k] \in CallsOf(handed[j], {"define"})
                             /\ registrations[j].rules[k] = log[handed[j]][at[k]].arg
        /\ \A n \in CallsOf(handed[j], {"define"}) : \E k \in DOMAIN at : n = at[k]
    BY <2>2, <2>3 DEF Places
  <2>5. \A k \in DOMAIN at : Elements(registrations[j].rules[k]) = Range(log[handed[j]][at[k]].arg)
    BY <2>4 DEF Elements, Range
  <2>6. \A k \in DOMAIN At(j) : IdOf(<<j, k>>) = NumberOf(handed[j], At(j)[k])
    BY NumberedAsCalled
  <2> QED BY <2>1, <2>4, <2>5, <2>6, AsWritten
<1>4. \A x : x \in Offers(t, key) <=>
        \E c \in Definitions : /\ t \in Elements(registrations[c[1]].patterns)
                               /\ key \in Elements(registrations[c[1]].rules[c[2]]) /\ x = IdOf(c)
  BY DEF Offers
<1>5. \A x : x \in DefinedFor(t, key) <=>
        \E d \in Asked : \E n \in CallsOf(d, {"define"}) :
          t \in PatternsOf(d) /\ key \in Range(log[d][n].arg) /\ x = NumberOf(d, n)
  BY DEF DefinedFor
<1> HIDE DEF At, Offers, DefinedFor
<1>6. ASSUME NEW x, x \in Offers(t, key) PROVE x \in DefinedFor(t, key)
  <2>1. PICK c \in Definitions : /\ t \in Elements(registrations[c[1]].patterns)
                                 /\ key \in Elements(registrations[c[1]].rules[c[2]]) /\ x = IdOf(c)
    BY <1>4, <1>6
  <2>2. PICK j \in DOMAIN handed : \E k \in DOMAIN At(j) : c = <<j, k>>
    BY <1>1
  <2>3. PICK k \in DOMAIN At(j) : c = <<j, k>>
    BY <2>2
  <2>4. c[1] = j /\ c[2] = k
    BY <2>3
  <2>5. /\ t \in PatternsOf(handed[j]) /\ key \in Range(log[handed[j]][At(j)[k]].arg)
        /\ x = NumberOf(handed[j], At(j)[k]) /\ At(j)[k] \in CallsOf(handed[j], {"define"})
    BY <1>3, <2>1, <2>3, <2>4
  <2> QED BY <1>2, <1>5, <2>5
<1>7. ASSUME NEW x, x \in DefinedFor(t, key) PROVE x \in Offers(t, key)
  <2>1. PICK d \in Asked : \E n \in CallsOf(d, {"define"}) :
          t \in PatternsOf(d) /\ key \in Range(log[d][n].arg) /\ x = NumberOf(d, n)
    BY <1>5, <1>7
  <2>2. PICK j \in DOMAIN handed : d = handed[j]
    BY <1>2
  <2>3. PICK n \in CallsOf(handed[j], {"define"}) :
          t \in PatternsOf(handed[j]) /\ key \in Range(log[handed[j]][n].arg) /\ x = NumberOf(handed[j], n)
    BY <2>1, <2>2
  <2>4. PICK k \in DOMAIN At(j) : n = At(j)[k]
    BY <1>3
  <2>5. <<j, k>> \in Definitions /\ <<j, k>>[1] = j /\ <<j, k>>[2] = k
    BY <1>1
  <2>6. /\ t \in Elements(registrations[j].patterns) /\ key \in Elements(registrations[j].rules[k])
        /\ x = IdOf(<<j, k>>)
    BY <1>3, <2>3, <2>4
  <2> QED BY <1>4, <2>5, <2>6
<1> QED BY <1>6, <1>7

LEMMA DeclaredAsCalled ==
  ASSUME BInv
  PROVE  /\ Declared = UNION {PatternsOf(d) : d \in Asked}
         /\ \A t : Inherits(t) <=> HandsOver(t)
         /\ \A d \in Asked : log[d][1].call = "exclusive_subtree" =>
              \A t \in PatternsOf(d) : t.slot = "catchall" => t \in Exclusive
<1>1. /\ DOMAIN registrations = DOMAIN handed
      /\ \A d : d \in Asked <=> \E i \in DOMAIN handed : d = handed[i]
  BY AskedAre
<1>2. ASSUME NEW i \in DOMAIN handed
      PROVE  /\ Elements(registrations[i].patterns) = PatternsOf(handed[i])
             /\ registrations[i].inherit = LastSays(handed[i])
             /\ registrations[i].exclusive = (log[handed[i]][1].call = "exclusive_subtree")
  BY AsWritten
<1>3. \A t : t \in Declared <=> \E i \in DOMAIN handed : t \in PatternsOf(handed[i])
  BY <1>1, <1>2 DEF Declared
<1>4. \A t : t \in UNION {PatternsOf(d) : d \in Asked} <=> \E d \in Asked : t \in PatternsOf(d)
  OBVIOUS
<1> HIDE DEF PatternsOf, LastSays
<1>5. Declared = UNION {PatternsOf(d) : d \in Asked}
  BY <1>1, <1>3, <1>4
<1>6. ASSUME NEW t PROVE Inherits(t) <=> HandsOver(t)
  BY <1>1, <1>2 DEF Inherits, HandsOver
<1>7. ASSUME NEW d \in Asked, log[d][1].call = "exclusive_subtree",
             NEW t \in PatternsOf(d), t.slot = "catchall"
      PROVE  t \in Exclusive
  <2>1. PICK i \in DOMAIN handed : d = handed[i]
    BY <1>1
  <2>2. registrations[i].exclusive /\ t \in Elements(registrations[i].patterns)
    BY <1>2, <1>7, <2>1
  <2>3. t \in Declared
    BY <1>3, <1>7, <2>1
  <2> QED BY <1>1, <1>7, <2>2, <2>3 DEF Exclusive
<1> QED BY <1>5, <1>6, <1>7

LEMMA CallsAnswered == BInv => AnswersAsCalled
<1> SUFFICES ASSUME BInv, Built PROVE AnswersAsCalled
  BY DEF AnswersAsCalled
<1>1. IInv
  BY DefinitionsAre
<1>2. ASSUME NEW path \in Requests, NEW method \in Methods \cup {Other}
      PROVE  LET ends == Ends(path, method)
                 best == CHOOSE t \in ends : IsBest(t, ends)
             IN  {RuleOf(ViewFor(method), path)} =
                   IF ends = {} THEN {DEFAULT_RULE}
                   ELSE IF Serving(best, method) = {} THEN {DENIED_RULE} ELSE Serving(best, method)
  <2> DEFINE C == {t \in Declared : Claims(t, path)}
             E == {t \in Declared : Stops(t, method)}
             value == [t \in Declared |-> RuleThere(t, method)]
  <2>0. path \in Paths
    BY RequestsAssumption
  <2>1. \A t : Serving(t, method) = LocalRule(t, method)
    BY OffersAsCalled DEF Serving, LocalRule
  <2>2. PICK ends : ends = Ends(path, method)
    OBVIOUS
  <2>3. ends = C \cap E
    <3>1. \A t : t \in ends <=> t \in Declared /\ Claims(t, path)
                                  /\ (LocalRule(t, method) # {} \/ ~Inherits(t))
      BY <2>1, <2>2, DeclaredAsCalled DEF Ends
    <3>2. \A t : t \in C \cap E <=> t \in Declared /\ Claims(t, path) /\ Stops(t, method)
      OBVIOUS
    <3> QED BY <3>1, <3>2 DEF Stops
  <2>4. PICK rule : rule = RuleOf(ViewFor(method), path)
    OBVIOUS
  <2>5. rule = Outcome(C, E, value)
    <3>1. Declared \subseteq Terminals /\ ViewHolds(method)
      BY <1>1, DeclaredInTree, ViewsHold
    <3> HIDE DEF C, E, value
    <3>2. RuleOf(ViewFor(method), path) = Outcome({t \in Declared : Claims(t, path)},
            {t \in Declared : Stops(t, method)}, [t \in Declared |-> RuleThere(t, method)])
      BY <2>0, <3>1, ViewIsOutcome
    <3> QED BY <2>4, <3>2 DEF C, E, value
  <2>6. PICK best : best = CHOOSE t \in ends : IsBest(t, ends)
    OBVIOUS
  <2>7. {rule} = IF ends = {} THEN {DEFAULT_RULE}
                 ELSE IF Serving(best, method) = {} THEN {DENIED_RULE} ELSE Serving(best, method)
    <3>1. CASE ends = {}
      BY <2>3, <2>5, <3>1 DEF Outcome
    <3>2. CASE ends # {}
      <4>1. best = Top(ends)
        BY <2>6 DEF Top
      <4>2. Claimed(ends, path)
        BY <1>1, <2>3, DeclaredInTree DEF Claimed
      <4>3. best \in ends
        BY <2>0, <3>2, <4>1, <4>2, TopIsBest DEF IsBest
      <4>4. best \in Declared
        BY <2>3, <4>3
      <4>5. rule = RuleThere(best, method)
        <5>1. rule = value[Top(C \cap E)]
          BY <2>3, <2>5, <3>2 DEF Outcome
        <5> QED BY <2>3, <4>1, <4>4, <5>1
      <4>6. LocalRule(best, method) = Get(slots[best], method)
        BY <1>1, <4>4, LocalInTree
      <4>7. LocalRule(best, method) = {} \/ \E id : LocalRule(best, method) = {id}
        BY <4>6 DEF Get
      <4>8. CASE LocalRule(best, method) = {}
        BY <2>1, <3>2, <4>5, <4>8 DEF RuleThere
      <4>9. CASE \E id : LocalRule(best, method) = {id}
        <5>1. PICK id : LocalRule(best, method) = {id}
          BY <4>9
        <5>2. rule = id
          BY <4>5, <5>1 DEF RuleThere
        <5> QED BY <2>1, <3>2, <5>1, <5>2
      <4> QED BY <4>7, <4>8, <4>9
    <3> QED BY <3>1, <3>2
  <2> QED BY <2>2, <2>4, <2>6, <2>7
<1>3. ASSUME NEW d \in {e \in Asked : log[e][1].call = "exclusive_subtree"},
             NEW t \in {u \in PatternsOf(d) : u.slot = "catchall"},
             NEW path \in {p \in Requests : Claims(t, p)}, NEW m \in DOMAIN views,
             NEW c \in Candidates(views[m], path, {})
      PROVE  ~Precedes(c.node, t.node)
  <2>1. t \in Exclusive
    BY DeclaredAsCalled
  <2> QED BY <1>1, <2>1, TailsOwned DEF ExclusiveOwnsTail
<1> QED BY <1>2, <1>3 DEF AnswersAsCalled

\* A built router answers what the fluent calls say, whatever drafts were written side by
\* side and in whatever order their calls came.
THEOREM AlwaysAnswersAsCalled == BSpec => []AnswersAsCalled
BY BInvariance, CallsAnswered, PTL

-----------------------------------------------------------------------------
(***************************************************************************)
(* The lint over a router just built.                                      *)
(***************************************************************************)
Lints == phase \in {"linting", "linted"}
Given == \E b \in Builds : registrations = b.registrations

\* What the lint may rely on in the router.
Ready ==
  /\ entries \in Seq(EntryType)
  /\ Elements([k \in DOMAIN entries |-> entries[k].terminal]) = Declared
  /\ Declared \subseteq Terminals /\ IsFiniteSet(Declared)
  /\ \A m : ViewHolds(m)
  /\ \A k \in DOMAIN entries : \A m :
       entries[k].keys = <<All>> => LocalRule(entries[k].terminal, m) # {}
  /\ \A t \in Declared : \A m : DENIED_RULE \notin LocalRule(t, m)
  /\ Capture \in Segments \ Literals

\* A representative of two patterns is a path.
LEMMA OverlapIsPath ==
  ASSUME NEW t \in Terminals, NEW u \in Terminals, NEW capture \in Segments,
         NEW path \in OverlapPath(t, u, capture)
  PROVE  path \in Paths
<1>1. PICK T, U : T = t.node /\ U = u.node
  OBVIOUS
<1>2. /\ T \in Seq(Segments \cup {Star}) /\ U \in Seq(Segments \cup {Star})
      /\ Len(T) \in Nat /\ Len(U) \in Nat /\ DOMAIN T = 1..Len(T) /\ DOMAIN U = 1..Len(U)
  BY <1>1 DEF Terminals, Addresses
<1>3. PICK n : n = IF Span(t) > Span(u) THEN Span(t) ELSE Span(u)
  OBVIOUS
<1>4. n \in Nat
  <2>1. Span(t) = Len(T) + 1 \/ Span(t) = Len(T) + 0
    <3>1. CASE CatchesAll(t)
      BY <1>1, <3>1, Zenon DEF Span
    <3>2. CASE ~CatchesAll(t)
      BY <1>1, <3>2, Zenon DEF Span
    <3> QED BY <3>1, <3>2
  <2>2. Span(u) = Len(U) + 1 \/ Span(u) = Len(U) + 0
    <3>1. CASE CatchesAll(u)
      BY <1>1, <3>1, Zenon DEF Span
    <3>2. CASE ~CatchesAll(u)
      BY <1>1, <3>2, Zenon DEF Span
    <3> QED BY <3>1, <3>2
  <2>3. Span(t) \in Nat /\ Span(u) \in Nat
    BY <1>2, <2>1, <2>2
  <2> QED BY <1>3, <2>3
<1>5. PICK segs : segs = [i \in 1..n |-> IF Spelled(t, u, i) = {} THEN capture
                                          ELSE CHOOSE l \in Spelled(t, u, i) : TRUE]
  OBVIOUS
<1>6. \A i \in 1..n : Spelled(t, u, i) \subseteq Segments
  BY <1>1, <1>2 DEF Spelled
<1>7. \A i \in 1..n : segs[i] \in Segments
  <2> SUFFICES ASSUME NEW i \in 1..n PROVE segs[i] \in Segments
    OBVIOUS
  <2>1. CASE Spelled(t, u, i) = {}
    BY <1>5, <2>1
  <2>2. CASE Spelled(t, u, i) # {}
    <3>1. (CHOOSE l \in Spelled(t, u, i) : TRUE) \in Spelled(t, u, i)
      BY <2>2
    <3> QED BY <1>5, <1>6, <2>2, <3>1
  <2> QED BY <2>1, <2>2
<1>8. segs \in Seq(Segments) /\ Len(segs) = n
  BY <1>4, <1>5, <1>7
<1>9. path = Append(segs, Empty) \/ (path = segs /\ n # 0)
  BY <1>3, <1>5 DEF OverlapPath
<1>10. CASE path = segs /\ n # 0
  BY <1>8, <1>10 DEF Paths
<1>11. CASE path = Append(segs, Empty)
  BY <1>8, <1>11 DEF Paths
<1> QED BY <1>9, <1>10, <1>11

\* A gap the lint finds is one by the meaning of the registrations.
LEMMA GapIsReal ==
  ASSUME Ready, NEW p \in Paths, NEW m, NEW t \in Declared, NEW rule \in MethodGap(p, m, t)
  PROVE  /\ Claims(t, p)
         /\ Answer(p, m) = DENIED_RULE
         /\ AnswerAmong(Declared \ {t}, p, m) = rule
<1>1. PICK D, V : D = Declared /\ V = ViewFor(m)
  OBVIOUS
<1>2. D \subseteq Terminals /\ IsFiniteSet(D) /\ t \in D /\ D \ {t} \subseteq Terminals /\ IsFiniteSet(D \ {t})
  <2>1. D \subseteq Terminals /\ IsFiniteSet(D)
    BY <1>1 DEF Ready
  <2> QED BY <1>1, <2>1, FS_Subset
<1>3. /\ DOMAIN V.rule = {x \in D : Stops(x, m)}
      /\ \A x \in D : Stops(x, m) => V.rule[x] = RuleThere(x, m)
  BY <1>1 DEF Ready, ViewHolds
<1>4. /\ Best(V, p, {}) = {t} /\ V.rule[t] = DENIED_RULE
      /\ \E u \in Best(V, p, {t}) : rule = V.rule[u]
  BY <1>1 DEF MethodGap, View, ViewFor
<1> DEFINE C(B) == {x \in B : Claims(x, p)}
           E(B) == {x \in B : Stops(x, m)}
           value(B) == [x \in B |-> RuleThere(x, m)]
<1>5. \A X : Candidates(V, p, X) = C(D \ X) \cap E(D \ X)
  BY <1>3 DEF Candidates
<1>6. ASSUME NEW X, X \subseteq D, NEW x \in Best(V, p, X)
      PROVE  /\ Claims(x, p)
             /\ AnswerAmong(D \ X, p, m) = V.rule[x]
  <2>1. PICK B : B = D \ X
    OBVIOUS
  <2>2. IsBest(x, C(B) \cap E(B))
    BY <1>5, <1>6, <2>1 DEF Best
  <2>3. x \in B /\ x \in D /\ Stops(x, m) /\ Claims(x, p)
    BY <2>1, <2>2 DEF IsBest
  <2>4. Claimed(C(B) \cap E(B), p) /\ C(B) \cap E(B) # {}
    BY <1>2, <2>1, <2>2 DEF Claimed, IsBest
  <2>5. IsFiniteSet(B) /\ B \subseteq Terminals
    BY <1>2, <2>1, FS_Subset
  <2>6. AnswerAmong(B, p, m) = Outcome(C(B), E(B), value(B))
    BY <2>5, AnswerIsOutcome
  <2>7. x = Top(C(B) \cap E(B))
    <3> HIDE DEF C, E
    <3> QED BY <2>2, <2>4, TopIsBest
  <2>8. value(B)[x] = V.rule[x]
    BY <1>3, <2>3
  <2> HIDE DEF C, E, value
  <2> QED BY <2>1, <2>3, <2>4, <2>6, <2>7, <2>8 DEF Outcome
<1>7. t \in Best(V, p, {}) /\ D \ {} = D
  BY <1>4
<1>8. Claims(t, p) /\ AnswerAmong(D, p, m) = DENIED_RULE
  <2> HIDE DEF C, E, value
  <2>1. AnswerAmong(D \ {}, p, m) = V.rule[t] /\ Claims(t, p)
    BY <1>6, <1>7
  <2> QED BY <1>4, <1>7, <2>1
<1>9. AnswerAmong(D \ {t}, p, m) = rule
  <2> HIDE DEF C, E, value
  <2>1. PICK u \in Best(V, p, {t}) : rule = V.rule[u]
    BY <1>4
  <2> QED BY <1>2, <1>6, <2>1
<1> QED BY <1>1, <1>8, <1>9 DEF Answer

\* The router a build ends with.
LEMMA BuiltIsReady ==
  ASSUME IInv, Built, Given
  PROVE  Ready
<1>1. entries \in Seq(EntryType)
  BY DEF IInv, Typed
<1>2. /\ DOMAIN slots = Declared /\ Declared \subseteq Terminals
  BY DeclaredInTree
<1>3. PICK D : D = Declared
  OBVIOUS
<1>4. \A t \in D : \E k \in DOMAIN entries : entries[k].terminal = t
  BY <1>2, <1>3 DEF IInv, Grown
<1>5. \A k \in DOMAIN entries : entries[k].terminal \in D /\ entries[k].terminal \in DOMAIN slots
  BY <1>2, <1>3 DEF IInv, Grown, Inserted, Built
<1>6. Elements([k \in DOMAIN entries |-> entries[k].terminal]) = D
  <2>1. Elements([k \in DOMAIN entries |-> entries[k].terminal]) = {entries[k].terminal : k \in DOMAIN entries}
    BY DEF Elements
  <2> QED BY <1>4, <1>5, <2>1
<1>7. \A m : ViewHolds(m)
  BY ViewsHold
<1>8. ASSUME NEW k \in DOMAIN entries, NEW m, entries[k].keys = <<All>>
      PROVE  LocalRule(entries[k].terminal, m) # {}
  <2>1. PICK t \in D : t = entries[k].terminal
    BY <1>5
  <2>2. All \in Elements(entries[k].keys)
    BY <1>8 DEF Elements
  <2>3. All \in DOMAIN slots[t].ids
    BY <2>1, <2>2 DEF IInv, Grown, Inserted, Built
  <2>4. Get(slots[t], m) # {}
    BY <2>3 DEF Get
  <2> QED BY <1>3, <2>1, <2>4, LocalInTree
<1>9. ASSUME NEW t \in D, NEW m PROVE DENIED_RULE \notin LocalRule(t, m)
  <2>1. SUFFICES ASSUME DENIED_RULE \in LocalRule(t, m) PROVE FALSE
    OBVIOUS
  <2>2. DENIED_RULE \in Get(slots[t], m) /\ t \in DOMAIN slots
    BY <1>2, <1>3, <2>1, LocalInTree
  <2>3. DENIED_RULE < ruleCount /\ ruleCount \in 0..DENIED_RULE
    BY <2>2, IdsInTree DEF IInv, Typed
  <2> QED BY <2>3, IdsAssumption
<1>10. Capture \in Segments \ Literals
  <2> DEFINE Free == {i \in DOMAIN Captures : Captures[i] \notin Literals}
  <2>1. PICK b \in Builds : registrations = b.registrations
    BY DEF Given
  <2>2. PICK i \in DOMAIN Captures : \A r \in DOMAIN b.registrations :
          \A p \in Elements(b.registrations[r].patterns) : p \in Terminals => Captures[i] \notin Elements(p.node)
    BY CapturesAssumption
  <2>3. ASSUME NEW k \in DOMAIN entries, NEW j \in DOMAIN entries[k].terminal.node
        PROVE  entries[k].terminal.node[j] # Captures[i]
    <3>1. PICK p \in D : p = entries[k].terminal
      BY <1>5
    <3>2. p \in Terminals
      BY <1>2, <1>3
    <3>3. PICK r \in DOMAIN registrations : p \in Elements(registrations[r].patterns)
      BY <1>3 DEF Declared
    <3>4. Captures[i] \notin Elements(p.node)
      BY <2>1, <2>2, <3>2, <3>3
    <3> QED BY <3>1, <3>4 DEF Elements
  <2>4. Captures[i] \notin Literals
    BY <2>3 DEF Literals
  <2>5. Free \in SUBSET Nat /\ Free # {}
    BY <2>4, CapturesAssumption
  <2>6. PICK h \in Free : \A j \in Free : h <= j
    BY <2>5, LeastNatural
  <2>7. Captures[h] \notin Literals /\ \A j \in 1..(h - 1) : Captures[j] \in Literals
    <3>1. \A j \in 1..(h - 1) : j \in DOMAIN Captures /\ ~(h <= j)
      BY CapturesAssumption
    <3> QED BY <2>6, <3>1
  <2> DEFINE First(x) == Captures[x] \notin Literals /\ \A j \in 1..(x - 1) : Captures[j] \in Literals
             c == CHOOSE x \in DOMAIN Captures : First(x)
  <2>8. c \in DOMAIN Captures /\ First(c)
    BY <2>7
  <2>9. Capture = Captures[c]
    BY DEF Capture
  <2> HIDE DEF c
  <2> QED BY <2>8, <2>9, CapturesAssumption
<1> QED BY <1>1, <1>2, <1>3, <1>6, <1>7, <1>8, <1>9, <1>10, DeclaredFinite DEF Ready

\* The lint does not touch the router.
LEMMA RouterStays ==
  ASSUME Ready, registrations' = registrations, entries' = entries, views' = views
  PROVE  Ready' /\ (\A p, m : Answer(p, m)' = Answer(p, m))
         /\ (\A D, p, m : AnswerAmong(D, p, m)' = AnswerAmong(D, p, m))
         /\ Declared' = Declared /\ Literals' = Literals /\ Examined' = Examined /\ Capture' = Capture
         /\ (\A p, m, t : MethodGap(p, m, t)' = MethodGap(p, m, t))
         /\ (\A t, m : LocalRule(t, m)' = LocalRule(t, m)) /\ (\A t : Inherits(t)' = Inherits(t))
<1>1. Declared' = Declared /\ Definitions' = Definitions
  BY DEF Declared, Definitions
<1>2. \A t : Inherits(t)' = Inherits(t)
  BY DEF Inherits
<1>3. \A d : IdOf(d)' = IdOf(d)
  BY <1>1 DEF IdOf
<1>4. \A t, m : Offers(t, m)' = Offers(t, m)
  BY <1>1, <1>3 DEF Offers
<1>5. \A t, m : LocalRule(t, m)' = LocalRule(t, m)
  BY <1>4 DEF LocalRule
<1>6. \A D, p, m : AnswerAmong(D, p, m)' = AnswerAmong(D, p, m)
  BY DEF AnswerAmong, LocalRule, Offers, Inherits, IdOf, Definitions
<1>7. \A p, m : Answer(p, m)' = Answer(p, m)
  BY <1>1, <1>6 DEF Answer
<1>8. Literals' = Literals
  BY DEF Literals
<1>9. Examined' = Examined
  BY DEF Examined, FoldLeft, MapThenFoldSet
<1>10. Capture' = Capture
  BY <1>8 DEF Capture
<1>11. \A m : ViewFor(m)' = ViewFor(m)
  BY DEF ViewFor
<1>12. \A p, m, t : MethodGap(p, m, t)' = MethodGap(p, m, t)
  BY <1>11 DEF MethodGap, View, ViewFor, Best
<1>13. \A t, m : (Stops(t, m)' <=> Stops(t, m)) /\ RuleThere(t, m)' = RuleThere(t, m)
  <2>1. \A t : Inherits(t)' <=> Inherits(t)
    BY DEF Inherits
  <2>2. \A t, m : Stops(t, m)' <=> Stops(t, m)
    BY <1>5, <2>1 DEF Stops
  <2>3. \A t, m : RuleThere(t, m)' = RuleThere(t, m)
    BY DEF RuleThere, LocalRule, Offers, IdOf, Definitions
  <2> QED BY <2>2, <2>3
<1>14. \A m : ViewHolds(m)' <=> ViewHolds(m)
  BY <1>1, <1>11, <1>13 DEF ViewHolds
<1>15. Ready'
  BY <1>1, <1>5, <1>8, <1>10, <1>14 DEF Ready
<1> QED BY <1>1, <1>2, <1>5, <1>6, <1>7, <1>8, <1>9, <1>10, <1>12, <1>15

\* Reports are records, in a row.
Tidy(seq) ==
  /\ Len(seq) \in Nat
  /\ seq = [k \in 1..Len(seq) |-> [terminal |-> seq[k].terminal, path |-> seq[k].path,
                                   rule |-> seq[k].rule, methods |-> seq[k].methods]]

LEMMA TidyIsSeq ==
  ASSUME NEW seq, Tidy(seq)
  PROVE  seq \in Seq({seq[k] : k \in 1..Len(seq)}) /\ DOMAIN seq = 1..Len(seq)
<1>1. PICK n \in Nat : n = Len(seq)
  BY DEF Tidy
<1>2. seq = [k \in 1..n |-> seq[k]]
  BY <1>1 DEF Tidy
<1> QED BY <1>1, <1>2

\* What one turn of the lint does to the reports.
Same(r, t, p, rule) == r.terminal = t /\ r.path = p /\ r.rule = rule
Alike(r, s) == r.terminal = s.terminal /\ r.path = s.path /\ r.rule = s.rule

LEMMA ReportedAdds ==
  ASSUME Tidy(reports), NEW t, NEW p, NEW rule, NEW m, NEW R, R = Reported(t, p, rule, m)
  PROVE  /\ Tidy(R) /\ Len(reports) <= Len(R)
         /\ \A k \in 1..Len(reports) : /\ Alike(R[k], reports[k]) /\ reports[k].methods \subseteq R[k].methods
                                       /\ \/ R[k].methods = reports[k].methods
                                          \/ Same(R[k], t, p, rule) /\ R[k].methods = reports[k].methods \cup {m}
         /\ \A k \in 1..Len(R) : k > Len(reports) =>
              /\ Same(R[k], t, p, rule) /\ R[k].methods = {m}
              /\ k = Len(reports) + 1 /\ \A j \in 1..Len(reports) : ~Same(reports[j], t, p, rule)
         /\ \E k \in 1..Len(R) : Same(R[k], t, p, rule) /\ m \in R[k].methods
<1>1. PICK Q, n : Q = reports /\ n = Len(reports)
  OBVIOUS
<1>0. n \in Nat
  BY <1>1 DEF Tidy
<1>2. Tidy(Q) /\ n = Len(Q) /\ DOMAIN Q = 1..n
  BY <1>1, TidyIsSeq
<1>3. PICK S : Q \in Seq(S)
  BY <1>0, <1>2, TidyIsSeq
<1>4. ASSUME NEW k \in 1..n
      PROVE  Q[k] = [terminal |-> Q[k].terminal, path |-> Q[k].path, rule |-> Q[k].rule, methods |-> Q[k].methods]
  BY <1>0, <1>2 DEF Tidy
<1>5. CASE \E k \in 1..n : Same(Q[k], t, p, rule)
  <2> DEFINE new(k) == IF Same(Q[k], t, p, rule)
                       THEN [terminal |-> Q[k].terminal, path |-> Q[k].path, rule |-> Q[k].rule,
                             methods |-> Q[k].methods \cup {m}]
                       ELSE Q[k]
  <2>1. R = [k \in 1..n |-> IF Same(Q[k], t, p, rule) THEN [Q[k] EXCEPT !.methods = @ \cup {m}] ELSE Q[k]]
    BY <1>0, <1>1, <1>2, <1>5, Zenon DEF Reported, Same
  <2>2. ASSUME NEW k \in 1..n PROVE [Q[k] EXCEPT !.methods = @ \cup {m}] =
            [terminal |-> Q[k].terminal, path |-> Q[k].path, rule |-> Q[k].rule, methods |-> Q[k].methods \cup {m}]
    <3>1. PICK r, a, b, c, d : r = Q[k] /\ a = r.terminal /\ b = r.path /\ c = r.rule /\ d = r.methods
      OBVIOUS
    <3>2. r = [terminal |-> a, path |-> b, rule |-> c, methods |-> d]
      BY <1>4, <3>1, Zenon
    <3>3. [r EXCEPT !.methods = @ \cup {m}] = [terminal |-> a, path |-> b, rule |-> c, methods |-> d \cup {m}]
      BY <3>2
    <3> QED BY <3>1, <3>3
  <2>3. R = [k \in 1..n |-> new(k)]
    BY <2>1, <2>2
  <2>4. ASSUME NEW k \in 1..n
        PROVE  /\ Alike(new(k), Q[k]) /\ Q[k].methods \subseteq new(k).methods
               /\ \/ new(k).methods = Q[k].methods
                  \/ Same(new(k), t, p, rule) /\ new(k).methods = Q[k].methods \cup {m}
               /\ Same(Q[k], t, p, rule) => Same(new(k), t, p, rule) /\ m \in new(k).methods
               /\ new(k) = [terminal |-> new(k).terminal, path |-> new(k).path,
                            rule |-> new(k).rule, methods |-> new(k).methods]
    <3>1. CASE Same(Q[k], t, p, rule)
      BY <3>1 DEF Same, Alike
    <3>2. CASE ~Same(Q[k], t, p, rule)
      <4>1. new(k) = Q[k]
        BY <3>2
      <4> HIDE DEF new
      <4> QED BY <1>4, <3>2, <4>1 DEF Alike
    <3> QED BY <3>1, <3>2
  <2> HIDE DEF new
  <2>5. Len(R) = n /\ \A k \in 1..n : R[k] = new(k)
    BY <1>0, <2>3
  <2>6. Tidy(R)
    BY <1>0, <2>3, <2>4, <2>5 DEF Tidy
  <2>7. PICK h \in 1..n : Same(Q[h], t, p, rule)
    BY <1>5
  <2> QED BY <1>0, <1>1, <2>4, <2>5, <2>6, <2>7
<1>6. CASE ~\E k \in 1..n : Same(Q[k], t, p, rule)
  <2>1. PICK x : x = [terminal |-> t, path |-> p, rule |-> rule, methods |-> {m}]
    OBVIOUS
  <2>2. R = Append(Q, x)
    BY <1>0, <1>1, <1>2, <1>6, <2>1, Zenon DEF Reported, Same
  <2>3. Len(R) = n + 1 /\ R[n + 1] = x /\ \A k \in 1..n : R[k] = Q[k]
    BY <1>0, <1>2, <1>3, <2>2
  <2>4. DOMAIN R = 1..(n + 1) /\ R = [k \in 1..(n + 1) |-> R[k]]
    <3>1. R \in Seq(S \cup {x}) /\ Len(R) = n + 1
      BY <1>0, <1>2, <1>3, <2>2
    <3> QED BY <1>0, <3>1
  <2>5. \A k \in 1..(n + 1) : R[k] = [terminal |-> R[k].terminal, path |-> R[k].path,
                                      rule |-> R[k].rule, methods |-> R[k].methods]
    <3> SUFFICES ASSUME NEW k \in 1..(n + 1)
                 PROVE  R[k] = [terminal |-> R[k].terminal, path |-> R[k].path,
                                rule |-> R[k].rule, methods |-> R[k].methods]
      OBVIOUS
    <3>1. CASE k \in 1..n   BY <1>4, <2>3, <3>1
    <3>2. CASE k = n + 1    BY <2>1, <2>3, <3>2
    <3> QED BY <1>0, <3>1, <3>2
  <2>6. Tidy(R)
    BY <1>0, <2>3, <2>4, <2>5 DEF Tidy
  <2>7. Same(x, t, p, rule) /\ x.methods = {m}
    BY <2>1 DEF Same
  <2>8. \A k \in 1..(n + 1) : k \in 1..n \/ k = n + 1
    BY <1>0
  <2> QED BY <1>0, <1>1, <1>6, <2>3, <2>6, <2>7, <2>8 DEF Alike
<1> QED BY <1>5, <1>6

\* The loops are at entries.
Walk ==
  /\ index \in Nat \ {0} /\ other \in Nat \ {0} /\ probe \in Nat \ {0}
  /\ index <= Len(entries) => other <= Len(entries)

\* What the lint keeps: nothing is reported before it, and the router it reads is the one built.
DInv ==
  /\ Given /\ Tidy(reports) /\ GapsAreReal
  /\ ~Lints => IInv /\ index = 1 /\ other = 1 /\ probe = 1 /\ reports = << >>
  /\ Lints => Ready /\ Walk

\* No two reports are alike, and each is a gap.
Real(seq) ==
  \A k \in 1..Len(seq) :
    /\ Claims(seq[k].terminal, seq[k].path)
    /\ \A j \in 1..(k - 1) : ~Alike(seq[j], seq[k])
    /\ \A x \in seq[k].methods :
         /\ Answer(seq[k].path, x) = DENIED_RULE
         /\ AnswerAmong(Declared \ {seq[k].terminal}, seq[k].path, x) = seq[k].rule

\* A report that takes the method of a real gap is real.
LEMMA ReportStaysReal ==
  ASSUME Tidy(reports), GapsAreReal, NEW t, NEW p, NEW rule, NEW m, NEW R, R = Reported(t, p, rule, m),
         Claims(t, p), Answer(p, m) = DENIED_RULE, AnswerAmong(Declared \ {t}, p, m) = rule
  PROVE  Real(R)
<1> SUFFICES ASSUME NEW k \in 1..Len(R)
             PROVE  /\ Claims(R[k].terminal, R[k].path)
                    /\ \A j \in 1..(k - 1) : ~Alike(R[j], R[k])
                    /\ \A x \in R[k].methods :
                         /\ Answer(R[k].path, x) = DENIED_RULE
                         /\ AnswerAmong(Declared \ {R[k].terminal}, R[k].path, x) = R[k].rule
  BY DEF Real
<1>1. PICK Q, n : Q = reports /\ n = Len(reports)
  OBVIOUS
<1>0. n \in Nat
  BY <1>1 DEF Tidy
<1>2. /\ Tidy(R) /\ n <= Len(R)
      /\ \A i \in 1..n : /\ Alike(R[i], Q[i])
                         /\ \/ R[i].methods = Q[i].methods
                            \/ Same(R[i], t, p, rule) /\ R[i].methods = Q[i].methods \cup {m}
      /\ \A i \in 1..Len(R) : i > n =>
           /\ Same(R[i], t, p, rule) /\ R[i].methods = {m}
           /\ i = n + 1 /\ \A j \in 1..n : ~Same(Q[j], t, p, rule)
  BY <1>1, ReportedAdds
<1>3. DOMAIN Q = 1..n
  BY <1>1, TidyIsSeq
<1>4. ASSUME NEW i \in 1..n
      PROVE  /\ Claims(Q[i].terminal, Q[i].path)
             /\ \A j \in 1..(i - 1) : ~Alike(Q[j], Q[i])
             /\ \A x \in Q[i].methods :
                  /\ Answer(Q[i].path, x) = DENIED_RULE
                  /\ AnswerAmong(Declared \ {Q[i].terminal}, Q[i].path, x) = Q[i].rule
  BY <1>1, <1>3 DEF GapsAreReal, Alike
<1>5. Len(R) \in Nat
  BY <1>2 DEF Tidy
<1>6. CASE k \in 1..n
  <2>1. \A j \in 1..(k - 1) : j \in 1..n
    BY <1>0, <1>6
  <2>2. ASSUME NEW j \in 1..(k - 1) PROVE ~Alike(R[j], R[k])
    <3>1. Alike(R[j], Q[j]) /\ Alike(R[k], Q[k])
      BY <1>2, <1>6, <2>1
    <3>2. ~Alike(Q[j], Q[k])
      BY <1>4, <1>6
    <3> QED BY <3>1, <3>2 DEF Alike
  <2>3. Claims(R[k].terminal, R[k].path)
    BY <1>0, <1>2, <1>4, <1>6 DEF Alike
  <2>4. ASSUME NEW x \in R[k].methods
        PROVE  /\ Answer(R[k].path, x) = DENIED_RULE
               /\ AnswerAmong(Declared \ {R[k].terminal}, R[k].path, x) = R[k].rule
    <3>1. CASE x \in Q[k].methods
      <4>1. R[k].terminal = Q[k].terminal /\ R[k].path = Q[k].path /\ R[k].rule = Q[k].rule
        BY <1>2, <1>6 DEF Alike
      <4>2. /\ Answer(Q[k].path, x) = DENIED_RULE
            /\ AnswerAmong(Declared \ {Q[k].terminal}, Q[k].path, x) = Q[k].rule
        BY <1>4, <1>6, <3>1
      <4> QED BY <4>1, <4>2, Zenon
    <3>2. CASE x = m /\ Same(R[k], t, p, rule)
      BY <3>2 DEF Same
    <3> QED BY <1>2, <1>6, <2>4, <3>1, <3>2
  <2> QED BY <2>2, <2>3, <2>4
<1>7. CASE k > n
  <2>1. /\ Same(R[k], t, p, rule) /\ R[k].methods = {m}
        /\ k = n + 1 /\ \A j \in 1..n : ~Same(Q[j], t, p, rule)
    BY <1>0, <1>2, <1>7
  <2>2. ASSUME NEW j \in 1..(k - 1) PROVE ~Alike(R[j], R[k])
    <3>1. j \in 1..n
      BY <1>0, <2>1
    <3>2. Alike(R[j], Q[j]) /\ ~Same(Q[j], t, p, rule)
      BY <1>2, <2>1, <3>1
    <3> QED BY <2>1, <3>2 DEF Alike, Same
  <2> QED BY <2>1, <2>2 DEF Same
<1>8. k \in 1..n \/ k > n
  BY <1>0, <1>5
<1> QED BY <1>6, <1>7, <1>8

LEMMA LintInit == DInit => DInv
<1> SUFFICES ASSUME DInit PROVE DInv
  OBVIOUS
<1>1. IInv /\ ~Lints
  BY InitKeeps DEF DInit, Init, Lints
<1>2. Given
  BY DEF DInit, Init, Given
<1>3. reports = << >> /\ Tidy(reports) /\ GapsAreReal
  BY DEF DInit, Tidy, GapsAreReal
<1> QED BY <1>1, <1>2, <1>3 DEF DInit, DInv

\* The properties of the reports, when they stay.
LEMMA ReportsStay ==
  ASSUME Tidy(reports), GapsAreReal, reports' = reports,
         registrations' = registrations
  PROVE  Tidy(reports)' /\ GapsAreReal'
<1>1. \A D, p, m : AnswerAmong(D, p, m)' = AnswerAmong(D, p, m)
  BY DEF AnswerAmong, LocalRule, Offers, Inherits, IdOf, Definitions
<1>2. Declared' = Declared
  BY DEF Declared
<1>3. \A p, m : Answer(p, m)' = Answer(p, m)
  BY <1>1, <1>2 DEF Answer
<1>4. GapsAreReal'
  BY <1>1, <1>2, <1>3 DEF GapsAreReal
<1> QED BY <1>4

LEMMA LintStep == DInv /\ [DNext]_lintVars => DInv'
<1> SUFFICES ASSUME DInv, [DNext]_lintVars PROVE DInv'
  OBVIOUS
<1> USE DEF DInv
<1>0. registrations' = registrations
  <2>1. CASE DNext
    BY <2>1 DEF DNext, BuildRouter, StartLint, PassOver, LeavePair, ExamineMethod, Return, Next,
                ValidatePattern, ClaimWithoutRules, NumberRule, StartTree, InsertEntry, ApplyFallbacks,
                ValidateExclusive, Compile, Fail, arguments, router, vars
  <2>2. CASE UNCHANGED lintVars
    BY <2>2 DEF lintVars, vars
  <2> QED BY <2>1, <2>2
<1>1. Given'
  BY <1>0 DEF Given
<1>2. CASE BuildRouter
  <2>1. phase \in {"patterns", "rules", "insert", "exclusive"}
    BY <1>2 DEF BuildRouter, Next, ValidatePattern, ClaimWithoutRules, NumberRule, StartTree,
                InsertEntry, ApplyFallbacks, ValidateExclusive, Compile
  <2>2. ~Lints
    BY <2>1 DEF Lints
  <2>3. IInv'
    BY <1>2, <2>2, StepKeeps DEF BuildRouter
  <2>4. ~Lints'
    BY <2>3 DEF IInv, Placed, Lints
  <2>5. reports' = reports /\ index' = index /\ other' = other /\ probe' = probe
    BY <1>2 DEF BuildRouter, lint
  <2>6. Tidy(reports)' /\ GapsAreReal'
    BY <1>0, <2>5, ReportsStay
  <2> QED BY <1>1, <2>2, <2>3, <2>4, <2>5, <2>6
<1>3. CASE StartLint
  <2>1. /\ registrations' = registrations /\ entries' = entries /\ views' = views
        /\ reports' = reports /\ index' = index /\ other' = other /\ probe' = probe
        /\ phase = "built" /\ phase' = "linting"
    BY <1>0, <1>3 DEF StartLint, router, lint
  <2>2. ~Lints /\ Lints' /\ Built
    BY <2>1 DEF Lints, Built
  <2>3. Ready
    BY <2>2, BuiltIsReady
  <2>4. Ready'
    BY <2>1, <2>3, RouterStays
  <2>5. Tidy(reports)' /\ GapsAreReal'
    BY <2>1, ReportsStay
  <2>6. Walk'
    <3>1. entries \in Seq(EntryType)
      BY <2>3 DEF Ready
    <3>2. Len(entries) \in Nat
      BY <3>1
    <3> QED BY <2>1, <2>2, <3>2 DEF Walk
  <2> QED BY <1>1, <2>2, <2>4, <2>5, <2>6
<1>4. ASSUME Lints, Lints', registrations' = registrations, entries' = entries, views' = views,
             Tidy(reports)', GapsAreReal', Walk'
      PROVE  DInv'
  BY <1>1, <1>4, RouterStays
<1>5. ASSUME Lints PROVE Len(entries) \in Nat /\ DOMAIN entries = 1..Len(entries)
  <2>1. entries \in Seq(EntryType)
    BY <1>5 DEF Ready
  <2> QED BY <2>1
<1>6. CASE PassOver
  <2>1. /\ entries' = entries /\ views' = views /\ phase' = phase /\ reports' = reports
        /\ index' = index + 1 /\ other' = 1 /\ probe' = 1 /\ Lints /\ Lints'
    BY <1>6 DEF PassOver, vars, Linting, Lints
  <2>2. Walk'
    BY <1>5, <2>1 DEF Walk
  <2> QED BY <1>0, <1>4, <2>1, <2>2, ReportsStay
<1>7. CASE LeavePair
  <2>1. /\ entries' = entries /\ views' = views /\ phase' = phase /\ reports' = reports
        /\ Lints /\ Lints' /\ NextPair /\ index <= Len(entries)
    BY <1>7 DEF LeavePair, vars, Linting, Lints
  <2>2. Walk'
    BY <1>5, <2>1 DEF Walk, NextPair
  <2> QED BY <1>0, <1>4, <2>1, <2>2, ReportsStay
<1>8. CASE ExamineMethod
  <2>1. /\ entries' = entries /\ views' = views /\ phase' = phase
        /\ index' = index /\ other' = other /\ probe' = probe + 1
        /\ Lints /\ Lints' /\ index <= Len(entries)
    BY <1>8 DEF ExamineMethod, vars, Linting, Lints
  <2>2. Walk'
    BY <2>1 DEF Walk
  <2>3. PICK path \in Overlap :
          LET terminal == entries[index].terminal
              method   == Examined[probe]
              gap      == MethodGap(path, method, terminal)
          IN  reports' = IF gap = {} THEN reports
                         ELSE Reported(terminal, path, CHOOSE rule \in gap : TRUE, method)
    BY <1>8 DEF ExamineMethod
  <2>4. PICK t, m, gap, rule : /\ t = entries[index].terminal /\ m = Examined[probe]
                               /\ gap = MethodGap(path, m, t) /\ rule = CHOOSE x \in gap : TRUE
    OBVIOUS
  <2>5. CASE gap = {}
    <3>1. reports' = reports
      BY <2>3, <2>4, <2>5
    <3> QED BY <1>0, <1>4, <2>1, <2>2, <3>1, ReportsStay
  <2>6. CASE gap # {}
    <3>1. reports' = Reported(t, path, rule, m) /\ rule \in MethodGap(path, m, t)
      BY <2>3, <2>4, <2>6
    <3>2. PICK u : u = entries[other].terminal
      OBVIOUS
    <3>3. Ready /\ index \in DOMAIN entries /\ other \in DOMAIN entries
      BY <1>5, <2>1 DEF Walk
    <3>4. t \in Declared /\ u \in Declared
      BY <2>4, <3>2, <3>3 DEF Ready, Elements
    <3>5. t \in Terminals /\ u \in Terminals /\ Capture \in Segments
      BY <3>3, <3>4 DEF Ready
    <3>6. path \in Paths
      <4>1. PICK c \in Segments : c = Capture
        BY <3>5
      <4>2. path \in OverlapPath(t, u, c)
        BY <2>4, <3>2, <4>1 DEF Overlap
      <4> QED BY <3>5, <4>2, OverlapIsPath
    <3>7. /\ Claims(t, path) /\ Answer(path, m) = DENIED_RULE
          /\ AnswerAmong(Declared \ {t}, path, m) = rule
      BY <3>1, <3>3, <3>4, <3>6, GapIsReal
    <3>8. PICK R : R = Reported(t, path, rule, m)
      OBVIOUS
    <3>9. reports' = R /\ Tidy(R) /\ DOMAIN R = 1..Len(R)
      BY <3>1, <3>8, ReportedAdds, TidyIsSeq
    <3>10. /\ \A p, x : Answer(p, x)' = Answer(p, x)
           /\ \A D, p, x : AnswerAmong(D, p, x)' = AnswerAmong(D, p, x)
           /\ Declared' = Declared
      BY <1>0, <2>1, <3>3, RouterStays
    <3>11. Real(R)
      <4> HIDE DEF DInv
      <4>1. Tidy(reports) /\ GapsAreReal
        BY DEF DInv
      <4> QED BY <3>7, <3>8, <4>1, ReportStaysReal
    <3>12. GapsAreReal'
      BY <3>9, <3>10, <3>11 DEF GapsAreReal, Real, Alike
    <3> QED BY <1>0, <1>4, <2>1, <2>2, <3>9, <3>12
  <2> QED BY <2>5, <2>6
<1>9. CASE Return
  <2>1. /\ entries' = entries /\ views' = views /\ phase = "linting" /\ phase' = "linted"
        /\ reports' = reports /\ index' = index /\ other' = other /\ probe' = probe
    BY <1>9 DEF Return, Linting, router, lint
  <2>2. Lints /\ Lints'
    BY <2>1 DEF Lints
  <2>3. Walk'
    BY <2>1, <2>2 DEF Walk
  <2> QED BY <1>0, <1>4, <2>1, <2>2, <2>3, ReportsStay
<1>10. CASE UNCHANGED lintVars
  <2>1. /\ UNCHANGED vars /\ entries' = entries /\ views' = views /\ phase' = phase
        /\ reports' = reports /\ index' = index /\ other' = other /\ probe' = probe
    BY <1>10 DEF lintVars, lint, vars
  <2>2. (Lints' <=> Lints) /\ (Walk' <=> Walk)
    BY <2>1 DEF Lints, Walk
  <2>3. CASE Lints
    BY <1>0, <1>4, <2>1, <2>2, <2>3, ReportsStay
  <2>4. CASE ~Lints
    <3>1. IInv'
      BY <2>1, <2>4, StepKeeps
    <3> QED BY <1>0, <1>1, <2>1, <2>2, <2>4, <3>1, ReportsStay
  <2> QED BY <2>3, <2>4
<1> QED BY <1>2, <1>3, <1>6, <1>7, <1>8, <1>9, <1>10 DEF DNext

LEMMA LintInvariance == DSpec => []DInv
BY LintInit, LintStep, PTL DEF DSpec

\* Every report of the lint is a real gap by the meaning of the registrations, whatever
\* they are (method_gaps, Router::method_gap, overlap_path).
THEOREM GapsAlwaysReal == DSpec => []GapsAreReal
<1>1. DInv => GapsAreReal
  BY DEF DInv
<1> QED BY <1>1, LintInvariance, PTL

-----------------------------------------------------------------------------
(***************************************************************************)
(* Every denial that hides a rule has a report: one path stands for all    *)
(* that two patterns share, and the lint leaves no pattern or method out.  *)
(***************************************************************************)
\* The overlap of two patterns, in parts.
Count(t, u) == IF Span(t) > Span(u) THEN Span(t) ELSE Span(u)
Slashed(t, u) == Count(t, u) = 0 \/ \E v \in {t, u} : v.slot = "leaf_slash"
Compatible(t, u) ==
  /\ \A v \in {t, u} : CatchesAll(v) \/ Span(v) = Count(t, u)
  /\ CatchesAll(t) \/ CatchesAll(u) \/ (t.slot = "leaf_slash" <=> u.slot = "leaf_slash")
  /\ \A i \in 1..Count(t, u) : Cardinality(Spelled(t, u, i)) <= 1
Filled(t, u, c) == [i \in 1..Count(t, u) |-> IF Spelled(t, u, i) = {} THEN c
                                             ELSE CHOOSE l \in Spelled(t, u, i) : TRUE]
Representative(t, u, c) == IF Slashed(t, u) THEN Append(Filled(t, u, c), Empty) ELSE Filled(t, u, c)

LEMMA OverlapIs ==
  ASSUME NEW t, NEW u, NEW c
  PROVE  OverlapPath(t, u, c) = IF Compatible(t, u) THEN {Representative(t, u, c)} ELSE {}
BY Zenon DEF OverlapPath, Compatible, Representative, Slashed, Filled, Count

\* The segments a pattern counts.
LEMMA SpanIs ==
  ASSUME NEW t \in Terminals
  PROVE  /\ Len(t.node) \in Nat /\ Span(t) \in Nat
         /\ t.slot = "catchall" => Span(t) = Len(t.node) + 1
         /\ t.slot # "catchall" => Span(t) = Len(t.node)
<1>1. PICK n : n = Len(t.node)
  OBVIOUS
<1>2. n \in Nat
  BY <1>1 DEF Terminals, Addresses
<1>3. CASE CatchesAll(t)
  <2>1. Span(t) = n + 1
    BY <1>1, <1>3, Zenon DEF Span
  <2> QED BY <1>1, <1>2, <1>3, <2>1 DEF CatchesAll
<1>4. CASE ~CatchesAll(t)
  <2>1. Span(t) = n + 0
    BY <1>1, <1>4, Zenon DEF Span
  <2> QED BY <1>1, <1>2, <1>4, <2>1 DEF CatchesAll
<1> QED BY <1>3, <1>4

LEMMA CountIs ==
  ASSUME NEW t \in Terminals, NEW u \in Terminals
  PROVE  /\ Count(t, u) \in Nat
         /\ Span(t) <= Count(t, u) /\ Span(u) <= Count(t, u)
         /\ Count(t, u) = Span(t) \/ Count(t, u) = Span(u)
BY SpanIs DEF Count

\* A literal of a pattern is the segment of every path it claims.
LEMMA LiteralTaken ==
  ASSUME NEW t \in Terminals, NEW p \in Paths, p # Bare, Claims(t, p), NEW i \in 1..Len(t.node)
  PROVE  i \in DOMAIN p /\ p[i] \in Segments /\ (t.node[i] # Star => t.node[i] = p[i])
<1>1. PICK T : T = t.node
  OBVIOUS
<1>2. T \in Seq(Segments \cup {Star}) /\ p \in Seq(Segments \cup {Empty}) /\ Fits(T, p)
  BY <1>1 DEF Terminals, Addresses, Paths, Claims
<1>3. i \in 1..Len(p) /\ Takes(T[i], p[i]) /\ T[i] \in Segments \cup {Star} /\ p[i] \in Segments \cup {Empty}
  BY <1>1, <1>2 DEF Fits
<1> QED BY <1>1, <1>2, <1>3, SegmentsAssumption DEF Takes

\* Two patterns with different nodes that claim a path have a representative.
LEMMA SharedIsCompatible ==
  ASSUME NEW t \in Terminals, NEW u \in Terminals, NEW p \in Paths,
         Claims(t, p), Claims(u, p), t.node # u.node
  PROVE  Compatible(t, u) /\ Count(t, u) # 0
<1>1. PICK T, U, n, x, y : T = t.node /\ U = u.node /\ n = Count(t, u) /\ x = t.slot /\ y = u.slot
  OBVIOUS
<1>2. /\ T \in Addresses /\ U \in Addresses /\ Len(T) \in Nat /\ Len(U) \in Nat /\ T # U
      /\ x \in Slots /\ y \in Slots /\ Len(p) \in Nat /\ p \in Seq(Segments \cup {Empty})
  BY <1>1 DEF Terminals, Addresses, Paths
<1>3. p # Bare
  <2>1. SUFFICES ASSUME p = Bare PROVE FALSE
    OBVIOUS
  <2>2. Len(T) = 0 /\ Len(U) = 0
    BY <1>1, <2>1 DEF Claims
  <2> QED BY <1>2, <2>2, EmptySeq DEF Addresses
<1>4. /\ \/ x = "leaf" /\ Len(T) = Len(p)
         \/ x = "leaf_slash" /\ Len(T) + 1 = Len(p) /\ p[Len(T) + 1] = Empty /\ Len(T) # 0
         \/ x = "catchall" /\ Len(T) < Len(p) /\ ~SlashAt(Len(T), p)
      /\ \/ y = "leaf" /\ Len(U) = Len(p)
         \/ y = "leaf_slash" /\ Len(U) + 1 = Len(p) /\ p[Len(U) + 1] = Empty /\ Len(U) # 0
         \/ y = "catchall" /\ Len(U) < Len(p) /\ ~SlashAt(Len(U), p)
  BY <1>1, <1>3 DEF Claims, EndsAt, SlashAt, MoreAt
<1>5. \A i \in 1..Len(T) : p[i] \in Segments
  BY <1>1, <1>3, LiteralTaken
<1>6. \A i \in 1..Len(U) : p[i] \in Segments
  BY <1>1, <1>3, LiteralTaken
<1>7. /\ x = "catchall" => Span(t) = Len(T) + 1
      /\ x # "catchall" => Span(t) = Len(T)
      /\ y = "catchall" => Span(u) = Len(U) + 1
      /\ y # "catchall" => Span(u) = Len(U)
  BY <1>1, SpanIs
<1>8. /\ n \in Nat /\ Span(t) \in Nat /\ Span(u) \in Nat /\ Span(t) <= n /\ Span(u) <= n
      /\ n = Span(t) \/ n = Span(u)
  BY <1>1, CountIs, SpanIs
<1>9. Len(p) # 0
  BY <1>2, EmptySeq DEF Paths
<1>10. /\ x = "catchall" \/ Span(t) = n
       /\ y = "catchall" \/ Span(u) = n
       /\ x = "catchall" \/ y = "catchall" \/ (x = "leaf_slash" <=> y = "leaf_slash")
       /\ n # 0
  <2>1. CASE x = "leaf"
    <3>1. p[Len(p)] # Empty
      BY <1>2, <1>4, <1>5, <1>9, <2>1, SegmentsAssumption
    <3> QED BY <1>2, <1>4, <1>7, <1>8, <1>9, <2>1, <3>1
  <2>2. CASE x = "leaf_slash"
    <3>1. p[Len(p)] = Empty /\ Len(T) # 0
      BY <1>2, <1>4, <2>2
    <3>2. y # "leaf"
      BY <1>2, <1>4, <1>6, <1>9, <3>1, SegmentsAssumption
    <3>3. y = "catchall" => Len(U) + 1 # Len(p)
      BY <1>2, <1>4, <3>1 DEF SlashAt
    <3> QED BY <1>2, <1>4, <1>7, <1>8, <1>9, <2>2, <3>1, <3>2, <3>3 DEF Slots
  <2>3. CASE x = "catchall"
    <3>1. y = "leaf_slash" => Len(T) + 1 # Len(p)
      BY <1>2, <1>4, <2>3 DEF SlashAt
    <3> QED BY <1>2, <1>4, <1>7, <1>8, <1>9, <2>3, <3>1 DEF Slots
  <2> QED BY <1>2, <2>1, <2>2, <2>3 DEF Slots
<1>11. ASSUME NEW i \in 1..n PROVE Cardinality(Spelled(t, u, i)) <= 1
  <2>1. Spelled(t, u, i) \subseteq {p[i]}
    <3> SUFFICES ASSUME NEW l \in Spelled(t, u, i) PROVE l = p[i]
      OBVIOUS
    <3>1. PICK v \in {t, u} : i \in DOMAIN v.node /\ v.node[i] # Star /\ l = v.node[i]
      BY DEF Spelled
    <3>2. v \in Terminals /\ Claims(v, p)
      OBVIOUS
    <3>3. i \in 1..Len(v.node)
      BY <3>1, <3>2 DEF Terminals, Addresses
    <3> QED BY <1>3, <3>1, <3>2, <3>3, LiteralTaken
  <2>2. IsFiniteSet({p[i]}) /\ Cardinality({p[i]}) = 1
    BY FS_Singleton
  <2> QED BY <2>1, <2>2, FS_Subset, FS_CardinalityType
<1> QED BY <1>1, <1>8, <1>10, <1>11 DEF Compatible, CatchesAll

\* The segments of a representative.
LEMMA FilledIs ==
  ASSUME NEW t \in Terminals, NEW u \in Terminals, NEW c \in Segments, Compatible(t, u)
  PROVE  /\ Filled(t, u, c) \in Seq(Segments) /\ Len(Filled(t, u, c)) = Count(t, u)
         /\ \A i \in 1..Count(t, u) :
              /\ Spelled(t, u, i) = {} => Filled(t, u, c)[i] = c
              /\ \A l \in Spelled(t, u, i) : Filled(t, u, c)[i] = l
<1>1. PICK n : n = Count(t, u)
  OBVIOUS
<1>2. n \in Nat
  BY <1>1, CountIs
<1>3. ASSUME NEW i \in 1..n
      PROVE  Spelled(t, u, i) \subseteq Segments /\ \A l, k \in Spelled(t, u, i) : l = k
  <2>1. PICK T, U : T = t.node /\ U = u.node
    OBVIOUS
  <2>2. T \in Seq(Segments \cup {Star}) /\ U \in Seq(Segments \cup {Star})
    BY <2>1 DEF Terminals, Addresses
  <2>3. Spelled(t, u, i) = {w[i] : w \in {x \in {T, U} : i \in DOMAIN x /\ x[i] # Star}}
    BY <2>1 DEF Spelled
  <2>4. Spelled(t, u, i) \subseteq Segments
    BY <2>2, <2>3
  <2>5. Spelled(t, u, i) \subseteq {T[i]} \cup {U[i]}
    BY <2>3
  <2>6. IsFiniteSet(Spelled(t, u, i))
    <3>1. IsFiniteSet({T[i]} \cup {U[i]})
      BY FS_Singleton, FS_AddElement
    <3> QED BY <2>5, <3>1, FS_Subset
  <2>7. Cardinality(Spelled(t, u, i)) <= 1
    BY <1>1 DEF Compatible
  <2>8. ASSUME NEW l \in Spelled(t, u, i), NEW k \in Spelled(t, u, i), l # k PROVE FALSE
    <3>1. IsFiniteSet({l}) /\ Cardinality({l}) = 1
      BY FS_Singleton
    <3>2. IsFiniteSet({l} \cup {k}) /\ Cardinality({l} \cup {k}) = Cardinality({l}) + 1
      BY <2>8, <3>1, FS_AddElement
    <3>3. Cardinality({l} \cup {k}) <= Cardinality(Spelled(t, u, i)) /\ Cardinality(Spelled(t, u, i)) \in Nat
      BY <2>6, FS_Subset, FS_CardinalityType
    <3> QED BY <2>7, <3>1, <3>2, <3>3
  <2> QED BY <2>4, <2>8
<1>4. PICK F : F = Filled(t, u, c)
  OBVIOUS
<1>5. F = [i \in 1..n |-> IF Spelled(t, u, i) = {} THEN c ELSE CHOOSE l \in Spelled(t, u, i) : TRUE]
  BY <1>1, <1>4 DEF Filled
<1>6. ASSUME NEW i \in 1..n
      PROVE  /\ F[i] \in Segments
             /\ Spelled(t, u, i) = {} => F[i] = c
             /\ \A l \in Spelled(t, u, i) : F[i] = l
  <2>1. CASE Spelled(t, u, i) = {}
    BY <1>5, <2>1
  <2>2. CASE Spelled(t, u, i) # {}
    <3>1. PICK k : k = CHOOSE l \in Spelled(t, u, i) : TRUE
      OBVIOUS
    <3>2. k \in Spelled(t, u, i) /\ F[i] = k
      BY <1>5, <2>2, <3>1
    <3> QED BY <1>3, <2>2, <3>2
  <2> QED BY <2>1, <2>2
<1>7. F \in Seq(Segments) /\ Len(F) = n
  <2>1. F = [i \in 1..n |-> F[i]]
    BY <1>5
  <2> QED BY <1>2, <1>6, <2>1
<1> QED BY <1>1, <1>4, <1>6, <1>7

\* A representative, segment by segment.
LEMMA RepresentativeIs ==
  ASSUME NEW t \in Terminals, NEW u \in Terminals, NEW c \in Segments, Compatible(t, u), Count(t, u) # 0,
         NEW Q, Q = Representative(t, u, c)
  PROVE  /\ Q \in Paths /\ Q # Bare
         /\ Len(Q) = Count(t, u) + (IF Slashed(t, u) THEN 1 ELSE 0)
         /\ \A i \in 1..Count(t, u) : /\ Q[i] = Filled(t, u, c)[i] /\ Q[i] \in Segments
         /\ Slashed(t, u) => Q[Count(t, u) + 1] = Empty
<1>1. PICK n, F : n = Count(t, u) /\ F = Filled(t, u, c)
  OBVIOUS
<1>2. n \in Nat /\ n # 0 /\ F \in Seq(Segments) /\ Len(F) = n
  BY <1>1, CountIs, FilledIs
<1>3. \A i \in 1..n : F[i] \in Segments
  BY <1>2
<1>4. CASE Slashed(t, u)
  <2>1. Q = Append(F, Empty)
    BY <1>1, <1>4 DEF Representative
  <2>2. /\ Q \in Seq(Segments \cup {Empty}) /\ Len(Q) = n + 1 /\ Q[n + 1] = Empty
        /\ \A i \in 1..n : Q[i] = F[i]
    BY <1>2, <2>1
  <2>3. Q # << >> /\ Q # Bare
    BY <1>2, <2>2 DEF Bare
  <2> QED BY <1>1, <1>3, <1>4, <2>2, <2>3 DEF Paths
<1>5. CASE ~Slashed(t, u)
  <2>1. Q = F
    BY <1>1, <1>5 DEF Representative
  <2>2. Q \in Seq(Segments \cup {Empty}) /\ Len(Q) = n + 0
    BY <1>2, <2>1
  <2>3. Q # << >> /\ Q # Bare
    <3>1. Q[1] # Empty
      BY <1>2, <1>3, <2>1, SegmentsAssumption
    <3> QED BY <1>2, <2>1, <3>1 DEF Bare
  <2> QED BY <1>1, <1>3, <1>5, <2>1, <2>2, <2>3 DEF Paths
<1> QED BY <1>4, <1>5

\* Both patterns claim their representative.
LEMMA RepresentativeClaimed ==
  ASSUME NEW t \in Terminals, NEW u \in Terminals, NEW c \in Segments, Compatible(t, u), Count(t, u) # 0,
         NEW v \in {t, u}
  PROVE  Claims(v, Representative(t, u, c))
<1>1. PICK n, T, x, Q : n = Count(t, u) /\ T = v.node /\ x = v.slot /\ Q = Representative(t, u, c)
  OBVIOUS
<1>2. /\ n \in Nat /\ n # 0 /\ Q \in Paths /\ Q # Bare
      /\ Len(Q) = n + (IF Slashed(t, u) THEN 1 ELSE 0)
      /\ \A i \in 1..n : Q[i] = Filled(t, u, c)[i] /\ Q[i] \in Segments
      /\ Slashed(t, u) => Q[n + 1] = Empty
  BY <1>1, CountIs, RepresentativeIs
<1>3. /\ T \in Seq(Segments \cup {Star}) /\ Len(T) \in Nat /\ x \in Slots /\ Span(v) \in Nat
      /\ x = "catchall" => Span(v) = Len(T) + 1
      /\ x # "catchall" => Span(v) = Len(T)
  BY <1>1, SpanIs DEF Terminals, Addresses
<1>4. Span(v) <= n /\ (x # "catchall" => Span(v) = n)
  BY <1>1, CountIs DEF Compatible, CatchesAll
<1>5. (Len(Q) = n + 1 /\ Slashed(t, u)) \/ (Len(Q) = n /\ ~Slashed(t, u))
  BY <1>2
<1>6. Fits(T, Q)
  <2>1. ASSUME NEW i \in 1..Len(T) PROVE Takes(T[i], Q[i])
    <3>1. i \in 1..n /\ i \in DOMAIN T
      BY <1>2, <1>3, <1>4
    <3>2. CASE T[i] = Star
      <4>1. Q[i] # Empty
        BY <1>2, <3>1, SegmentsAssumption
      <4> QED BY <3>2, <4>1 DEF Takes
    <3>3. CASE T[i] # Star
      <4>1. T[i] \in Spelled(t, u, i)
        BY <1>1, <3>1, <3>3 DEF Spelled
      <4>2. Q[i] = T[i]
        BY <1>1, <1>2, <3>1, <4>1, FilledIs
      <4> QED BY <4>2 DEF Takes
    <3> QED BY <3>2, <3>3
  <2>2. Len(T) <= Len(Q)
    BY <1>2, <1>3, <1>4, <1>5
  <2> QED BY <2>1, <2>2 DEF Fits
<1>7. CASE x = "leaf"
  <2>1. ~Slashed(t, u)
    BY <1>1, <1>2, <1>7 DEF Slashed, Compatible, CatchesAll
  <2>2. EndsAt(Len(T), Q)
    BY <1>3, <1>4, <1>5, <1>7, <2>1 DEF EndsAt
  <2> QED BY <1>1, <1>2, <1>6, <1>7, <2>2 DEF Claims
<1>8. CASE x = "leaf_slash"
  <2>1. Slashed(t, u)
    BY <1>1, <1>8 DEF Slashed
  <2>2. SlashAt(Len(T), Q) /\ Len(T) # 0
    BY <1>2, <1>3, <1>4, <1>5, <1>8, <2>1 DEF SlashAt
  <2> QED BY <1>1, <1>2, <1>6, <1>8, <2>2 DEF Claims
<1>9. CASE x = "catchall"
  <2>1. Len(T) < Len(Q) /\ Len(T) + 1 \in 1..n
    BY <1>2, <1>3, <1>4, <1>5, <1>9
  <2>2. ~SlashAt(Len(T), Q)
    BY <1>2, <2>1, SegmentsAssumption DEF SlashAt
  <2> QED BY <1>1, <1>2, <1>6, <1>9, <2>1, <2>2 DEF Claims, MoreAt
<1> QED BY <1>3, <1>7, <1>8, <1>9 DEF Slots

\* A pattern that spells neither name claims the representative whichever it is made with.
LEMMA RepresentativesAlike ==
  ASSUME NEW t \in Terminals, NEW u \in Terminals, NEW c \in Segments, NEW s \in Segments,
         Compatible(t, u), Count(t, u) # 0,
         NEW w \in Terminals, c \notin Elements(w.node), Claims(w, Representative(t, u, c))
  PROVE  Claims(w, Representative(t, u, s))
<1>1. PICK n, W, P, Q : n = Count(t, u) /\ W = w.node /\ P = Representative(t, u, c) /\ Q = Representative(t, u, s)
  OBVIOUS
<1>2. /\ n \in Nat /\ n # 0 /\ P # Bare /\ Q # Bare
      /\ Len(P) = n + (IF Slashed(t, u) THEN 1 ELSE 0) /\ Len(Q) = n + (IF Slashed(t, u) THEN 1 ELSE 0)
      /\ \A i \in 1..n : P[i] = Filled(t, u, c)[i] /\ P[i] \in Segments
      /\ \A i \in 1..n : Q[i] = Filled(t, u, s)[i] /\ Q[i] \in Segments
      /\ Slashed(t, u) => P[n + 1] = Empty /\ Q[n + 1] = Empty
  BY <1>1, CountIs, RepresentativeIs
<1>3. Len(Q) = Len(P) /\ Len(P) \in Nat /\ (Len(P) = n \/ (Len(P) = n + 1 /\ Slashed(t, u)))
  BY <1>2
<1>4. \A i \in 1..n : P[i] = Q[i] \/ P[i] = c
  <2> SUFFICES ASSUME NEW i \in 1..n PROVE P[i] = Q[i] \/ P[i] = c
    OBVIOUS
  <2>1. CASE Spelled(t, u, i) = {}
    BY <1>1, <1>2, <2>1, FilledIs
  <2>2. CASE Spelled(t, u, i) # {}
    <3>1. PICK l \in Spelled(t, u, i) : TRUE
      BY <2>2
    <3>2. Filled(t, u, c)[i] = l /\ Filled(t, u, s)[i] = l
      BY <1>1, FilledIs
    <3> QED BY <1>2, <3>2
  <2> QED BY <2>1, <2>2
<1>5. \A i \in 1..Len(P) : (P[i] = Empty <=> Q[i] = Empty) /\ (P[i] = Q[i] \/ (P[i] = c /\ Q[i] \in Segments))
  <2> SUFFICES ASSUME NEW i \in 1..Len(P)
               PROVE  (P[i] = Empty <=> Q[i] = Empty) /\ (P[i] = Q[i] \/ (P[i] = c /\ Q[i] \in Segments))
    OBVIOUS
  <2>1. CASE i \in 1..n
    BY <1>2, <1>4, <2>1, SegmentsAssumption
  <2>2. CASE i = n + 1 /\ Slashed(t, u)
    BY <1>2, <2>2
  <2> QED BY <1>2, <1>3, <2>1, <2>2
<1>6. W \in Seq(Segments \cup {Star}) /\ Len(W) \in Nat /\ c \notin Elements(W) /\ DOMAIN W = 1..Len(W)
  BY <1>1 DEF Terminals, Addresses
<1>7. Fits(W, P)
  BY <1>1, <1>2 DEF Claims
<1>8. Fits(W, Q)
  <2>1. Len(W) <= Len(Q)
    BY <1>3, <1>7 DEF Fits
  <2>2. ASSUME NEW i \in 1..Len(W) PROVE Takes(W[i], Q[i])
    <3>1. Takes(W[i], P[i]) /\ i \in 1..Len(P)
      BY <1>3, <1>6, <1>7 DEF Fits
    <3>2. W[i] # c
      BY <1>6 DEF Elements
    <3> QED BY <1>5, <3>1, <3>2, SegmentsAssumption DEF Takes
  <2> QED BY <2>1, <2>2 DEF Fits
<1>9. /\ EndsAt(Len(W), P) <=> EndsAt(Len(W), Q)
      /\ SlashAt(Len(W), P) <=> SlashAt(Len(W), Q)
      /\ MoreAt(Len(W), P) <=> MoreAt(Len(W), Q)
  <2>1. SlashAt(Len(W), P) <=> SlashAt(Len(W), Q)
    BY <1>3, <1>5, <1>6 DEF SlashAt
  <2> QED BY <1>3, <2>1 DEF EndsAt, MoreAt
<1> QED BY <1>1, <1>2, <1>8, <1>9 DEF Claims

\* A pattern precedes another or the other way round, not both.
LEMMA PrecedesAsymmetric ==
  ASSUME NEW m \in Addresses, NEW n \in Addresses, Precedes(m, n)
  PROVE  ~Precedes(n, m) /\ m # n
<1>1. ASSUME NEW x \in Addresses PROVE ~Precedes(x, x)
  <2>1. Len(x) \in Nat
    BY DEF Addresses
  <2> QED BY <2>1 DEF Precedes
<1> QED BY <1>1, PrecedesTransitive

\* Where a terminal without a rule beats another by itself, a gap hides a rule of the other.
LEMMA HiddenIsFound ==
  ASSUME Ready, NEW t \in Declared, NEW u \in Declared, NEW m, NEW p \in Paths, p # Bare,
         Claims(t, p), Claims(u, p), Precedes(t.node, u.node),
         \A w \in Declared \ {t, u} : Claims(w, p) => Precedes(u.node, w.node),
         LocalRule(t, m) = {}, ~Inherits(t), LocalRule(u, m) # {}
  PROVE  MethodGap(p, m, t) # {} /\ MethodGap(p, m, t) \subseteq LocalRule(u, m)
<1>1. PICK D, V : D = Declared /\ V = ViewFor(m)
  OBVIOUS
<1>2. D \subseteq Terminals /\ t \in D /\ u \in D /\ \A w \in D : w.node \in Addresses
  BY <1>1 DEF Ready, Terminals
<1>3. /\ DOMAIN V.rule = {x \in D : Stops(x, m)}
      /\ \A x \in D : Stops(x, m) => V.rule[x] = RuleThere(x, m)
  BY <1>1 DEF Ready, ViewHolds
<1>4. Stops(t, m) /\ Stops(u, m)
  BY DEF Stops
<1>5. V.rule[t] = DENIED_RULE
  BY <1>2, <1>3, <1>4 DEF RuleThere
<1>6. V.rule[u] \in LocalRule(u, m)
  <2>1. PICK L : L = LocalRule(u, m)
    OBVIOUS
  <2>2. RuleThere(u, m) = CHOOSE id \in L : TRUE
    BY <2>1 DEF RuleThere
  <2>3. RuleThere(u, m) \in L
    BY <2>1, <2>2
  <2> QED BY <1>2, <1>3, <1>4, <2>1, <2>3
<1>7. V.rule[u] # DENIED_RULE
  BY <1>6 DEF Ready
<1>8. t # u /\ ~Precedes(u.node, t.node) /\ ~Precedes(t.node, t.node) /\ ~Precedes(u.node, u.node)
  BY <1>2, PrecedesAsymmetric
<1>9. ASSUME NEW w \in D, w # t, w # u, Claims(w, p)
      PROVE  ~Precedes(w.node, t.node) /\ ~Precedes(w.node, u.node)
  <2>1. Precedes(u.node, w.node)
    BY <1>1, <1>9
  <2>2. Precedes(t.node, w.node)
    BY <1>2, <2>1, PrecedesTransitive
  <2> QED BY <1>2, <2>1, <2>2, PrecedesAsymmetric
<1>10. ASSUME NEW X PROVE Candidates(V, p, X) = {x \in D \ X : Claims(x, p) /\ Stops(x, m)}
  BY <1>3 DEF Candidates
<1>11. ASSUME NEW X, NEW x, IsBest(x, Candidates(V, p, X)) PROVE Best(V, p, X) = {x}
  <2>1. PICK S : S = Candidates(V, p, X)
    OBVIOUS
  <2>2. \A y \in S : y \in Terminals /\ Claims(y, p)
    BY <1>2, <1>10, <2>1
  <2>3. \A y \in S : IsBest(y, S) => y = x
    BY <1>11, <2>1, <2>2, BestUnique
  <2>4. x \in S /\ IsBest(x, S)
    BY <1>11, <2>1 DEF IsBest
  <2>5. Best(V, p, X) = {y \in S : IsBest(y, S)}
    BY <2>1 DEF Best
  <2> QED BY <2>3, <2>4, <2>5
<1>12. Best(V, p, {}) = {t}
  <2>1. Candidates(V, p, {}) = {x \in D \ {} : Claims(x, p) /\ Stops(x, m)}
    BY <1>10
  <2>2. IsBest(t, Candidates(V, p, {}))
    BY <1>2, <1>4, <1>8, <1>9, <2>1 DEF IsBest
  <2> QED BY <1>11, <2>2
<1>13. Best(V, p, {t}) = {u}
  <2>1. Candidates(V, p, {t}) = {x \in D \ {t} : Claims(x, p) /\ Stops(x, m)}
    BY <1>10
  <2>2. IsBest(u, Candidates(V, p, {t}))
    BY <1>2, <1>4, <1>8, <1>9, <2>1 DEF IsBest
  <2> QED BY <1>11, <2>2
<1>14. MethodGap(p, m, t) = {V.rule[x] : x \in {u}} \ {DENIED_RULE}
  <2>1. View(m) = V
    BY <1>1 DEF View, ViewFor
  <2>2. PICK claimed : claimed = Best(V, p, {}) /\ claimed = {t}
    BY <1>12
  <2>3. MethodGap(p, m, t) = {V.rule[x] : x \in Best(V, p, claimed)} \ {DENIED_RULE}
    BY <1>5, <2>1, <2>2, Zenon DEF MethodGap
  <2> QED BY <1>13, <2>2, <2>3
<1> QED BY <1>6, <1>7, <1>14

\* A terminal without a rule for some method is examined once, at its first pattern.
LEMMA EntryExamined ==
  ASSUME Ready, NEW t \in Declared, NEW m, LocalRule(t, m) = {}
  PROVE  \E i \in DOMAIN entries : entries[i].terminal = t /\ ~Settled(i)
<1>1. PICK E : E = entries
  OBVIOUS
<1>2. DOMAIN E \in SUBSET Nat
  <2>1. E \in Seq(EntryType)
    BY <1>1 DEF Ready
  <2> QED BY <2>1
<1> DEFINE Found == {k \in DOMAIN E : E[k].terminal = t}
<1>3. Found # {}
  <2>1. t \in {E[k].terminal : k \in DOMAIN E}
    BY <1>1 DEF Ready, Elements
  <2> QED BY <2>1
<1>4. Found \in SUBSET Nat
  BY <1>2
<1>5. PICK i \in Found : \A k \in Found : i <= k
  BY <1>3, <1>4, LeastNatural
<1>6. ASSUME NEW k \in DOMAIN E, E[k].terminal = E[i].terminal, k < i \/ E[k].keys = <<All>>
      PROVE  FALSE
  <2>1. k \in Found /\ i <= k /\ k \in Nat /\ i \in Nat
    BY <1>2, <1>5, <1>6
  <2>2. E[k].keys = <<All>> /\ E[k].terminal = t
    BY <1>6, <2>1
  <2> QED BY <1>1, <2>2 DEF Ready
<1> QED BY <1>1, <1>5, <1>6 DEF Settled

LEMMA ExaminedIsSeq ==
  ASSUME Ready
  PROVE  Len(Examined) \in Nat /\ DOMAIN Examined = 1..Len(Examined)
<1>1. PICK named : named = FlattenSeq([k \in DOMAIN entries |-> entries[k].keys])
  OBVIOUS
<1>2. named \in Seq(Keys)
  <2>1. PICK E : E = entries /\ E \in Seq(EntryType)
    BY DEF Ready
  <2>2. \A k \in DOMAIN E : E[k].keys \in Seq(Keys)
    <3> SUFFICES ASSUME NEW k \in DOMAIN E PROVE E[k].keys \in Seq(Keys)
      OBVIOUS
    <3>1. E[k] \in EntryType
      BY <2>1
    <3> QED BY <3>1 DEF EntryType
  <2>3. [k \in DOMAIN E |-> E[k].keys] \in Seq(Seq(Keys))
    BY <2>1, <2>2
  <2> QED BY <1>1, <2>1, <2>3, FlattenTyped
<1>3. Standard \in Seq(Keys)
  BY StandardAssumption DEF Keys
<1>4. Examined = Folded(Standard, named, All)
  BY <1>1, Zenon DEF Examined, FoldLeft, Folded, MapThenFoldSet, AddNew
<1>5. Examined \in Seq(Keys)
  BY <1>2, <1>3, <1>4, FoldTyped
<1> QED BY <1>5

-----------------------------------------------------------------------------
(***************************************************************************)
(* The lint as it goes.                                                    *)
(***************************************************************************)
\* The reports tell of every gap at the pattern and method already examined.
Told(R, i, o, q) ==
  \A path \in OverlapPath(entries[i].terminal, entries[o].terminal, Capture) :
    MethodGap(path, Examined[q], entries[i].terminal) # {} =>
      \E k \in 1..Len(R) :
        /\ R[k].terminal = entries[i].terminal /\ Examined[q] \in R[k].methods
        /\ R[k].rule \in MethodGap(path, Examined[q], entries[i].terminal)

Past(i, o, q) == i < index \/ (i = index /\ (o < other \/ (o = other /\ q < probe)))

Seen ==
  \A i, o \in DOMAIN entries : \A q \in DOMAIN Examined :
    ~Settled(i) /\ Past(i, o, q) => Told(reports, i, o, q)

LEMMA OverlapsTold ==
  ASSUME Ready, Seen, Tidy(reports), index \in Nat, index > Len(entries)
  PROVE  OverlapsRepresented
<1> DEFINE unspelled == CHOOSE s \in Segments : s \notin Literals
           undisputed(t, u) == \A q \in OverlapPath(t, u, unspelled) :
                                 \A w \in Declared \ {t, u} : Claims(w, q) => Precedes(u.node, w.node)
<1>1. SUFFICES ASSUME NEW t \in Declared, NEW u \in Declared \ {t}, NEW p \in Requests, NEW m \in ToSet(Examined),
                      Claims(t, p), Claims(u, p), Precedes(t.node, u.node),
                      LocalRule(t, m) = {}, ~Inherits(t), LocalRule(u, m) # {}, undisputed(t, u)
               PROVE  \E k \in DOMAIN reports : /\ reports[k].terminal = t
                                                /\ m \in reports[k].methods
                                                /\ reports[k].rule \in LocalRule(u, m)
  BY DEF OverlapsRepresented
<1>2. t \in Terminals /\ u \in Terminals /\ t.node \in Addresses /\ u.node \in Addresses /\ p \in Paths
  BY RequestsAssumption DEF Ready, Terminals
<1>3. t.node # u.node
  BY <1>1, <1>2, PrecedesAsymmetric
<1>4. Compatible(t, u) /\ Count(t, u) # 0
  BY <1>1, <1>2, <1>3, SharedIsCompatible
<1>5. PICK c : c = Capture /\ c \in Segments /\ c \notin Literals
  BY DEF Ready
<1>6. PICK s : s = unspelled /\ s \in Segments
  BY <1>5
<1>7. PICK Q : Q = Representative(t, u, c)
  OBVIOUS
<1>8. OverlapPath(t, u, c) = {Q} /\ OverlapPath(t, u, s) = {Representative(t, u, s)}
  BY <1>4, <1>7, OverlapIs
<1>9. Q \in Paths /\ Q # Bare /\ Claims(t, Q) /\ Claims(u, Q)
  BY <1>2, <1>4, <1>5, <1>7, RepresentativeIs, RepresentativeClaimed
<1>10. ASSUME NEW w \in Declared \ {t, u}, Claims(w, Q)
       PROVE  Precedes(u.node, w.node)
  <2>1. w \in Terminals
    BY DEF Ready
  <2>2. c \notin Elements(w.node)
    <3>1. PICK k \in DOMAIN entries : entries[k].terminal = w
      BY DEF Ready, Elements
    <3>2. SUFFICES ASSUME NEW i \in DOMAIN w.node, c = w.node[i] PROVE FALSE
      BY DEF Elements
    <3>3. c \in Literals
      BY <3>1, <3>2 DEF Literals
    <3> QED BY <1>5, <3>3
  <2>3. Claims(w, Representative(t, u, s))
    BY <1>2, <1>4, <1>5, <1>6, <1>7, <1>10, <2>1, <2>2, RepresentativesAlike
  <2> HIDE DEF unspelled
  <2> QED BY <1>1, <1>6, <1>8, <2>3
<1>11. MethodGap(Q, m, t) # {} /\ MethodGap(Q, m, t) \subseteq LocalRule(u, m)
  BY <1>1, <1>9, <1>10, HiddenIsFound
<1>12. PICK i \in DOMAIN entries : entries[i].terminal = t /\ ~Settled(i)
  BY <1>1, EntryExamined
<1>13. PICK o \in DOMAIN entries : entries[o].terminal = u
  BY DEF Ready, Elements
<1>14. PICK q \in DOMAIN Examined : m = Examined[q]
  BY DEF ToSet
<1>15. Past(i, o, q)
  <2>1. entries \in Seq(EntryType)
    BY DEF Ready
  <2>2. i \in 1..Len(entries) /\ Len(entries) \in Nat
    BY <1>12, <2>1
  <2> QED BY <2>2 DEF Past
<1>16. Told(reports, i, o, q)
  BY <1>12, <1>13, <1>14, <1>15 DEF Seen
<1>17. PICK k \in 1..Len(reports) :
          /\ reports[k].terminal = t /\ m \in reports[k].methods /\ reports[k].rule \in MethodGap(Q, m, t)
  BY <1>5, <1>8, <1>11, <1>12, <1>13, <1>14, <1>16 DEF Told
<1>18. DOMAIN reports = 1..Len(reports)
  BY TidyIsSeq
<1> QED BY <1>11, <1>17, <1>18

\* What the lint keeps of the gaps behind it.
OInv == Lints => Seen /\ (phase = "linted" => index > Len(entries))

\* What has been told stays told when the router does.
LEMMA ToldStays ==
  ASSUME Ready, registrations' = registrations, entries' = entries, views' = views
  PROVE  /\ DOMAIN Examined' = DOMAIN Examined /\ \A i : Settled(i)' <=> Settled(i)
         /\ \A R, i, o, q : Told(R, i, o, q)' <=> Told(R, i, o, q)
<1>1. /\ Examined' = Examined /\ Capture' = Capture
      /\ \A p, m, t : MethodGap(p, m, t)' = MethodGap(p, m, t)
  BY RouterStays
<1>2. \A i : Settled(i)' <=> Settled(i)
  BY DEF Settled
<1>3. \A R, i, o, q : Told(R, i, o, q)' <=> Told(R, i, o, q)
  BY <1>1 DEF Told
<1> QED BY <1>1, <1>2, <1>3

\* Reports that only grow tell at least as much.
LEMMA ToldGrows ==
  ASSUME NEW Q, NEW R, NEW i, NEW o, NEW q, Told(Q, i, o, q), Len(Q) \in Nat, Len(R) \in Nat, Len(Q) <= Len(R),
         \A k \in 1..Len(Q) : Alike(R[k], Q[k]) /\ Q[k].methods \subseteq R[k].methods
  PROVE  Told(R, i, o, q)
<1>1. \A k \in 1..Len(Q) : k \in 1..Len(R)
  OBVIOUS
<1> QED BY <1>1 DEF Told, Alike

LEMMA LintSees == DInv /\ DInv' /\ OInv /\ [DNext]_lintVars => OInv'
<1> SUFFICES ASSUME DInv, DInv', OInv, [DNext]_lintVars, Lints'
             PROVE  Seen' /\ (phase' = "linted" => index' > Len(entries'))
  BY DEF OInv
<1>1. CASE ~Lints
  <2>1. phase' \in {"linting", "linted"} /\ ~(phase \in {"linting", "linted"})
    BY <1>1 DEF Lints
  <2>2. CASE StartLint
    <3>1. index' = 1 /\ other' = 1 /\ probe' = 1 /\ phase' = "linting"
      BY <1>1, <2>2 DEF StartLint, lint, DInv
    <3>2. DOMAIN entries' \subseteq Nat \ {0} /\ DOMAIN Examined' \subseteq Nat \ {0}
      <4>1. Ready
        BY <1>1, <2>2, BuiltIsReady DEF DInv, StartLint, Built
      <4>2. registrations' = registrations /\ entries' = entries /\ views' = views
        BY <2>2 DEF StartLint, router, arguments
      <4>3. DOMAIN Examined' = DOMAIN Examined
        BY <4>1, <4>2, ToldStays
      <4>4. DOMAIN Examined \subseteq Nat \ {0}
        BY <4>1, ExaminedIsSeq
      <4>5. entries \in Seq(EntryType)
        BY <4>1 DEF Ready
      <4> QED BY <4>2, <4>3, <4>4, <4>5
    <3>3. Seen'
      BY <3>1, <3>2 DEF Seen, Past
    <3> QED BY <3>1, <3>3
  <2>3. CASE BuildRouter
    <3>1. IInv'
      BY <1>1, <2>3, StepKeeps DEF BuildRouter, DInv
    <3> QED BY <2>1, <3>1 DEF IInv, Placed
  <2>4. CASE UNCHANGED lintVars
    BY <2>1, <2>4 DEF lintVars, vars
  <2>5. ~PassOver /\ ~LeavePair /\ ~ExamineMethod /\ ~Return
    BY <2>1 DEF PassOver, LeavePair, ExamineMethod, Return, Linting
  <2> QED BY <2>2, <2>3, <2>4, <2>5 DEF DNext
<1>2. CASE Lints
  <2>1. /\ Ready /\ Walk /\ Tidy(reports) /\ Seen /\ (phase = "linted" => index > Len(entries))
        /\ phase \in {"linting", "linted"} /\ Tidy(reports')
    BY <1>2 DEF DInv, OInv, Lints
  <2>2. /\ entries \in Seq(EntryType) /\ DOMAIN entries = 1..Len(entries) /\ Len(entries) \in Nat
        /\ Len(Examined) \in Nat /\ DOMAIN Examined = 1..Len(Examined)
    BY <2>1, ExaminedIsSeq DEF Ready
  <2>3. index \in Nat \ {0} /\ other \in Nat \ {0} /\ probe \in Nat \ {0}
        /\ (index <= Len(entries) => other <= Len(entries))
    BY <2>1 DEF Walk
  <2>4. ASSUME registrations' = registrations, entries' = entries, views' = views,
               \A i, o \in DOMAIN entries : \A q \in DOMAIN Examined :
                 ~Settled(i) /\ Past(i, o, q)' => Told(reports', i, o, q)
        PROVE  Seen'
    <3>1. /\ DOMAIN Examined' = DOMAIN Examined /\ \A i : Settled(i)' <=> Settled(i)
          /\ \A R, i, o, q : Told(R, i, o, q)' <=> Told(R, i, o, q)
      BY <2>1, <2>4, ToldStays
    <3>2. PICK R : R = reports'
      OBVIOUS
    <3>3. \A i, o, q : Told(reports, i, o, q)' <=> Told(R, i, o, q)
      BY <3>1, <3>2
    <3> QED BY <2>4, <3>1, <3>2, <3>3 DEF Seen
  <2>5. CASE BuildRouter
    <3>1. phase \in {"patterns", "rules", "insert", "exclusive"}
      BY <2>5 DEF BuildRouter, Next, ValidatePattern, ClaimWithoutRules, NumberRule, StartTree,
                  InsertEntry, ApplyFallbacks, ValidateExclusive, Compile
    <3> QED BY <2>1, <3>1
  <2>6. CASE StartLint
    BY <2>1, <2>6 DEF StartLint
  <2>7. CASE PassOver
    <3>1. /\ registrations' = registrations /\ entries' = entries /\ views' = views /\ reports' = reports
          /\ phase' = "linting" /\ index' = index + 1 /\ other' = 1 /\ probe' = 1 /\ Settled(index)
      BY <2>7 DEF PassOver, vars, Linting
    <3>2. ASSUME NEW i \in DOMAIN entries, NEW o \in DOMAIN entries, NEW q \in DOMAIN Examined,
                 ~Settled(i), Past(i, o, q)'
          PROVE  Told(reports', i, o, q)
      <4>1. i \in Nat \ {0} /\ o \in Nat \ {0} /\ q \in Nat \ {0}
        BY <2>2, <3>2
      <4>2. i < index \/ i = index
        BY <2>3, <3>1, <3>2, <4>1 DEF Past
      <4>3. i # index
        BY <3>1, <3>2
      <4>4. Told(reports, i, o, q)
        BY <2>1, <3>2, <4>2, <4>3 DEF Seen, Past
      <4> QED BY <3>1, <4>4
    <3> QED BY <2>4, <3>1, <3>2
  <2>8. CASE LeavePair
    <3>1. /\ registrations' = registrations /\ entries' = entries /\ views' = views /\ reports' = reports
          /\ phase' = "linting" /\ index <= Len(entries) /\ NextPair
          /\ Overlap = {} \/ probe > Len(Examined)
      BY <2>8 DEF LeavePair, vars, Linting
    <3>2. ASSUME NEW i \in DOMAIN entries, NEW o \in DOMAIN entries, NEW q \in DOMAIN Examined,
                 ~Settled(i), Past(i, o, q)'
          PROVE  Told(reports', i, o, q)
      <4>1. i \in Nat \ {0} /\ o \in Nat \ {0} /\ q \in Nat \ {0} /\ o <= Len(entries) /\ q <= Len(Examined)
        BY <2>2, <3>2
      <4>2. i < index \/ (i = index /\ o <= other)
        <5>0. i < index' \/ (i = index' /\ (o < other' \/ (o = other' /\ q < probe')))
          BY <3>2 DEF Past
        <5>1. CASE other = Len(entries)
          <6>1. index' = index + 1 /\ other' = 1 /\ probe' = 1
            BY <3>1, <5>1 DEF NextPair
          <6> QED BY <2>3, <4>1, <5>0, <5>1, <6>1
        <5>2. CASE other # Len(entries)
          <6>1. index' = index /\ other' = other + 1 /\ probe' = 1
            BY <3>1, <5>2 DEF NextPair
          <6> QED BY <2>3, <4>1, <5>0, <6>1
        <5> QED BY <5>1, <5>2
      <4>3. CASE i < index \/ o < other \/ probe > Len(Examined)
        <5>1. Past(i, o, q)
          BY <2>2, <2>3, <4>1, <4>2, <4>3 DEF Past
        <5>2. Told(reports, i, o, q)
          BY <2>1, <3>2, <5>1 DEF Seen
        <5> QED BY <3>1, <5>2
      <4>4. CASE i = index /\ o = other /\ Overlap = {}
        BY <3>1, <4>4 DEF Overlap, Told
      <4> QED BY <2>3, <3>1, <4>1, <4>2, <4>3, <4>4
    <3> QED BY <2>4, <3>1, <3>2
  <2>9. CASE ExamineMethod
    <3>1. /\ registrations' = registrations /\ entries' = entries /\ views' = views
          /\ phase' = "linting" /\ index' = index /\ other' = other /\ probe' = probe + 1
      BY <2>9 DEF ExamineMethod, vars, Linting
    <3>2. PICK path \in Overlap :
            LET terminal == entries[index].terminal
                method   == Examined[probe]
                gap      == MethodGap(path, method, terminal)
            IN  reports' = IF gap = {} THEN reports
                           ELSE Reported(terminal, path, CHOOSE rule \in gap : TRUE, method)
      BY <2>9 DEF ExamineMethod
    <3>3. PICK t, m, gap, rule, R : /\ t = entries[index].terminal /\ m = Examined[probe]
                                    /\ gap = MethodGap(path, m, t) /\ rule = (CHOOSE x \in gap : TRUE)
                                    /\ R = reports'
      OBVIOUS
    <3>4. /\ Len(reports) \in Nat /\ Len(R) \in Nat /\ Len(reports) <= Len(R)
          /\ \A k \in 1..Len(reports) : Alike(R[k], reports[k]) /\ reports[k].methods \subseteq R[k].methods
          /\ gap # {} => \E k \in 1..Len(R) : Same(R[k], t, path, rule) /\ m \in R[k].methods
      <4>1. CASE gap = {}
        <5>1. R = reports
          BY <3>2, <3>3, <4>1
        <5> QED BY <2>1, <4>1, <5>1 DEF Tidy, Alike
      <4>2. CASE gap # {}
        <5>1. R = Reported(t, path, rule, m)
          BY <3>2, <3>3, <4>2
        <5>2. /\ Tidy(R) /\ Len(reports) <= Len(R)
              /\ \A k \in 1..Len(reports) : Alike(R[k], reports[k]) /\ reports[k].methods \subseteq R[k].methods
              /\ \E k \in 1..Len(R) : Same(R[k], t, path, rule) /\ m \in R[k].methods
          BY <2>1, <5>1, ReportedAdds
        <5> QED BY <2>1, <5>2 DEF Tidy
      <4> QED BY <4>1, <4>2
    <3>5. ASSUME NEW i \in DOMAIN entries, NEW o \in DOMAIN entries, NEW q \in DOMAIN Examined,
                 ~Settled(i), Past(i, o, q)'
          PROVE  Told(R, i, o, q)
      <4>1. i \in Nat \ {0} /\ o \in Nat \ {0} /\ q \in Nat \ {0}
        BY <2>2, <3>5
      <4>2. Past(i, o, q) \/ (i = index /\ o = other /\ q = probe)
        BY <2>3, <3>1, <3>5, <4>1 DEF Past
      <4>3. CASE Past(i, o, q)
        <5>1. PICK Q : Q = reports
          OBVIOUS
        <5>2. Told(Q, i, o, q)
          BY <2>1, <3>5, <4>3, <5>1 DEF Seen
        <5> QED BY <3>4, <5>1, <5>2, ToldGrows
      <4>4. CASE i = index /\ o = other /\ q = probe
        <5>1. OverlapPath(entries[i].terminal, entries[o].terminal, Capture) \subseteq {path}
          <6>1. PICK u, c : u = entries[other].terminal /\ c = Capture
            OBVIOUS
          <6>2. path \in OverlapPath(t, u, c)
            BY <3>2, <3>3, <6>1 DEF Overlap
          <6>3. OverlapPath(t, u, c) \subseteq {path}
            BY <6>2, OverlapIs
          <6> QED BY <3>3, <4>4, <6>1, <6>3
        <5>2. gap # {} => rule \in gap
          BY <3>3
        <5> QED BY <3>3, <3>4, <4>4, <5>1, <5>2 DEF Told, Same
      <4> QED BY <4>2, <4>3, <4>4
    <3>6. Seen'
      BY <2>4, <3>1, <3>3, <3>5
    <3> QED BY <3>1, <3>6
  <2>10. CASE Return
    <3>1. /\ registrations' = registrations /\ entries' = entries /\ views' = views /\ reports' = reports
          /\ index' = index /\ other' = other /\ probe' = probe /\ index > Len(entries)
      BY <2>10 DEF Return, router, lint, arguments
    <3>2. Seen'
      BY <2>1, <2>4, <3>1 DEF Seen, Past
    <3> QED BY <3>1, <3>2
  <2>11. CASE UNCHANGED lintVars
    <3>1. /\ registrations' = registrations /\ entries' = entries /\ views' = views /\ reports' = reports
          /\ index' = index /\ other' = other /\ probe' = probe /\ phase' = phase
      BY <2>11 DEF lintVars, lint, vars
    <3>2. Seen'
      BY <2>1, <2>4, <3>1 DEF Seen, Past
    <3> QED BY <2>1, <3>1, <3>2
  <2> QED BY <2>5, <2>6, <2>7, <2>8, <2>9, <2>10, <2>11 DEF DNext
<1> QED BY <1>1, <1>2

LEMMA LintSeen == DSpec => [](DInv /\ OInv)
<1>1. DInit => OInv
  BY DEF DInit, Init, OInv, Lints
<1> QED BY <1>1, LintInit, LintStep, LintSees, PTL DEF DSpec

\* A denial that hides a rule on any path is reported, whatever the registrations, unless
\* a third pattern disputes the representative (method_gaps, overlap_path).
THEOREM OverlapsAlwaysRepresented == DSpec => []OverlapsRepresented
<1>1. DInv /\ OInv => OverlapsRepresented
  <2> SUFFICES ASSUME DInv, OInv, phase = "linted" PROVE OverlapsRepresented
    BY DEF OverlapsRepresented
  <2>1. Ready /\ Walk /\ Tidy(reports) /\ Seen /\ index > Len(entries)
    BY DEF DInv, OInv, Lints
  <2> QED BY <2>1, OverlapsTold DEF Walk
<1> QED BY <1>1, LintSeen, PTL
=============================================================================
