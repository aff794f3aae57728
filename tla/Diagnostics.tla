---------------------------- MODULE Diagnostics ----------------------------
(***************************************************************************)
(* The method-gap lint that build_with_diagnostics runs over a router it   *)
(* has just built (method_gaps): for every terminal, every other pattern   *)
(* and every examined method, route one representative path of their       *)
(* overlap and report a denial that hides a rule.                          *)
(*                                                                         *)
(* A pattern is its terminal, so the parameter names of a report (its      *)
(* source) are left out; the methods of a report are a set.                *)
(***************************************************************************)
EXTENDS Registration, SequencesExt

CONSTANTS
  Standard,   \* the methods examined in any table, in order
  Captures    \* the names to try for a segment no pattern spells, in order

ASSUME StandardAssumption == Standard \in Seq(Methods)

\* The code lengthens the name until no pattern spells it.
ASSUME CapturesAssumption ==
  /\ Captures \in Seq(Segments)
  /\ \A b \in Builds : \E i \in DOMAIN Captures : \A r \in DOMAIN b.registrations :
       \A p \in Elements(b.registrations[r].patterns) : p \in Terminals => Captures[i] \notin Elements(p.node)

VARIABLES
  index, other, probe,   \* the loops over patterns, patterns and methods
  reports                \* diagnostics

lint == <<index, other, probe, reports>>
lintVars == <<vars, lint>>

Literals == UNION {{entries[k].terminal.node[i] : i \in DOMAIN entries[k].terminal.node} : k \in DOMAIN entries}

\* Slip: the first name, taken or not.
CaptureFirst == Captures[1]

\* A segment that no pattern spells.
Capture == Captures[CHOOSE i \in DOMAIN Captures : /\ Captures[i] \notin Literals
                                                  /\ \A j \in 1..(i - 1) : Captures[j] \in Literals]

\* The standard methods, then the others in the order the entries name them.
Examined ==
  LET named == FlattenSeq([k \in DOMAIN entries |-> entries[k].keys])
      add(seq, m) == IF m = All \/ m \in ToSet(seq) THEN seq ELSE Append(seq, m)
  IN  FoldLeft(add, Standard, named)

\* The terminal was examined at an earlier pattern, or answers every method.
Settled(i) ==
  \E k \in DOMAIN entries :
    /\ entries[k].terminal = entries[i].terminal
    /\ k < i \/ entries[k].keys = <<All>>

(***************************************************************************)
(* overlap_path: one path both patterns match, or none (a set).            *)
(***************************************************************************)
CatchesAll(t) == t.slot = "catchall"

\* The segments of a pattern, the catch-all counted as one.
Span(t) == Len(t.node) + (IF CatchesAll(t) THEN 1 ELSE 0)

\* The literals two patterns ask of a segment.
Spelled(t, u, i) == {v.node[i] : v \in {w \in {t, u} : i \in DOMAIN w.node /\ w.node[i] # Star}}

OverlapPath(t, u, capture) ==
  LET count  == IF Span(t) > Span(u) THEN Span(t) ELSE Span(u)
      segs   == [i \in 1..count |-> IF Spelled(t, u, i) = {} THEN capture
                                    ELSE CHOOSE l \in Spelled(t, u, i) : TRUE]
      slash  == count = 0 \/ \E v \in {t, u} : v.slot = "leaf_slash"
      fits   == /\ \A v \in {t, u} : CatchesAll(v) \/ Span(v) = count
                /\ CatchesAll(t) \/ CatchesAll(u) \/ (t.slot = "leaf_slash" <=> u.slot = "leaf_slash")
                /\ \A i \in 1..count : Cardinality(Spelled(t, u, i)) <= 1
  IN  IF fits THEN {IF slash THEN Append(segs, Empty) ELSE segs} ELSE {}

(***************************************************************************)
(* Router::method_gap: the rule hidden at a path by the terminal that      *)
(* claims it, or none (a set).                                             *)
(***************************************************************************)
View(method) == views[IF method \in DOMAIN views THEN method ELSE Other]

Best(view, path, ignored) ==
  LET found == Candidates(view, path, ignored) IN {t \in found : IsBest(t, found)}

\* Slip: whichever terminal claims the path is taken for the pattern's.
MethodGapOfAny(path, method, terminal) ==
  LET view    == View(method)
      claimed == Best(view, path, {})
  IN  IF path = Bare \/ ~\E t \in claimed : view.rule[t] = DENIED_RULE THEN {}
      ELSE {view.rule[t] : t \in Best(view, path, claimed)} \ {DENIED_RULE}

MethodGap(path, method, terminal) ==
  LET view    == View(method)
      claimed == Best(view, path, {})
  IN  IF path = Bare \/ claimed # {terminal} \/ view.rule[terminal] # DENIED_RULE THEN {}
      ELSE {view.rule[t] : t \in Best(view, path, claimed)} \ {DENIED_RULE}

-----------------------------------------------------------------------------
DInit == Init /\ index = 1 /\ other = 1 /\ probe = 1 /\ reports = << >>

BuildRouter == Next /\ UNCHANGED lint

\* The router the lint reads.
router == <<arguments, current, next, fallbacks, entries, ruleCount, slots, views, failure>>

\* build stops at the router; build_with_diagnostics goes on to the lint.
StartLint ==
  /\ phase = "built" /\ config.diagnose
  /\ phase' = "linting"
  /\ UNCHANGED <<router, lint>>

Linting == phase = "linting"

\* One turn of the innermost loop: a report with the same terminal, path and rule
\* takes the method in, else there is a new report.
Reported(terminal, path, rule, method) ==
  LET same(r) == r.terminal = terminal /\ r.path = path /\ r.rule = rule
  IN  IF \E k \in DOMAIN reports : same(reports[k])
        THEN [k \in DOMAIN reports |->
                IF same(reports[k]) THEN [reports[k] EXCEPT !.methods = @ \cup {method}] ELSE reports[k]]
        ELSE Append(reports, [terminal |-> terminal, path |-> path, rule |-> rule, methods |-> {method}])

NextPair ==
  /\ probe' = 1
  /\ IF other = Len(entries) THEN other' = 1 /\ index' = index + 1
     ELSE other' = other + 1 /\ UNCHANGED index

\* Nothing to examine at this pattern.
PassOver ==
  /\ Linting /\ index <= Len(entries) /\ Settled(index)
  /\ index' = index + 1 /\ other' = 1 /\ probe' = 1
  /\ UNCHANGED <<vars, reports>>

Overlap == OverlapPath(entries[index].terminal, entries[other].terminal, Capture)

\* The two patterns share no path, or every method has had its turn.
LeavePair ==
  /\ Linting /\ index <= Len(entries) /\ ~Settled(index)
  /\ Overlap = {} \/ probe > Len(Examined)
  /\ NextPair
  /\ UNCHANGED <<vars, reports>>

ExamineMethod ==
  /\ Linting /\ index <= Len(entries) /\ ~Settled(index)
  /\ probe <= Len(Examined)
  /\ \E path \in Overlap :
       LET terminal == entries[index].terminal
           method   == Examined[probe]
           gap      == MethodGap(path, method, terminal)
       IN  reports' = IF gap = {} THEN reports
                      ELSE Reported(terminal, path, CHOOSE rule \in gap : TRUE, method)
  /\ probe' = probe + 1
  /\ UNCHANGED <<vars, index, other>>

Return ==
  /\ Linting /\ index > Len(entries)
  /\ phase' = "linted"
  /\ UNCHANGED <<router, lint>>

DNext == BuildRouter \/ StartLint \/ PassOver \/ LeavePair \/ ExamineMethod \/ Return

DSpec == DInit /\ [][DNext]_lintVars

-----------------------------------------------------------------------------
(***************************************************************************)
(* Properties.                                                             *)
(***************************************************************************)
\* Every report is a real gap by the meaning of the registrations, whatever the method
\* views hold: at the witness the methods are denied, and without the terminal reported
\* they would have the rule reported; a later method joins the report of its gap
\* (method_gaps, Router::method_gap).
GapsAreReal ==
  \A k \in DOMAIN reports : LET r == reports[k] IN
    /\ Claims(r.terminal, r.path)
    /\ \A j \in 1..(k - 1) : <<reports[j].terminal, reports[j].path, reports[j].rule>> # <<r.terminal, r.path, r.rule>>
    /\ \A m \in r.methods :
         /\ Answer(r.path, m) = DENIED_RULE
         /\ AnswerAmong(Declared \ {r.terminal}, r.path, m) = r.rule

\* One representative path stands for all: if one terminal denies a path that another
\* would serve, the gap is reported with that rule, unless a third pattern beats the
\* other on the representative (overlap_path and the terminals passed over).
OverlapsRepresented ==
  phase = "linted" =>
    \A t \in Declared : \A u \in Declared \ {t} : \A p \in Requests : \A m \in ToSet(Examined) :
      LET hidden     == LocalRule(u, m)
          unspelled  == CHOOSE s \in Segments : s \notin Literals
          undisputed == \A q \in OverlapPath(t, u, unspelled) :
                          \A w \in Declared \ {t, u} : Claims(w, q) => Precedes(u.node, w.node)
      IN  (/\ Claims(t, p) /\ Claims(u, p) /\ Precedes(t.node, u.node)
           /\ LocalRule(t, m) = {} /\ ~Inherits(t) /\ hidden # {}
           /\ undisputed)
          => \E k \in DOMAIN reports : /\ reports[k].terminal = t
                                       /\ m \in reports[k].methods
                                       /\ reports[k].rule \in hidden
=============================================================================
