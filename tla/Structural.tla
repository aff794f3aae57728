----------------------------- MODULE Structural -----------------------------
(***************************************************************************)
(* The structural alphabet (structural.rs): the classes of bytes a backend *)
(* may treat as path structure, the result a scan of one interpretation    *)
(* reports, and what that result is, stated without the scanner's loop.    *)
(*                                                                         *)
(* Scanner.tla models the loop; the guard uses ScanOf.                     *)
(***************************************************************************)
EXTENDS Percent, FiniteSets

Classes == {"Separator", "DotSegment", "Param", "Truncation",
            "Case", "Backslash", "Fragment", "Query"}

\* The classes no configuration can switch off.
Mandatory == {"Separator", "DotSegment", "Param", "Truncation"}

\* enabled_classes: the mandatory quartet and the configured delimiters.  "options"
\* is a subset of {"Backslash", "Query", "Fragment"}.
EnabledClasses(options) == Mandatory \cup options

\* Alternate spellings a scan recognises; the configured decode depth is kept
\* apart, as only the interpretation driver consults it.
Encodings == [overlong_slash : BOOLEAN, overlong_dot : BOOLEAN, unicode : BOOLEAN]

(***************************************************************************)
(* ScanResult.  NoOffset is "no earliest occurrence" and orders after every *)
(* position.                                                               *)
(***************************************************************************)
CONSTANT NoOffset   \* greater than any position of a request

ASSUME NoOffsetAssumption == NoOffset \in Nat \ {0}

ScanResult == [classes : SUBSET Classes, earliest : Nat \ {0}, dot_pops : Nat]

EmptyResult == [classes |-> {}, earliest |-> NoOffset, dot_pops |-> 0]

Lesser(a, b) == IF a <= b THEN a ELSE b
Greater(a, b) == IF a <= b THEN b ELSE a

\* Slip: a disabled class leaves its position.
HitDisabled(result, class, offset, enabled) ==
  [classes  |-> result.classes \cup class,
   earliest |-> IF class # {} THEN Lesser(result.earliest, offset) ELSE result.earliest,
   dot_pops |-> result.dot_pops]

\* A recognised class is always reported; only an enabled one has a position.
Hit(result, class, offset, enabled) ==
  [classes  |-> result.classes \cup class,
   earliest |-> IF class \cap enabled # {} THEN Lesser(result.earliest, offset)
                                          ELSE result.earliest,
   dot_pops |-> result.dot_pops]

Include(result, other) ==
  [classes  |-> result.classes \cup other.classes,
   earliest |-> Lesser(result.earliest, other.earliest),
   dot_pops |-> Greater(result.dot_pops, other.dot_pops)]

(***************************************************************************)
(* One lexical unit of an interpretation: a byte, or an alternate spelling *)
(* of one when the configuration recognises it.                            *)
(***************************************************************************)
Overlong(b, i, enc) ==
  /\ OverlongAt(b, i)
  /\ LET c == CodePoint(b, i, OverlongLen(b[i]))
     IN  (c = Slash /\ enc.overlong_slash) \/ (c = Dot /\ enc.overlong_dot)

Unit(view, i, enc) ==
  LET b == view.bytes
  IN  IF enc.unicode /\ FullwidthAt(b, i)
        THEN [byte |-> FullwidthFold(b[i + 2]), width |-> 3, encoded |-> TRUE]
      ELSE IF Overlong(b, i, enc)
        THEN [byte    |-> CodePoint(b, i, OverlongLen(b[i])),
              width   |-> OverlongLen(b[i]),
              encoded |-> TRUE]
      ELSE [byte |-> b[i], width |-> 1, encoded |-> Escaped(view, i)]

\* The class of a unit: at most one.
ClassOf(unit, previous_slash) ==
  CASE unit.byte = Slash     -> IF unit.encoded \/ previous_slash THEN {"Separator"} ELSE {}
    [] unit.byte = Dot       -> IF unit.encoded THEN {"DotSegment"} ELSE {}
    [] unit.byte = Semicolon -> {"Param"}
    [] unit.byte = Hash      -> {"Fragment"}
    [] unit.byte = Question  -> {"Query"}
    [] unit.byte = Backslash -> {"Backslash"}
    [] unit.byte = Nul       -> {"Truncation"}
    [] unit.byte \in Uppercase -> {"Case"}
    [] OTHER                 -> {}

\* The unit ends a segment.
Separates(unit, enabled) ==
  \/ unit.byte = Slash /\ (~unit.encoded \/ "Separator" \in enabled)
  \/ unit.byte = Backslash /\ "Backslash" \in enabled

\* The unit ends the bare content of a segment (a parameter, or a truncation that
\* can expose what stands before it).
Delimits(unit, enabled) ==
  \/ unit.byte = Semicolon /\ "Param" \in enabled
  \/ unit.byte = Hash /\ "Fragment" \in enabled
  \/ unit.byte = Question /\ "Query" \in enabled

(***************************************************************************)
(* The result of scanning one interpretation, as sets.  "u" is the set of  *)
(* its units, each with the position it starts at; a segment has the       *)
(* position it starts at, which may be the end of the path, and the units  *)
(* up to the next separator.                                               *)
(***************************************************************************)
\* A byte inside an alternate spelling is a continuation byte, which starts no
\* spelling of its own.
Units(view, enc) ==
  LET read == {[at |-> i, unit |-> Unit(view, i, enc)] : i \in DOMAIN view.bytes}
  IN  {p \in read : ~\E q \in read : q.at < p.at /\ p.at < q.at + q.unit.width}

\* The unit before position i is a slash.
AfterSlash(u, i) == \E p \in u : p.at + p.unit.width = i /\ p.unit.byte = Slash

SegmentsOf(u, separators) ==
  LET Content(s) == {p \in u : p.at >= s /\ ~\E q \in separators : s <= q.at /\ q.at <= p.at}
  IN  {[start |-> s, content |-> Content(s)] : s \in {1} \cup {q.at + q.unit.width : q \in separators}}

\* The units of a segment before its first delimiter.
BareContent(content, delimiters) == {p \in content : ~\E q \in content \cap delimiters : q.at <= p.at}

\* What the units of an interpretation amount to.
Findings(view, u, enabled) ==
  LET classified == {[at |-> p.at, class |-> ClassOf(p.unit, AfterSlash(u, p.at))] : p \in u}
      delimiters == {p \in u : Delimits(p.unit, enabled)}
      dots       == {p \in u : p.unit.byte = Dot}
      alternates == {p \in dots : p.unit.encoded}
      segments   == SegmentsOf(u, {p \in u : Separates(p.unit, enabled)})
      \* bare content exactly "." or ".."
      literal    == {g \in segments :
                       LET bare == BareContent(g.content, delimiters)
                       IN  bare \subseteq dots /\ Cardinality(bare) \in 1..2}
      \* a dot spelled some other way counts anywhere in its segment
      climbing   == {g \in segments : g \in literal \/ g.content \cap alternates # {}}
      hits       == {SourceOffset(view, c.at) : c \in {d \in classified : d.class \cap enabled # {}}}
                    \cup {SourceOffset(view, g.start) : g \in {h \in literal : "DotSegment" \in enabled}}
  IN  [classes  |-> (UNION {c.class : c \in classified}) \cup (IF literal = {} THEN {} ELSE {"DotSegment"}),
       earliest |-> CHOOSE e \in hits \cup {NoOffset} : \A o \in hits : e <= o,
       dot_pops |-> Cardinality(climbing)]

\* What scan_interpretation reports.
ScanOf(view, enabled, enc) == Findings(view, Units(view, enc), enabled)

\* The order of "finds at least as much": more classes, an earlier first
\* occurrence, more climbs.
FindsAtLeast(more, less) ==
  /\ less.classes \subseteq more.classes
  /\ more.earliest <= less.earliest
  /\ less.dot_pops <= more.dot_pops
=============================================================================
