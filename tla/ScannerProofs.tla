--------------------------- MODULE ScannerProofs ---------------------------
(***************************************************************************)
(* What the scan of one interpretation guarantees for every view, class    *)
(* mask and encoding set: its result always has a place to anchor when it  *)
(* has something to report, it never reports a dot-segment without         *)
(* counting its climb, and it reports all there is in the view.  And what  *)
(* it is shown: each view has sound provenance, no byte that decoding      *)
(* produced passes for one of the request, and the views are the           *)
(* interpretations, each once and in order.                                *)
(***************************************************************************)
EXTENDS Scanner, Interpretations, PathProofs

\* The positions a request has.
Positions(v) == 1..Len(v.original)

\* What a result owes its caller: something enabled was found exactly when there
\* is an earliest occurrence, inside the request.
Anchored(res, enabled, v) ==
  /\ (res.classes \cap enabled # {}) <=> (res.earliest # NoOffset)
  /\ res.earliest # NoOffset => res.earliest \in Positions(v)

\* A segment that still has bytes to read, or has read some, starts inside the
\* request; only the empty segment after a final separator may start at its end.
SegmentStarts ==
  (cursor <= Len(view.bytes) \/ segment.bare_len >= 1) => segment.start \in Positions(view)

\* Before its segment is closed, an alternate dot is the pop still to be counted.
PopsOwed ==
  /\ "DotSegment" \in result.classes <=> (result.dot_pops >= 1 \/ segment.alternate_dot)
  /\ done => (segment.alternate_dot => result.dot_pops >= 1)

\* The inductive invariant.
IInv == TypeOK /\ EarliestAgrees /\ SegmentStarts /\ PopsOwed

-----------------------------------------------------------------------------
\* A byte that exists has a source position inside the request, and a position past
\* the end still has a positive one.
LEMMA SourceOffsetInside ==
  ASSUME NEW v, Scannable(v), NEW i \in Nat \ {0}
  PROVE  /\ SourceOffset(v, i) \in Nat \ {0}
         /\ i <= Len(v.bytes) => SourceOffset(v, i) \in Positions(v)
<1>1. CASE ~v.decoded
  BY <1>1 DEF SourceOffset, Scannable, WellFormed, Positions
<1>2. CASE v.decoded
  <2>1. v.origins \in Seq(1..Len(v.original)) /\ Len(v.origins) = Len(v.bytes)
    BY <1>2 DEF Scannable, WellFormed
  <2>2. CASE i \in DOMAIN v.origins
    <3>1. v.origins[i] \in 1..Len(v.original)
      BY <2>1, <2>2
    <3>2. Len(v.original) \in Nat
      BY DEF Scannable, WellFormed
    <3> QED BY <1>2, <2>2, <3>1, <3>2 DEF SourceOffset, Positions
  <2>3. CASE i \notin DOMAIN v.origins
    <3>1. ~(i <= Len(v.bytes))
      BY <2>1, <2>3
    <3> QED BY <1>2, <2>3, <3>1 DEF SourceOffset
  <2> QED BY <2>2, <2>3
<1> QED BY <1>1, <1>2 DEF Scannable, WellFormed

\* Classification reports known classes, and the dot-segment class exactly for an
\* alternate dot.
LEMMA ClassFacts ==
  ASSUME NEW u, NEW p \in BOOLEAN
  PROVE  /\ ClassOf(u, p) \subseteq Classes
         /\ "DotSegment" \in ClassOf(u, p) <=> (u.byte = Dot /\ u.encoded)
BY DEF ClassOf, Classes, Slash, Dot, Semicolon, Hash, Question, Backslash, Nul, Uppercase

\* Recording an occurrence inside the request keeps a result anchored.
LEMMA HitKeepsAnchor ==
  ASSUME NEW res \in ScanResult, NEW v, Scannable(v), NEW enabled \in SUBSET Classes,
         NEW class \in SUBSET Classes, NEW o \in Positions(v), Anchored(res, enabled, v)
  PROVE  /\ Hit(res, class, o, enabled) \in ScanResult
         /\ Anchored(Hit(res, class, o, enabled), enabled, v)
         /\ Hit(res, class, o, enabled).classes = res.classes \cup class
         /\ Hit(res, class, o, enabled).dot_pops = res.dot_pops
<1> DEFINE h == Hit(res, class, o, enabled)
<1>1. Len(v.original) \in Nat /\ Len(v.original) < NoOffset /\ NoOffset \in Nat
  BY NoOffsetAssumption DEF Scannable, WellFormed
<1>2. o \in Nat \ {0} /\ o # NoOffset
  BY <1>1 DEF Positions
<1>3. res.earliest \in Nat \ {0} /\ res.dot_pops \in Nat /\ res.classes \in SUBSET Classes
  BY DEF ScanResult
<1>4. h = [classes  |-> res.classes \cup class,
           earliest |-> IF class \cap enabled # {} THEN Lesser(res.earliest, o) ELSE res.earliest,
           dot_pops |-> res.dot_pops]
  BY DEF Hit
<1>5. h \in ScanResult
  BY <1>2, <1>3, <1>4 DEF ScanResult, Lesser
<1>6. CASE class \cap enabled = {}
  BY <1>4, <1>5, <1>6 DEF Anchored
<1>7. CASE class \cap enabled # {}
  <2>1. h.earliest = Lesser(res.earliest, o)
    BY <1>4, <1>7
  <2>2. h.earliest \in Positions(v)
    BY <2>1, <1>1, <1>2, <1>3 DEF Lesser, Positions, Anchored
  <2>3. h.earliest # NoOffset
    BY <2>2, <1>1 DEF Positions
  <2>4. h.classes \cap enabled # {}
    BY <1>4, <1>7
  <2> QED BY <1>4, <1>5, <2>2, <2>3, <2>4 DEF Anchored
<1> QED BY <1>6, <1>7

\* Closing a segment keeps a result anchored and settles the pop its alternate dots owe.
LEMMA FinishFacts ==
  ASSUME NEW res \in ScanResult, NEW v, Scannable(v), NEW enabled \in SUBSET Classes,
         NEW seg \in Segment, Anchored(res, enabled, v),
         seg.bare_len >= 1 => seg.start \in Positions(v),
         "DotSegment" \in res.classes <=> (res.dot_pops >= 1 \/ seg.alternate_dot)
  PROVE  /\ FinishSegment(res, seg, enabled) \in ScanResult
         /\ Anchored(FinishSegment(res, seg, enabled), enabled, v)
         /\ "DotSegment" \in FinishSegment(res, seg, enabled).classes
              <=> FinishSegment(res, seg, enabled).dot_pops >= 1
         /\ seg.alternate_dot => FinishSegment(res, seg, enabled).dot_pops >= 1
<1> DEFINE hit == Hit(res, {"DotSegment"}, seg.start, enabled)
           end == FinishSegment(res, seg, enabled)
<1>1. res.dot_pops \in Nat
  BY DEF ScanResult
<1>2. CASE Literal(seg)
  <2>1. seg.start \in Positions(v)
    BY <1>2 DEF Literal, Segment
  <2>2. /\ hit \in ScanResult /\ Anchored(hit, enabled, v)
        /\ hit.classes = res.classes \cup {"DotSegment"} /\ hit.dot_pops = res.dot_pops
    BY <2>1, HitKeepsAnchor DEF Classes
  <2>3. end = [hit EXCEPT !.dot_pops = @ + 1]
    BY <1>2 DEF FinishSegment
  <2>4. end = [classes |-> hit.classes, earliest |-> hit.earliest, dot_pops |-> hit.dot_pops + 1]
    BY <2>2, <2>3 DEF ScanResult
  <2>5. end \in ScanResult
    BY <2>2, <2>4 DEF ScanResult
  <2> QED BY <1>1, <2>2, <2>4, <2>5 DEF Anchored
<1>3. CASE ~Literal(seg) /\ seg.alternate_dot
  <2>1. end = [res EXCEPT !.dot_pops = @ + 1]
    BY <1>3 DEF FinishSegment
  <2>2. end = [classes |-> res.classes, earliest |-> res.earliest, dot_pops |-> res.dot_pops + 1]
    BY <2>1 DEF ScanResult
  <2>3. end \in ScanResult
    BY <2>2 DEF ScanResult
  <2> QED BY <1>1, <1>3, <2>2, <2>3 DEF Anchored
<1>4. CASE ~Literal(seg) /\ ~seg.alternate_dot
  <2>1. end = res
    BY <1>4 DEF FinishSegment
  <2> QED BY <1>4, <2>1
<1> QED BY <1>2, <1>3, <1>4

-----------------------------------------------------------------------------
\* What reading the unit under the cursor records, whichever action reads it.
LEMMA ReadFacts ==
  ASSUME IInv, Reading
  PROVE  /\ Here.width \in 1..4 /\ Here.encoded \in BOOLEAN
         /\ cursor \in 1..Len(view.bytes)
         /\ Classified \in ScanResult
         /\ Anchored(Classified, cfg.enabled, view)
         /\ "DotSegment" \in Classified.classes
              <=> (result.dot_pops >= 1 \/ segment.alternate_dot
                     \/ (Here.byte = Dot /\ Here.encoded))
         /\ Classified.dot_pops = result.dot_pops
<1> USE DEF IInv
<1>1. cursor \in 1..Len(view.bytes)
  BY DEF Reading, TypeOK, Scannable, WellFormed
<1>2. cfg.enabled \in SUBSET Classes /\ cfg.enc \in Encodings
  BY DEF TypeOK, ScanMask
<1>3. Here.width \in 1..4 /\ Here.encoded \in BOOLEAN
  BY <1>1, <1>2, UnitShape DEF Here, TypeOK, Scannable
<1>4. SourceOffset(view, cursor) \in Positions(view)
  BY <1>1, SourceOffsetInside DEF TypeOK, Scannable, WellFormed
<1>5. /\ ClassOf(Here, previous_slash) \subseteq Classes
      /\ "DotSegment" \in ClassOf(Here, previous_slash) <=> (Here.byte = Dot /\ Here.encoded)
  BY ClassFacts DEF TypeOK
<1>6. Anchored(result, cfg.enabled, view)
  BY DEF EarliestAgrees, Anchored, Positions
<1>7. /\ Classified \in ScanResult
      /\ Anchored(Classified, cfg.enabled, view)
      /\ Classified.classes = result.classes \cup ClassOf(Here, previous_slash)
      /\ Classified.dot_pops = result.dot_pops
  BY <1>2, <1>4, <1>5, <1>6, HitKeepsAnchor DEF Classified, TypeOK
<1> QED BY <1>1, <1>3, <1>5, <1>7 DEF PopsOwed

\* The state after the cursor has moved over a unit.
LEMMA AdvanceFacts ==
  ASSUME IInv, Reading, Advance
  PROVE  /\ view' = view /\ cfg' = cfg /\ ~done /\ done' = done
         /\ cursor' \in Nat \ {0} /\ cursor' = cursor + Here.width
         /\ previous_slash' \in BOOLEAN
<1>1. cursor \in Nat \ {0} /\ Here.width \in 1..4
  BY ReadFacts DEF IInv, TypeOK
<1> QED BY <1>1 DEF Advance, Reading

LEMMA InitIInv == Init => IInv
<1> SUFFICES ASSUME Init PROVE IInv
  OBVIOUS
<1>1. Scannable(view) /\ cfg \in ScanMask
  BY ViewsAssumption, ConfigsAssumption DEF Init
<1>2. EmptyResult \in ScanResult /\ NoOffset \in Nat
  BY NoOffsetAssumption DEF EmptyResult, ScanResult
<1>3. TypeOK
  <2>1. segment = [bare_len |-> 0, bare_dots |-> 0, in_param |-> FALSE,
                   alternate_dot |-> FALSE, start |-> 1]
    BY DEF Init, FreshSegment
  <2>2. segment \in Segment /\ segment.bare_dots <= segment.bare_len
    BY <2>1 DEF Segment
  <2>3. cursor \in Nat \ {0}
    BY DEF Init
  <2>4. previous_slash \in BOOLEAN /\ done \in BOOLEAN
    BY Zenon DEF Init
  <2>5. result \in ScanResult
    BY <1>2 DEF Init
  <2> QED BY <1>1, <2>2, <2>3, <2>4, <2>5 DEF TypeOK
<1>4. EarliestAgrees /\ PopsOwed
  BY <1>2 DEF Init, EarliestAgrees, PopsOwed, EmptyResult, FreshSegment
<1>5. SegmentStarts
  BY <1>1 DEF Init, SegmentStarts, FreshSegment, Positions, Scannable, WellFormed
<1> QED BY <1>3, <1>4, <1>5 DEF IInv

LEMMA SeparatorStep == IInv /\ ReadSeparator => IInv'
<1> SUFFICES ASSUME IInv, ReadSeparator PROVE IInv'
  OBVIOUS
<1> DEFINE start == SourceOffset(view, cursor + Here.width)
<1>1. Reading /\ Advance
  BY DEF ReadSeparator
<1>2. ~(Here.byte = Dot)
  BY DEF ReadSeparator, Separates, Dot, Slash, Backslash
<1>3. cfg.enabled \in SUBSET Classes
  BY DEF IInv, TypeOK, ScanMask
<1>4. /\ result' \in ScanResult
      /\ Anchored(result', cfg.enabled, view)
      /\ "DotSegment" \in result'.classes <=> result'.dot_pops >= 1
  <2>1. /\ Classified \in ScanResult /\ Anchored(Classified, cfg.enabled, view)
        /\ "DotSegment" \in Classified.classes
             <=> (Classified.dot_pops >= 1 \/ segment.alternate_dot)
    BY <1>1, <1>2, ReadFacts
  <2>2. segment \in Segment /\ (segment.bare_len >= 1 => segment.start \in Positions(view))
    BY DEF IInv, TypeOK, SegmentStarts
  <2>3. result' = FinishSegment(Classified, segment, cfg.enabled)
    BY DEF ReadSeparator
  <2> QED BY <1>3, <2>1, <2>2, <2>3, FinishFacts DEF IInv, TypeOK
<1>5. segment' = FreshSegment(start)
  BY DEF ReadSeparator
<1>6. start \in Nat \ {0} /\ (cursor' <= Len(view.bytes) => start \in Positions(view))
  BY <1>1, AdvanceFacts, SourceOffsetInside DEF IInv, TypeOK
<1>7. TypeOK'
  BY <1>1, <1>4, <1>5, <1>6, AdvanceFacts DEF IInv, TypeOK, FreshSegment, Segment
<1>8. EarliestAgrees'
  BY <1>1, <1>4, AdvanceFacts DEF EarliestAgrees, Anchored, Positions
<1>9. SegmentStarts'
  BY <1>1, <1>5, <1>6, AdvanceFacts DEF SegmentStarts, FreshSegment, Positions
<1>10. PopsOwed'
  BY <1>1, <1>4, <1>5, AdvanceFacts DEF PopsOwed, FreshSegment
<1> QED BY <1>7, <1>8, <1>9, <1>10 DEF IInv

LEMMA DelimiterStep == IInv /\ ReadDelimiter => IInv'
<1> SUFFICES ASSUME IInv, ReadDelimiter PROVE IInv'
  OBVIOUS
<1>1. Reading /\ Advance /\ result' = Classified
  BY DEF ReadDelimiter
<1>2. ~(Here.byte = Dot)
  BY DEF ReadDelimiter, Delimits, Dot, Semicolon, Hash, Question
<1>3. segment \in Segment /\ segment' = [segment EXCEPT !.in_param = TRUE]
  BY DEF ReadDelimiter, IInv, TypeOK
<1>4. /\ segment' \in Segment
      /\ segment'.bare_len = segment.bare_len /\ segment'.bare_dots = segment.bare_dots
      /\ segment'.start = segment.start /\ segment'.alternate_dot = segment.alternate_dot
  BY <1>3 DEF Segment
<1>5. TypeOK'
  BY <1>1, <1>4, ReadFacts, AdvanceFacts DEF IInv, TypeOK
<1>6. EarliestAgrees'
  BY <1>1, ReadFacts, AdvanceFacts DEF EarliestAgrees, Anchored, Positions
<1>7. SegmentStarts'
  BY <1>1, <1>4, ReadFacts, AdvanceFacts DEF IInv, SegmentStarts, Positions, Reading
<1>8. PopsOwed'
  BY <1>1, <1>2, <1>4, ReadFacts, AdvanceFacts DEF PopsOwed
<1> QED BY <1>5, <1>6, <1>7, <1>8 DEF IInv

LEMMA ContentStep == IInv /\ ReadContent => IInv'
<1> SUFFICES ASSUME IInv, ReadContent PROVE IInv'
  OBVIOUS
<1>1. Reading /\ Advance /\ result' = Classified
  BY DEF ReadContent
<1>2. segment \in Segment /\ segment.bare_dots <= segment.bare_len
  BY DEF IInv, TypeOK
<1>3. /\ segment' \in Segment /\ segment'.bare_dots <= segment'.bare_len
      /\ segment'.start = segment.start
      /\ segment'.alternate_dot <=> (segment.alternate_dot \/ (Here.byte = Dot /\ Here.encoded))
  <2> DEFINE len  == IF segment.in_param THEN segment.bare_len ELSE segment.bare_len + 1
             dots == IF segment.in_param \/ Here.byte # Dot
                       THEN segment.bare_dots ELSE segment.bare_dots + 1
             alt  == segment.alternate_dot \/ (Here.byte = Dot /\ Here.encoded)
  <2>1. segment' = [bare_len |-> len, bare_dots |-> dots, in_param |-> segment.in_param,
                    alternate_dot |-> alt, start |-> segment.start]
    BY <1>2 DEF ReadContent, Segment
  <2>2. len \in Nat /\ dots \in Nat /\ dots <= len
    BY <1>2 DEF Segment
  <2>3. alt \in BOOLEAN /\ segment.in_param \in BOOLEAN /\ segment.start \in Nat \ {0}
    BY <1>1, <1>2, ReadFacts DEF Segment
  <2> HIDE DEF len, dots, alt
  <2>4. segment' \in Segment /\ segment'.bare_dots <= segment'.bare_len
    BY <2>1, <2>2, <2>3 DEF Segment
  <2>5. segment'.start = segment.start /\ (segment'.alternate_dot <=> alt)
    BY <2>1
  <2> QED BY <2>4, <2>5 DEF alt
<1>4. TypeOK'
  BY <1>1, <1>3, ReadFacts, AdvanceFacts DEF IInv, TypeOK
<1>5. EarliestAgrees'
  BY <1>1, ReadFacts, AdvanceFacts DEF EarliestAgrees, Anchored, Positions
<1>6. SegmentStarts'
  BY <1>1, <1>3, AdvanceFacts DEF IInv, SegmentStarts, Positions, Reading
<1>7. PopsOwed'
  BY <1>1, <1>3, ReadFacts, AdvanceFacts DEF PopsOwed
<1> QED BY <1>4, <1>5, <1>6, <1>7 DEF IInv

LEMMA FinishStep == IInv /\ Finish => IInv'
<1> SUFFICES ASSUME IInv, Finish PROVE IInv'
  OBVIOUS
<1>1. /\ ~done /\ done' = TRUE
      /\ view' = view /\ cfg' = cfg /\ cursor' = cursor
      /\ segment' = segment /\ previous_slash' = previous_slash
      /\ result' = FinishSegment(result, segment, cfg.enabled)
  BY DEF Finish
<1>2. /\ result' \in ScanResult
      /\ Anchored(result', cfg.enabled, view)
      /\ "DotSegment" \in result'.classes <=> result'.dot_pops >= 1
      /\ segment.alternate_dot => result'.dot_pops >= 1
  <2>1. cfg.enabled \in SUBSET Classes /\ Anchored(result, cfg.enabled, view)
    BY DEF IInv, TypeOK, ScanMask, EarliestAgrees, Anchored, Positions
  <2>2. segment.bare_len >= 1 => segment.start \in Positions(view)
    BY DEF IInv, SegmentStarts
  <2>3. "DotSegment" \in result.classes <=> (result.dot_pops >= 1 \/ segment.alternate_dot)
    BY DEF IInv, PopsOwed
  <2> QED BY <1>1, <2>1, <2>2, <2>3, FinishFacts DEF IInv, TypeOK
<1>3. TypeOK'
  BY <1>1, <1>2 DEF IInv, TypeOK
<1>4. EarliestAgrees'
  BY <1>1, <1>2 DEF EarliestAgrees, Anchored, Positions
<1>5. SegmentStarts'
  BY <1>1 DEF IInv, SegmentStarts, Positions
<1>6. PopsOwed'
  BY <1>1, <1>2 DEF PopsOwed
<1> QED BY <1>3, <1>4, <1>5, <1>6 DEF IInv

LEMMA InductiveInvariant == Spec => []IInv
<1>1. IInv /\ [Next]_vars => IInv'
  <2> SUFFICES ASSUME IInv, [Next]_vars PROVE IInv'
    OBVIOUS
  <2>1. CASE ReadSeparator  BY <2>1, SeparatorStep
  <2>2. CASE ReadDelimiter  BY <2>2, DelimiterStep
  <2>3. CASE ReadContent    BY <2>3, ContentStep
  <2>4. CASE Finish         BY <2>4, FinishStep
  <2>5. CASE UNCHANGED vars
    BY <2>5 DEF vars, IInv, TypeOK, EarliestAgrees, SegmentStarts, PopsOwed, Positions
  <2> QED BY <2>1, <2>2, <2>3, <2>4, <2>5 DEF Next
<1> QED BY InitIInv, <1>1, PTL DEF Spec

\* Type correctness of the scan (scan_interpretation), for every view and configuration.
THEOREM TypeCorrect == Spec => []TypeOK
BY InductiveInvariant, PTL DEF IInv

\* Whatever the scan has found so far, an enabled class is present exactly when an
\* earliest occurrence inside the request is (ScanResult::hit, DotSegment::finish).
THEOREM EarliestAlwaysAgrees == Spec => []EarliestAgrees
BY InductiveInvariant, PTL DEF IInv

\* When the scan returns it has counted a climb exactly when it found a dot-segment
\* (the documented invariant of ScanResult::dot_pops).
THEOREM PopsAlwaysAgree == Spec => []PopsAgree
<1>1. IInv => PopsAgree
  BY DEF IInv, PopsOwed, PopsAgree
<1> QED BY InductiveInvariant, <1>1, PTL

-----------------------------------------------------------------------------
(***************************************************************************)
(* What the scan has found so far, told by the units of the view: the      *)
(* units before a position, and the segments they make up.                 *)
(***************************************************************************)
\* The state of the current segment tells what is in it.
Describes(seg, v, u, g, enabled) ==
  /\ seg.start = SourceOffset(v, g.start)
  /\ seg.in_param <=> g.content \cap DelimitersOf(u, enabled) # {}
  /\ IsFiniteSet(BareUnits(u, g, enabled))
  /\ seg.bare_len = Cardinality(BareUnits(u, g, enabled))
  /\ seg.bare_dots = Cardinality(BareUnits(u, g, enabled) \cap Dots(u))
  /\ seg.alternate_dot <=> g.content \cap Alternates(u) # {}

\* The units before a position, their segments, and the last of these.
Before(u, c) == {p \in u : p.at < c}
SegmentsTo(u, c, enabled) == SegmentsOf(Before(u, c), Separators(Before(u, c), enabled))
IsLast(g, u, c, enabled) ==
  /\ g \in SegmentsTo(u, c, enabled) /\ g.start <= c
  /\ \A h \in SegmentsTo(u, c, enabled) : h.start <= g.start

\* No unit reaches over a position.
Boundary(u, c) == \A p \in u : p.at < c => p.at + p.unit.width <= c

Tracks(v, config, c, seg, previous, res) ==
  LET u == Units(v, config.enc)
  IN  /\ Boundary(u, c)
      /\ previous = AfterSlash(u, c)
      /\ \E g : /\ IsLast(g, u, c, config.enabled)
                /\ Describes(seg, v, u, g, config.enabled)
                /\ Tallies(res, v, u, Before(u, c), SegmentsTo(u, c, config.enabled) \ {g}, config.enabled)

\* The second inductive invariant: unfinished, the scan has found what lies before the
\* cursor; finished, what there is.
Found == IF done THEN result = ScanOf(view, cfg.enabled, cfg.enc)
         ELSE Tracks(view, cfg, cursor, segment, previous_slash, result)

-----------------------------------------------------------------------------
(***************************************************************************)
(* Units do not overlap, and the cursor moves from one to the next.        *)
(***************************************************************************)
\* At a boundary a unit begins, and it ends at the next.
LEMMA NextUnit ==
  ASSUME NEW v, WellFormed(v), NEW e \in Encodings, NEW c \in 1..Len(v.bytes),
         Boundary(Units(v, e), c), NEW p, p = [at |-> c, unit |-> Unit(v, c, e)]
  PROVE  /\ p \in Units(v, e)
         /\ Before(Units(v, e), c + p.unit.width) = Before(Units(v, e), c) \cup {p}
         /\ Boundary(Units(v, e), c + p.unit.width)
         /\ AfterSlash(Units(v, e), c + p.unit.width) <=> (p.unit.byte = Slash)
<1> DEFINE u == Units(v, e)
           read == {[at |-> i, unit |-> Unit(v, i, e)] : i \in DOMAIN v.bytes}
<1>1. Len(v.bytes) \in Nat /\ DOMAIN v.bytes = 1..Len(v.bytes) /\ Spaced(u, Len(v.bytes))
  BY UnitsSpaced DEF WellFormed
<1>2. p \in u
  <2>1. p \in read
    BY <1>1
  <2>2. ASSUME NEW q \in read, q.at < p.at, p.at < q.at + q.unit.width PROVE FALSE
    <3>1. q.at \in DOMAIN v.bytes /\ q.unit = Unit(v, q.at, e)
      OBVIOUS
    <3>2. q \notin u
      BY <1>1, <2>2, <3>1, UnitShape DEF Boundary
    <3>3. PICK r \in read : r.at < q.at /\ q.at < r.at + r.unit.width
      BY <3>2 DEF Units
    <3>4. r.at \in DOMAIN v.bytes /\ r.unit = Unit(v, r.at, e)
      OBVIOUS
    <3>5. q.unit.width = 1
      BY <3>1, <3>3, <3>4, InsideUnit
    <3> QED BY <1>1, <2>2, <3>1, <3>5
  <2> QED BY <2>1, <2>2 DEF Units
<1> HIDE DEF u
<1>3. c \in Nat /\ p.at = c /\ p.unit.width \in 1..4
  BY <1>1, <1>2 DEF Spaced
<1>4. ASSUME NEW q \in u
      PROVE  /\ q.at \in Nat /\ q.unit.width \in 1..4
             /\ \/ q.at < c /\ q.at + q.unit.width <= c
                \/ q = p
                \/ q.at >= c + p.unit.width
  <2>1. q.at \in Nat /\ q.unit.width \in 1..4
    BY <1>1 DEF Spaced
  <2>2. CASE q.at < c
    BY <2>1, <2>2 DEF Boundary, u
  <2>3. CASE q.at = c
    BY <1>1, <1>2, <1>3, <2>3, <2>1 DEF Spaced
  <2>4. CASE q.at > c
    BY <1>1, <1>2, <1>3, <2>4, <2>1 DEF Spaced
  <2> QED BY <1>3, <2>1, <2>2, <2>3, <2>4
<1>5. Before(u, c + p.unit.width) = Before(u, c) \cup {p}
  BY <1>2, <1>3, <1>4 DEF Before
<1>6. Boundary(u, c + p.unit.width)
  BY <1>3, <1>4, SMTT(30) DEF Boundary
<1>7. AfterSlash(u, c + p.unit.width) <=> (p.unit.byte = Slash)
  <2>1. ASSUME NEW q \in u, q.at + q.unit.width = c + p.unit.width PROVE q = p
    <3>1. q.at \in Nat /\ q.unit.width \in 1..4
      BY <1>1 DEF Spaced
    <3>2. q = p \/ q.at + q.unit.width <= c
      BY <1>3, <1>4, <2>1
    <3> QED BY <1>3, <2>1, <3>1, <3>2
  <2> QED BY <1>2, <1>3, <2>1 DEF AfterSlash
<1> QED BY <1>2, <1>5, <1>6, <1>7 DEF u

-----------------------------------------------------------------------------
(***************************************************************************)
(* Segments, as the cursor moves over a unit.                              *)
(***************************************************************************)
Content(u, c, enabled, s) ==
  {p \in Before(u, c) : p.at >= s /\ ~\E q \in Separators(Before(u, c), enabled) : s <= q.at /\ q.at <= p.at}
Starts(u, c, enabled) == {1} \cup {q.at + q.unit.width : q \in Separators(Before(u, c), enabled)}

\* A segment is determined by its start.
LEMMA SegmentAt ==
  ASSUME NEW u, NEW c, NEW enabled
  PROVE  SegmentsTo(u, c, enabled) =
           {[start |-> s, content |-> Content(u, c, enabled, s)] : s \in Starts(u, c, enabled)}
BY DEF SegmentsTo, SegmentsOf, Content, Starts

\* Nothing separates what the last segment holds from the position.
LEMMA LastIsOpen ==
  ASSUME NEW u, NEW n \in Nat, Spaced(u, n), NEW c \in Nat, NEW enabled, NEW g, IsLast(g, u, c, enabled)
  PROVE  /\ g = [start |-> g.start, content |-> Content(u, c, enabled, g.start)]
         /\ g.content = Content(u, c, enabled, g.start)
         /\ g.start \in Starts(u, c, enabled) /\ g.start \in Nat \ {0} /\ g.start <= c
         /\ \A s \in Starts(u, c, enabled) : s \in Nat \ {0} /\ s <= g.start
         /\ \A q \in Separators(Before(u, c), enabled) : q.at < g.start
<1>1. PICK s \in Starts(u, c, enabled) : g = [start |-> s, content |-> Content(u, c, enabled, s)]
  BY SegmentAt DEF IsLast
<1>2. \A q \in u : q.at \in Nat \ {0} /\ q.unit.width \in Nat \ {0}
  BY DEF Spaced
<1>3. \A q \in Separators(Before(u, c), enabled) : q \in u /\ q.at + q.unit.width \in Starts(u, c, enabled)
  BY DEF Separators, Before, Starts
<1>4. ASSUME NEW r \in Starts(u, c, enabled) PROVE r \in Nat \ {0} /\ r <= s
  <2>1. r \in Nat \ {0}
    BY <1>2, <1>3 DEF Starts
  <2>2. [start |-> r, content |-> Content(u, c, enabled, r)] \in SegmentsTo(u, c, enabled)
    BY SegmentAt
  <2> QED BY <1>1, <2>1, <2>2 DEF IsLast
<1>5. s \in Nat \ {0} /\ s <= c
  BY <1>1, <1>4 DEF IsLast
<1>6. ASSUME NEW q \in Separators(Before(u, c), enabled) PROVE q.at < s
  BY <1>2, <1>3, <1>4, <1>5
<1> QED BY <1>1, <1>4, <1>5, <1>6

\* An earlier segment ends with a separator.
LEMMA EarlierIsClosed ==
  ASSUME NEW u, NEW n \in Nat, Spaced(u, n), NEW c \in Nat, NEW enabled, NEW g, IsLast(g, u, c, enabled),
         NEW s \in Starts(u, c, enabled), s # g.start
  PROVE  \E q \in Separators(Before(u, c), enabled) : s <= q.at /\ q.at < c
<1>1. /\ g.start \in Starts(u, c, enabled) /\ g.start \in Nat
      /\ s \in Nat \ {0} /\ s < g.start
  BY LastIsOpen
<1>2. PICK q \in Separators(Before(u, c), enabled) : g.start = q.at + q.unit.width
  BY <1>1 DEF Starts
<1>3. q \in u /\ q.at < c /\ q.at \in Nat \ {0} /\ q.unit.width \in 1..4
  BY <1>2 DEF Separators, Before, Spaced
<1>4. CASE s = 1
  BY <1>2, <1>3, <1>4
<1>5. CASE s # 1
  <2>1. PICK r \in Separators(Before(u, c), enabled) : s = r.at + r.unit.width
    BY <1>5 DEF Starts
  <2>2. r \in u /\ r.at \in Nat \ {0} /\ r.unit.width \in 1..4
    BY <2>1 DEF Separators, Before, Spaced
  <2>3. r.at < q.at => s <= q.at
    BY <1>3, <2>1, <2>2 DEF Spaced
  <2>4. r.at # q.at
    BY <1>1, <1>2, <1>3, <2>1, <2>2 DEF Spaced
  <2>5. r.at > q.at => g.start <= r.at
    BY <1>2, <1>3, <2>2 DEF Spaced
  <2> QED BY <1>1, <1>3, <2>1, <2>2, <2>3, <2>4, <2>5
<1> QED BY <1>4, <1>5

\* A unit that does not separate joins the last segment.
LEMMA JoinLast ==
  ASSUME NEW u, NEW n \in Nat, Spaced(u, n), NEW c \in Nat, NEW enabled, NEW g, IsLast(g, u, c, enabled),
         NEW p \in u, p.at = c, Before(u, c + p.unit.width) = Before(u, c) \cup {p},
         ~Separates(p.unit, enabled),
         NEW h, h = [start |-> g.start, content |-> g.content \cup {p}]
  PROVE  /\ IsLast(h, u, c + p.unit.width, enabled)
         /\ SegmentsTo(u, c + p.unit.width, enabled) \ {h} = SegmentsTo(u, c, enabled) \ {g}
<1> DEFINE d == c + p.unit.width
           S == Separators(Before(u, c), enabled)
<1>1. d \in Nat /\ c < d
  BY DEF Spaced
<1>2. Separators(Before(u, d), enabled) = S
  BY DEF Separators
<1>3. Starts(u, d, enabled) = Starts(u, c, enabled)
  BY <1>2 DEF Starts
<1>4. /\ g = [start |-> g.start, content |-> Content(u, c, enabled, g.start)]
      /\ g.content = Content(u, c, enabled, g.start)
      /\ g.start \in Starts(u, c, enabled) /\ g.start \in Nat \ {0} /\ g.start <= c
      /\ \A s \in Starts(u, c, enabled) : s \in Nat \ {0} /\ s <= g.start
      /\ \A q \in S : q.at < g.start
  BY LastIsOpen
<1>5. \A q \in S : q \in u /\ q.at \in Nat /\ q.at < c
  BY DEF Separators, Before, Spaced
<1>6. Content(u, d, enabled, g.start) = Content(u, c, enabled, g.start) \cup {p}
  <2>1. ~\E q \in S : g.start <= q.at /\ q.at <= p.at
    BY <1>4, <1>5
  <2> HIDE DEF S
  <2> QED BY <1>2, <1>4, <2>1 DEF Content, S
<1>7. ASSUME NEW s \in Starts(u, c, enabled), s # g.start
      PROVE  Content(u, d, enabled, s) = Content(u, c, enabled, s)
  <2>1. PICK q \in S : s <= q.at /\ q.at < c
    BY <1>7, EarlierIsClosed
  <2>2. \E r \in S : s <= r.at /\ r.at <= p.at
    BY <2>1, <1>5
  <2> HIDE DEF S
  <2> QED BY <1>2, <2>2 DEF Content, S
<1>8. h = [start |-> g.start, content |-> Content(u, d, enabled, g.start)]
  BY <1>4, <1>6
<1> DEFINE At(s, e) == [start |-> s, content |-> Content(u, e, enabled, s)]
<1>9. /\ SegmentsTo(u, c, enabled) = {At(s, c) : s \in Starts(u, c, enabled)}
      /\ SegmentsTo(u, d, enabled) = {At(s, d) : s \in Starts(u, c, enabled)}
  BY <1>3, SegmentAt
<1>10. IsLast(h, u, d, enabled)
  <2>1. h \in SegmentsTo(u, d, enabled) /\ h.start = g.start
    <3>1. At(g.start, d) \in {At(s, d) : s \in Starts(u, c, enabled)}
      BY <1>4
    <3>2. h = At(g.start, d) /\ h.start = g.start
      BY <1>8
    <3> HIDE DEF At
    <3> QED BY <1>9, <3>1, <3>2
  <2>2. \A f \in SegmentsTo(u, d, enabled) : f.start <= g.start
    BY <1>4, <1>9
  <2> QED BY <1>1, <1>4, <2>1, <2>2 DEF IsLast
<1>11. SegmentsTo(u, d, enabled) \ {h} = {At(s, d) : s \in Starts(u, c, enabled) \ {g.start}}
  BY <1>8, <1>9
<1>12. SegmentsTo(u, c, enabled) \ {g} = {At(s, c) : s \in Starts(u, c, enabled) \ {g.start}}
  BY <1>4, <1>9
<1>13. \A s \in Starts(u, c, enabled) \ {g.start} : At(s, d) = At(s, c)
  BY <1>7
<1> HIDE DEF At, d
<1> QED BY <1>10, <1>11, <1>12, <1>13 DEF d

\* A separator closes the last segment and opens an empty one.
LEMMA OpenNext ==
  ASSUME NEW u, NEW n \in Nat, Spaced(u, n), NEW c \in Nat, NEW enabled, NEW g, IsLast(g, u, c, enabled),
         NEW p \in u, p.at = c, Before(u, c + p.unit.width) = Before(u, c) \cup {p},
         Separates(p.unit, enabled),
         NEW h, h = [start |-> c + p.unit.width, content |-> {}]
  PROVE  /\ IsLast(h, u, c + p.unit.width, enabled)
         /\ SegmentsTo(u, c + p.unit.width, enabled) \ {h} = SegmentsTo(u, c, enabled)
<1> DEFINE d == c + p.unit.width
           S == Separators(Before(u, c), enabled)
           At(s, e) == [start |-> s, content |-> Content(u, e, enabled, s)]
<1>1. d \in Nat /\ c < d
  BY DEF Spaced
<1>2. Separators(Before(u, d), enabled) = S \cup {p}
  BY DEF Separators
<1>3. Starts(u, d, enabled) = Starts(u, c, enabled) \cup {d}
  BY <1>2 DEF Starts
<1>4. \A s \in Starts(u, c, enabled) : s \in Nat \ {0} /\ s <= c
  <2>1. \A s \in Starts(u, c, enabled) : s \in Nat \ {0} /\ s <= g.start /\ g.start <= c /\ g.start \in Nat
    BY LastIsOpen
  <2> QED BY <2>1
<1>5. ASSUME NEW s \in Starts(u, c, enabled) PROVE At(s, d) = At(s, c)
  <2>1. s <= p.at /\ p.at <= p.at /\ p.at \in Nat
    BY <1>4
  <2>2. \A q \in Before(u, c) : q.at \in Nat /\ ~(p.at <= q.at)
    BY DEF Before, Spaced
  <2> HIDE DEF S
  <2>3. Content(u, d, enabled, s) = Content(u, c, enabled, s)
    BY <1>2, <2>1, <2>2 DEF Content, S
  <2> QED BY <2>3
<1>6. Content(u, d, enabled, d) = {}
  BY <1>1 DEF Content, Before, Spaced
<1>7. h = At(d, d)
  BY <1>6
<1>8. /\ SegmentsTo(u, c, enabled) = {At(s, c) : s \in Starts(u, c, enabled)}
      /\ SegmentsTo(u, d, enabled) = {At(s, d) : s \in Starts(u, c, enabled) \cup {d}}
  BY <1>3, SegmentAt
<1>9. IsLast(h, u, d, enabled)
  <2>1. h \in SegmentsTo(u, d, enabled) /\ h.start = d
    <3>1. At(d, d) \in {At(s, d) : s \in Starts(u, c, enabled) \cup {d}}
      OBVIOUS
    <3>2. h.start = d
      OBVIOUS
    <3>3. SegmentsTo(u, d, enabled) = {At(s, d) : s \in Starts(u, c, enabled) \cup {d}}
      BY <1>8
    <3> HIDE DEF At, d, S
    <3> QED BY <1>7, <3>1, <3>2, <3>3
  <2>2. \A f \in SegmentsTo(u, d, enabled) : f.start <= d
    <3>1. \A s \in Starts(u, c, enabled) \cup {d} : s <= d
      BY <1>1, <1>4
    <3> QED BY <1>8, <3>1
  <2> QED BY <1>1, <2>1, <2>2 DEF IsLast
<1>10. SegmentsTo(u, d, enabled) = SegmentsTo(u, c, enabled) \cup {h}
  <2> HIDE DEF At, d, S
  <2>1. {At(s, d) : s \in Starts(u, c, enabled)} = {At(s, c) : s \in Starts(u, c, enabled)}
    BY <1>5
  <2>2. {At(s, d) : s \in Starts(u, c, enabled) \cup {d}} = {At(s, d) : s \in Starts(u, c, enabled)} \cup {At(d, d)}
    OBVIOUS
  <2> QED BY <1>7, <1>8, <2>1, <2>2
<1>11. h \notin SegmentsTo(u, c, enabled)
  <2>1. \A f \in SegmentsTo(u, c, enabled) : f.start <= c
    BY <1>4, <1>8
  <2>2. h.start = d
    OBVIOUS
  <2> QED BY <1>1, <2>1, <2>2
<1> QED BY <1>9, <1>10, <1>11

-----------------------------------------------------------------------------
(***************************************************************************)
(* The state of the current segment.                                       *)
(***************************************************************************)
\* Its counters tell whether the segment is a literal dot-segment.
LEMMA LiteralDescribed ==
  ASSUME NEW seg, NEW v, NEW u, NEW g, NEW enabled, Describes(seg, v, u, g, enabled)
  PROVE  Literal(seg) <=> IsLiteral(u, g, enabled)
<1> DEFINE bare == BareUnits(u, g, enabled)
           dotted == bare \cap Dots(u)
<1>1. /\ IsFiniteSet(bare) /\ seg.bare_len = Cardinality(bare) /\ seg.bare_dots = Cardinality(dotted)
      /\ IsLiteral(u, g, enabled) <=> bare \subseteq Dots(u) /\ Cardinality(bare) \in 1..2
  BY DEF Describes, IsLiteral
<1> HIDE DEF bare
<1>2. Cardinality(bare) = Cardinality(dotted) => bare = dotted
  BY <1>1, FS_Subset
<1>3. bare \subseteq Dots(u) <=> bare = dotted
  OBVIOUS
<1> HIDE DEF dotted
<1> QED BY <1>1, <1>2, <1>3 DEF Literal

\* What the segment before the position holds lies before it.
LEMMA ContentBefore ==
  ASSUME NEW u, NEW n \in Nat, Spaced(u, n), NEW c \in Nat, NEW enabled, NEW g, IsLast(g, u, c, enabled)
  PROVE  \A p \in g.content : p \in u /\ p.at \in Nat /\ p.at < c
<1>1. g.content = Content(u, c, enabled, g.start)
  BY LastIsOpen
<1> QED BY <1>1 DEF Content, Before, Spaced

\* Bare content grows until the first delimiter.
LEMMA BareGrows ==
  ASSUME NEW u, NEW enabled, NEW g, NEW p \in u, p.at \in Nat,
         \A q \in g.content : q.at \in Nat /\ q.at < p.at,
         NEW h, h.content = g.content \cup {p}
  PROVE  BareUnits(u, h, enabled) =
           IF Delimits(p.unit, enabled) \/ g.content \cap DelimitersOf(u, enabled) # {}
             THEN BareUnits(u, g, enabled) ELSE BareUnits(u, g, enabled) \cup {p}
<1> DEFINE D == DelimitersOf(u, enabled)
<1>1. p \in D <=> Delimits(p.unit, enabled)
  BY DEF DelimitersOf
<1> HIDE DEF D
<1>2. \A q \in g.content :
        (\E r \in h.content \cap D : r.at <= q.at) <=> (\E r \in g.content \cap D : r.at <= q.at)
  OBVIOUS
<1>3. (\E r \in h.content \cap D : r.at <= p.at) <=> (p \in D \/ g.content \cap D # {})
  OBVIOUS
<1>4. BareContent(h.content, D) =
        IF p \in D \/ g.content \cap D # {} THEN BareContent(g.content, D) ELSE BareContent(g.content, D) \cup {p}
  BY <1>2, <1>3 DEF BareContent
<1> QED BY <1>1, <1>4 DEF BareUnits, D

\* A unit that does not separate, told by the state of the segment (DotSegment::delimiter,
\* DotSegment::content).
Consumed(seg, unit, enabled) ==
  IF Delimits(unit, enabled) THEN [seg EXCEPT !.in_param = TRUE]
  ELSE [seg EXCEPT
          !.bare_len      = IF seg.in_param THEN @ ELSE @ + 1,
          !.bare_dots     = IF seg.in_param \/ unit.byte # Dot THEN @ ELSE @ + 1,
          !.alternate_dot = @ \/ (unit.byte = Dot /\ unit.encoded)]

LEMMA DescribesNext ==
  ASSUME NEW seg \in Segment, NEW v, NEW u, NEW g, NEW enabled, Describes(seg, v, u, g, enabled),
         NEW p \in u, p.at \in Nat, \A q \in g.content : q.at \in Nat /\ q.at < p.at,
         NEW h, h.start = g.start, h.content = g.content \cup {p}
  PROVE  Describes(Consumed(seg, p.unit, enabled), v, u, h, enabled)
<1> DEFINE next == Consumed(seg, p.unit, enabled)
           bare == BareUnits(u, g, enabled)
           after == BareUnits(u, h, enabled)
           delimits == Delimits(p.unit, enabled)
<1>1. h.start = g.start /\ h.content = g.content \cup {p} /\ p \notin g.content
  OBVIOUS
<1>2. seg.in_param \in BOOLEAN /\ seg.alternate_dot \in BOOLEAN /\ seg.bare_len \in Nat /\ seg.bare_dots \in Nat
  BY DEF Segment
<1>3. after = IF delimits \/ seg.in_param THEN bare ELSE bare \cup {p}
  <2>1. seg.in_param <=> g.content \cap DelimitersOf(u, enabled) # {}
    BY DEF Describes
  <2>2. BareUnits(u, h, enabled) =
          IF Delimits(p.unit, enabled) \/ g.content \cap DelimitersOf(u, enabled) # {}
            THEN BareUnits(u, g, enabled) ELSE BareUnits(u, g, enabled) \cup {p}
    BY <1>1, BareGrows
  <2> QED BY <2>1, <2>2
<1>4. p \notin bare
  BY <1>1 DEF BareUnits, BareContent
<1>5. IsFiniteSet(bare) /\ seg.bare_len = Cardinality(bare) /\ seg.bare_dots = Cardinality(bare \cap Dots(u))
  BY DEF Describes
<1>6. /\ p \in DelimitersOf(u, enabled) <=> delimits
      /\ p \in Dots(u) <=> p.unit.byte = Dot
      /\ p \in Alternates(u) <=> p.unit.byte = Dot /\ p.unit.encoded
  BY DEF DelimitersOf, Dots, Alternates
<1>7. delimits => p.unit.byte # Dot
  BY DEF Delimits, Semicolon, Hash, Question, Dot
<1> HIDE DEF bare, after, delimits
<1>8. IsFiniteSet(after) /\ next.bare_len = Cardinality(after)
  <2>1. next.bare_len = IF delimits \/ seg.in_param THEN seg.bare_len ELSE seg.bare_len + 1
    BY DEF Consumed, Segment, delimits
  <2>2. IsFiniteSet(bare \cup {p}) /\ Cardinality(bare \cup {p}) = Cardinality(bare) + 1
    BY <1>4, <1>5, FS_AddElement
  <2> HIDE DEF next
  <2> QED BY <1>3, <1>5, <2>1, <2>2
<1>9. next.bare_dots = Cardinality(after \cap Dots(u))
  <2>1. next.bare_dots = IF delimits \/ seg.in_param \/ p.unit.byte # Dot THEN seg.bare_dots ELSE seg.bare_dots + 1
    BY DEF Consumed, Segment, delimits
  <2>2. after \cap Dots(u) =
          IF delimits \/ seg.in_param \/ p.unit.byte # Dot THEN bare \cap Dots(u) ELSE (bare \cap Dots(u)) \cup {p}
    BY <1>3, <1>6
  <2>3. p \notin bare \cap Dots(u) /\ IsFiniteSet(bare \cap Dots(u))
    BY <1>4, <1>5, FS_Subset
  <2>4. Cardinality((bare \cap Dots(u)) \cup {p}) = Cardinality(bare \cap Dots(u)) + 1
    BY <2>3, FS_AddElement
  <2> HIDE DEF next
  <2> QED BY <1>5, <2>1, <2>2, <2>4
<1>10. next.alternate_dot <=> (seg.alternate_dot \/ (p.unit.byte = Dot /\ p.unit.encoded))
  <2>1. CASE delimits
    <3>1. next.alternate_dot = seg.alternate_dot
      BY <2>1 DEF Consumed, Segment, delimits
    <3> QED BY <1>7, <2>1, <3>1
  <2>2. CASE ~delimits
    BY <2>2 DEF Consumed, Segment, delimits
  <2> QED BY <2>1, <2>2
<1>11. next.in_param <=> (seg.in_param \/ delimits)
  BY <1>2 DEF Consumed, Segment, delimits
<1>12. next.start = seg.start
  BY DEF Consumed, Segment
<1>13. /\ h.content \cap DelimitersOf(u, enabled) # {} <=> (g.content \cap DelimitersOf(u, enabled) # {} \/ delimits)
       /\ h.content \cap Alternates(u) # {}
            <=> (g.content \cap Alternates(u) # {} \/ (p.unit.byte = Dot /\ p.unit.encoded))
  BY <1>1, <1>6
<1> HIDE DEF next
<1> QED BY <1>1, <1>8, <1>9, <1>10, <1>11, <1>12, <1>13 DEF Describes, bare, after, next

\* Nothing describes an empty segment but a fresh state.
LEMMA DescribesFresh ==
  ASSUME NEW v, NEW u, NEW enabled, NEW s, NEW g, g = [start |-> s, content |-> {}]
  PROVE  Describes(FreshSegment(SourceOffset(v, s)), v, u, g, enabled)
<1>1. g.start = s /\ g.content = {}
  OBVIOUS
<1>2. BareUnits(u, g, enabled) = {}
  BY <1>1 DEF BareUnits, BareContent
<1> QED BY <1>1, <1>2, FS_EmptySet DEF Describes, FreshSegment

-----------------------------------------------------------------------------
(***************************************************************************)
(* The result.                                                             *)
(***************************************************************************)
\* Whatever is recorded is a number.
LEMMA HitsAreOffsets ==
  ASSUME NEW v, Scannable(v), NEW u, NEW R, NEW G, NEW enabled,
         \A q \in R : q.at \in Nat \ {0}, \A g \in G : g.start \in Nat \ {0}
  PROVE  Hits(v, u, R, G, enabled) \subseteq Nat
<1>1. \A i \in Nat \ {0} : SourceOffset(v, i) \in Nat
  BY SourceOffsetInside
<1> QED BY <1>1 DEF Hits

\* The least of some numbers and perhaps one more.
LEMMA LeastJoined ==
  ASSUME NEW old \in SUBSET Nat, NEW e \in Nat, e \in old \cup {NoOffset}, \A k \in old \cup {NoOffset} : e <= k,
         NEW joins, NEW o \in Nat,
         NEW f, f = IF joins THEN Lesser(e, o) ELSE e,
         NEW new, new = old \cup (IF joins THEN {o} ELSE {})
  PROVE  f \in new \cup {NoOffset} /\ \A k \in new \cup {NoOffset} : f <= k
<1>1. NoOffset \in Nat
  BY NoOffsetAssumption
<1>2. CASE joins /\ e <= o
  BY <1>1, <1>2 DEF Lesser
<1>3. CASE joins /\ ~(e <= o)
  <2>1. f = o /\ o < e /\ new = old \cup {o}
    BY <1>3 DEF Lesser
  <2>2. ASSUME NEW k \in old \cup {NoOffset} PROVE o <= k
    <3>1. e <= k /\ k \in Nat
      BY <1>1
    <3> QED BY <2>1, <3>1
  <2> QED BY <2>1, <2>2
<1>4. CASE ~joins
  BY <1>4
<1> QED BY <1>2, <1>3, <1>4

\* Recording a unit.
LEMMA TallyUnit ==
  ASSUME NEW res \in ScanResult, NEW v, Scannable(v), NEW u, NEW R, NEW G, NEW enabled,
         Tallies(res, v, u, R, G, enabled),
         \A q \in R : q.at \in Nat \ {0}, \A g \in G : g.start \in Nat \ {0},
         NEW p, p.at \in Nat \ {0}
  PROVE  Tallies(Hit(res, ClassAt(u, p), SourceOffset(v, p.at), enabled), v, u, R \cup {p}, G, enabled)
<1> DEFINE class == ClassAt(u, p)
           o == SourceOffset(v, p.at)
           hit == Hit(res, class, o, enabled)
           old == Hits(v, u, R, G, enabled)
           new == Hits(v, u, R \cup {p}, G, enabled)
<1>1. /\ hit.classes = res.classes \cup class
      /\ hit.earliest = IF class \cap enabled # {} THEN Lesser(res.earliest, o) ELSE res.earliest
      /\ hit.dot_pops = res.dot_pops
  BY DEF Hit
<1>2. (UNION {ClassAt(u, q) : q \in R \cup {p}}) = (UNION {ClassAt(u, q) : q \in R}) \cup class
  OBVIOUS
<1>3. new = old \cup (IF class \cap enabled # {} THEN {o} ELSE {})
  <2>1. {q \in R \cup {p} : ClassAt(u, q) \cap enabled # {}} =
          {q \in R : ClassAt(u, q) \cap enabled # {}} \cup (IF class \cap enabled # {} THEN {p} ELSE {})
    OBVIOUS
  <2> HIDE DEF class
  <2> QED BY <2>1 DEF Hits
<1>10. o \in Nat /\ old \subseteq Nat
  BY SourceOffsetInside, HitsAreOffsets
<1> HIDE DEF class, o, hit, old, new
<1>4. res.earliest \in Nat /\ o \in Nat /\ NoOffset \in Nat
  BY <1>10, NoOffsetAssumption DEF ScanResult
<1>5. /\ res.earliest \in old \cup {NoOffset}
      /\ \A k \in old \cup {NoOffset} : res.earliest <= k
  BY DEF Tallies, old
<1>6. /\ hit.earliest \in new \cup {NoOffset}
      /\ \A k \in new \cup {NoOffset} : hit.earliest <= k
  <2>1. CASE class \cap enabled # {}
    <3>1. hit.earliest = Lesser(res.earliest, o) /\ new = old \cup {o}
      BY <1>1, <1>3, <2>1
    <3> QED BY <1>4, <1>5, <1>10, <3>1, LeastJoined
  <2>2. CASE ~(class \cap enabled # {})
    BY <1>1, <1>3, <1>5, <2>2
  <2> QED BY <2>1, <2>2
<1>7. hit.classes = (UNION {ClassAt(u, q) : q \in R \cup {p}})
                    \cup (IF \E g \in G : IsLiteral(u, g, enabled) THEN {"DotSegment"} ELSE {})
  <2>1. res.classes = (UNION {ClassAt(u, q) : q \in R})
                      \cup (IF \E g \in G : IsLiteral(u, g, enabled) THEN {"DotSegment"} ELSE {})
    BY DEF Tallies
  <2> QED BY <1>1, <1>2, <2>1
<1>8. /\ IsFiniteSet({g \in G : Climbs(u, g, enabled)})
      /\ hit.dot_pops = Cardinality({g \in G : Climbs(u, g, enabled)})
  BY <1>1 DEF Tallies
<1>9. Tallies(hit, v, u, R \cup {p}, G, enabled)
  BY <1>6, <1>7, <1>8 DEF Tallies, new
<1> QED BY <1>9 DEF hit, class, o

\* Closing a segment.
LEMMA TallySegment ==
  ASSUME NEW res \in ScanResult, NEW v, Scannable(v), NEW u, NEW R, NEW G, NEW enabled,
         Tallies(res, v, u, R, G, enabled),
         \A q \in R : q.at \in Nat \ {0}, \A f \in G : f.start \in Nat \ {0},
         NEW seg, NEW g, g \notin G, g.start \in Nat \ {0}, Describes(seg, v, u, g, enabled)
  PROVE  Tallies(FinishSegment(res, seg, enabled), v, u, R, G \cup {g}, enabled)
<1> DEFINE end == FinishSegment(res, seg, enabled)
           literal == IsLiteral(u, g, enabled)
           climbs == Climbs(u, g, enabled)
           located == literal /\ "DotSegment" \in enabled
           old == Hits(v, u, R, G, enabled)
           new == Hits(v, u, R, G \cup {g}, enabled)
           climbing == {f \in G : Climbs(u, f, enabled)}
<1>1. /\ Literal(seg) <=> literal
      /\ Literal(seg) \/ seg.alternate_dot <=> climbs
      /\ seg.start = SourceOffset(v, g.start)
  <2>1. Literal(seg) <=> literal
    BY LiteralDescribed
  <2> QED BY <2>1 DEF Climbs, Describes
<1>2. /\ end.classes = res.classes \cup (IF literal THEN {"DotSegment"} ELSE {})
      /\ end.earliest = IF located THEN Lesser(res.earliest, seg.start) ELSE res.earliest
      /\ end.dot_pops = IF climbs THEN res.dot_pops + 1 ELSE res.dot_pops
  <2> DEFINE found == IF Literal(seg) THEN Hit(res, {"DotSegment"}, seg.start, enabled) ELSE res
  <2>1. found = [classes |-> found.classes, earliest |-> found.earliest, dot_pops |-> found.dot_pops]
    BY DEF Hit, ScanResult
  <2>2. found.dot_pops = res.dot_pops
    BY DEF Hit
  <2>3. found.classes = res.classes \cup (IF literal THEN {"DotSegment"} ELSE {})
    BY <1>1 DEF Hit
  <2>4. found.earliest = IF located THEN Lesser(res.earliest, seg.start) ELSE res.earliest
    <3>1. {"DotSegment"} \cap enabled # {} <=> "DotSegment" \in enabled
      OBVIOUS
    <3> HIDE DEF literal
    <3> QED BY <1>1, <3>1 DEF Hit
  <2>5. end = IF Literal(seg) \/ seg.alternate_dot THEN [found EXCEPT !.dot_pops = @ + 1] ELSE found
    BY DEF FinishSegment
  <2> HIDE DEF found, end
  <2>6. CASE climbs
    <3>1. end = [classes |-> found.classes, earliest |-> found.earliest, dot_pops |-> found.dot_pops + 1]
      BY <1>1, <2>1, <2>5, <2>6
    <3> QED BY <2>2, <2>3, <2>4, <2>6, <3>1
  <2>7. CASE ~climbs
    <3>1. end = found
      BY <1>1, <2>5, <2>7
    <3> QED BY <2>2, <2>3, <2>4, <2>7, <3>1
  <2> QED BY <2>6, <2>7
<1>3. new = old \cup (IF located THEN {seg.start} ELSE {})
  <2>1. {h \in G \cup {g} : IsLiteral(u, h, enabled) /\ "DotSegment" \in enabled} =
          {h \in G : IsLiteral(u, h, enabled) /\ "DotSegment" \in enabled} \cup (IF located THEN {g} ELSE {})
    OBVIOUS
  <2> HIDE DEF located
  <2> QED BY <1>1, <2>1 DEF Hits
<1>4. old \in SUBSET Nat /\ seg.start \in Nat
  BY <1>1, HitsAreOffsets, SourceOffsetInside
<1>5. /\ res.earliest \in Nat
      /\ res.earliest \in old \cup {NoOffset} /\ \A k \in old \cup {NoOffset} : res.earliest <= k
  BY DEF Tallies, ScanResult
<1> HIDE DEF end, literal, climbs, located, old, new
<1>6. end.earliest \in new \cup {NoOffset} /\ \A k \in new \cup {NoOffset} : end.earliest <= k
  BY <1>2, <1>3, <1>4, <1>5, LeastJoined
<1>7. end.classes = (UNION {ClassAt(u, q) : q \in R})
                    \cup (IF \E f \in G \cup {g} : IsLiteral(u, f, enabled) THEN {"DotSegment"} ELSE {})
  <2>1. res.classes = (UNION {ClassAt(u, q) : q \in R})
                      \cup (IF \E f \in G : IsLiteral(u, f, enabled) THEN {"DotSegment"} ELSE {})
    BY DEF Tallies
  <2>2. (\E f \in G \cup {g} : IsLiteral(u, f, enabled)) <=> (literal \/ \E f \in G : IsLiteral(u, f, enabled))
    BY DEF literal
  <2> QED BY <1>2, <2>1, <2>2
<1>8. /\ IsFiniteSet({f \in G \cup {g} : Climbs(u, f, enabled)})
      /\ end.dot_pops = Cardinality({f \in G \cup {g} : Climbs(u, f, enabled)})
  <2>1. {f \in G \cup {g} : Climbs(u, f, enabled)} = IF climbs THEN climbing \cup {g} ELSE climbing
    BY DEF climbs
  <2>2. IsFiniteSet(climbing) /\ res.dot_pops = Cardinality(climbing)
    BY DEF Tallies
  <2>3. g \notin climbing
    OBVIOUS
  <2> HIDE DEF climbing
  <2>4. IsFiniteSet(climbing \cup {g}) /\ Cardinality(climbing \cup {g}) = Cardinality(climbing) + 1
    BY <2>2, <2>3, FS_AddElement
  <2> QED BY <1>2, <2>1, <2>2, <2>4
<1>9. Tallies(end, v, u, R, G \cup {g}, enabled)
  BY <1>6, <1>7, <1>8 DEF Tallies, new
<1> QED BY <1>9 DEF end

\* Only one result tells everything about a view.
LEMMA TallyIsScan ==
  ASSUME NEW v, Scannable(v), NEW enabled, NEW enc \in Encodings, NEW res \in ScanResult,
         NEW u, u = Units(v, enc), Tallies(res, v, u, u, AllSegments(u, enabled), enabled)
  PROVE  res = ScanOf(v, enabled, enc)
<1>1. PICK scan : scan = ScanOf(v, enabled, enc)
  OBVIOUS
<1>2. PICK places : places = Hits(v, u, u, AllSegments(u, enabled), enabled) \cup {NoOffset}
  OBVIOUS
<1>3. Tallies(scan, v, u, u, AllSegments(u, enabled), enabled)
  <2>1. WellFormed(v) /\ Len(v.original) \in Nat /\ Len(v.original) < NoOffset
    BY NoOffsetAssumption DEF Scannable, WellFormed
  <2> QED BY <1>1, <2>1, ScanTallies
<1>4. places \subseteq Nat
  <2>1. WellFormed(v) /\ Len(v.original) \in Nat
    BY DEF Scannable, WellFormed
  <2> QED BY <1>2, <2>1, HitsInside, NoOffsetAssumption
<1>5. res.classes = scan.classes /\ res.dot_pops = scan.dot_pops
  BY <1>3 DEF Tallies
<1>6. res.earliest = scan.earliest
  <2>1. /\ res.earliest \in places /\ \A o \in places : res.earliest <= o
        /\ scan.earliest \in places /\ \A o \in places : scan.earliest <= o
    BY <1>2, <1>3 DEF Tallies
  <2>2. PICK x, y \in Nat : x = res.earliest /\ y = scan.earliest
    BY <1>4, <2>1
  <2>3. x <= y /\ y <= x
    BY <2>1, <2>2
  <2> QED BY <2>2, <2>3
<1>7. /\ res = [classes |-> res.classes, earliest |-> res.earliest, dot_pops |-> res.dot_pops]
      /\ scan = [classes |-> scan.classes, earliest |-> scan.earliest, dot_pops |-> scan.dot_pops]
  <2>1. scan = Findings(v, u, enabled)
    BY <1>1 DEF ScanOf
  <2>2. PICK x, y, z : scan = [classes |-> x, earliest |-> y, dot_pops |-> z]
    BY <2>1, Zenon DEF Findings
  <2> QED BY <2>2 DEF ScanResult
<1> QED BY <1>1, <1>5, <1>6, <1>7

-----------------------------------------------------------------------------
(***************************************************************************)
(* Reading on.                                                             *)
(***************************************************************************)
LEMMA PlacesPositive ==
  ASSUME NEW u, NEW n \in Nat, Spaced(u, n), NEW c, NEW enabled
  PROVE  /\ \A q \in Before(u, c) : q.at \in Nat \ {0}
         /\ \A f \in SegmentsTo(u, c, enabled) : f.start \in Nat \ {0}
<1>1. \A q \in u : q.at \in Nat \ {0} /\ q.at + q.unit.width \in Nat \ {0}
  BY DEF Spaced
<1>2. \A s \in Starts(u, c, enabled) : s \in Nat \ {0}
  BY <1>1 DEF Starts, Separators, Before
<1>3. \A f \in SegmentsTo(u, c, enabled) : \E s \in Starts(u, c, enabled) : f.start = s
  BY SegmentAt
<1> QED BY <1>1, <1>2, <1>3 DEF Before

\* What the state is after the unit under the cursor.
LEMMA TracksUnit ==
  ASSUME NEW v, Scannable(v), NEW config \in ScanMask, NEW c \in 1..Len(v.bytes), NEW seg \in Segment,
         NEW previous, NEW res \in ScanResult, Tracks(v, config, c, seg, previous, res),
         NEW unit, unit = Unit(v, c, config.enc),
         NEW hit, hit = Hit(res, ClassOf(unit, previous), SourceOffset(v, c), config.enabled),
         hit \in ScanResult
  PROVE  /\ ~Separates(unit, config.enabled) =>
              Tracks(v, config, c + unit.width, Consumed(seg, unit, config.enabled), unit.byte = Slash, hit)
         /\ Separates(unit, config.enabled) =>
              Tracks(v, config, c + unit.width, FreshSegment(SourceOffset(v, c + unit.width)), unit.byte = Slash,
                     FinishSegment(hit, seg, config.enabled))
<1> DEFINE enabled == config.enabled
           u == Units(v, config.enc)
           d == c + unit.width
           segments == SegmentsTo(u, c, enabled)
<1>1. WellFormed(v) /\ config.enc \in Encodings
  BY DEF Scannable, ScanMask
<1>2. PICK n \in Nat : n = Len(v.bytes) /\ Spaced(u, n)
  BY <1>1, UnitsSpaced
<1>3. PICK p : p = [at |-> c, unit |-> unit]
  OBVIOUS
<1>4. p.at = c /\ p.unit = unit /\ c \in Nat \ {0}
  BY <1>2, <1>3
<1>5. Boundary(u, c) /\ previous = AfterSlash(u, c)
  BY DEF Tracks
<1>6. /\ p \in u /\ Before(u, d) = Before(u, c) \cup {p} /\ Boundary(u, d)
      /\ AfterSlash(u, d) <=> (unit.byte = Slash)
  BY <1>1, <1>3, <1>4, <1>5, NextUnit
<1>7. PICK g : /\ IsLast(g, u, c, enabled)
               /\ Describes(seg, v, u, g, enabled)
               /\ Tallies(res, v, u, Before(u, c), segments \ {g}, enabled)
  BY DEF Tracks
<1>8. (unit.byte = Slash) = AfterSlash(u, d)
  <2>1. AfterSlash(u, d) \in BOOLEAN
    BY DEF AfterSlash
  <2>2. (unit.byte = Slash) \in BOOLEAN
    OBVIOUS
  <2> HIDE DEF d, u
  <2> QED BY <1>6, <2>1, <2>2
<1>9. ClassAt(u, p) = ClassOf(unit, previous)
  BY <1>4, <1>5 DEF ClassAt
<1> HIDE DEF u
<1>10. /\ \A q \in Before(u, c) : q.at \in Nat \ {0}
       /\ \A f \in segments : f.start \in Nat \ {0}
  BY <1>2, PlacesPositive
<1>11. Tallies(hit, v, u, Before(u, d), segments \ {g}, enabled)
  <2>1. hit = Hit(res, ClassAt(u, p), SourceOffset(v, p.at), enabled)
    BY <1>4, <1>9
  <2>2. \A f \in segments \ {g} : f.start \in Nat \ {0}
    BY <1>10
  <2>3. Tallies(hit, v, u, Before(u, c) \cup {p}, segments \ {g}, enabled)
    <3> HIDE DEF segments, enabled
    <3>1. p.at \in Nat \ {0} /\ Tallies(res, v, u, Before(u, c), segments \ {g}, enabled)
      BY <1>4, <1>7
    <3>2. Tallies(Hit(res, ClassAt(u, p), SourceOffset(v, p.at), enabled), v, u, Before(u, c) \cup {p},
                  segments \ {g}, enabled)
      BY <1>10, <2>2, <3>1, TallyUnit, Zenon
    <3> QED BY <2>1, <3>2
  <2> QED BY <1>6, <2>3
<1>12. ASSUME ~Separates(unit, enabled)
       PROVE  Tracks(v, config, d, Consumed(seg, unit, enabled), unit.byte = Slash, hit)
  <2>1. PICK h : h = [start |-> g.start, content |-> g.content \cup {p}]
    OBVIOUS
  <2>2. IsLast(h, u, d, enabled) /\ SegmentsTo(u, d, enabled) \ {h} = segments \ {g}
    <3>1. /\ d = c + p.unit.width /\ ~Separates(p.unit, enabled) /\ c \in Nat
          /\ Before(u, c + p.unit.width) = Before(u, c) \cup {p}
      BY <1>4, <1>6, <1>12
    <3> HIDE DEF d, enabled
    <3> QED BY <1>2, <1>4, <1>6, <1>7, <2>1, <3>1, JoinLast
  <2>3. Describes(Consumed(seg, unit, enabled), v, u, h, enabled)
    <3>1. \A q \in g.content : q.at \in Nat /\ q.at < p.at
      BY <1>2, <1>4, <1>7, ContentBefore
    <3>2. h.start = g.start /\ h.content = g.content \cup {p}
      BY <2>1
    <3> QED BY <1>4, <1>6, <1>7, <3>1, <3>2, DescribesNext
  <2> QED BY <1>6, <1>8, <1>11, <2>2, <2>3 DEF Tracks, u
<1>13. ASSUME Separates(unit, enabled)
       PROVE  Tracks(v, config, d, FreshSegment(SourceOffset(v, d)), unit.byte = Slash,
                     FinishSegment(hit, seg, enabled))
  <2>1. PICK h : h = [start |-> d, content |-> {}]
    OBVIOUS
  <2>2. IsLast(h, u, d, enabled) /\ SegmentsTo(u, d, enabled) \ {h} = segments
    BY <1>2, <1>4, <1>6, <1>7, <1>13, <2>1, OpenNext
  <2>3. Describes(FreshSegment(SourceOffset(v, d)), v, u, h, enabled)
    BY <2>1, DescribesFresh
  <2>4. g \in segments /\ (segments \ {g}) \cup {g} = segments
    BY <1>7 DEF IsLast
  <2>5. Tallies(FinishSegment(hit, seg, enabled), v, u, Before(u, d), segments, enabled)
    <3>1. \A q \in Before(u, d) : q.at \in Nat \ {0}
      BY <1>4, <1>6, <1>10
    <3>2. Tallies(FinishSegment(hit, seg, enabled), v, u, Before(u, d), (segments \ {g}) \cup {g}, enabled)
      BY <1>7, <1>10, <1>11, <2>4, <3>1, TallySegment
    <3> QED BY <2>4, <3>2
  <2> QED BY <1>6, <1>8, <2>2, <2>3, <2>5 DEF Tracks, u
<1> QED BY <1>12, <1>13

\* Past the last unit only its segment is left to tell of.
LEMMA TracksEnd ==
  ASSUME NEW v, Scannable(v), NEW config \in ScanMask, NEW c \in Nat, c > Len(v.bytes), NEW seg,
         NEW previous, NEW res \in ScanResult, Tracks(v, config, c, seg, previous, res),
         FinishSegment(res, seg, config.enabled) \in ScanResult
  PROVE  FinishSegment(res, seg, config.enabled) = ScanOf(v, config.enabled, config.enc)
<1> DEFINE enabled == config.enabled
           u == Units(v, config.enc)
           segments == SegmentsTo(u, c, enabled)
           end == FinishSegment(res, seg, enabled)
<1>1. WellFormed(v) /\ config.enc \in Encodings
  BY DEF Scannable, ScanMask
<1>2. PICK n \in Nat : n = Len(v.bytes) /\ Spaced(u, n)
  BY <1>1, UnitsSpaced
<1>3. Before(u, c) = u
  BY <1>2 DEF Before, Spaced
<1>4. segments = SegmentsOf(u, Separators(u, enabled))
  BY <1>3 DEF SegmentsTo
<1>5. PICK g : /\ IsLast(g, u, c, enabled)
               /\ Describes(seg, v, u, g, enabled)
               /\ Tallies(res, v, u, Before(u, c), segments \ {g}, enabled)
  BY DEF Tracks
<1> HIDE DEF u
<1>6. /\ \A q \in Before(u, c) : q.at \in Nat \ {0}
      /\ \A f \in segments : f.start \in Nat \ {0}
  BY <1>2, PlacesPositive
<1>7. g \in segments /\ (segments \ {g}) \cup {g} = segments
  BY <1>5 DEF IsLast
<1>8. Tallies(end, v, u, u, (segments \ {g}) \cup {g}, enabled)
  BY <1>3, <1>5, <1>6, <1>7, TallySegment
<1>9. Tallies(end, v, u, u, SegmentsOf(u, Separators(u, enabled)), enabled)
  BY <1>4, <1>7, <1>8
<1> QED BY <1>1, <1>9, TallyIsScan DEF u, AllSegments

\* Before the first unit there is one empty segment.
LEMMA TracksStart ==
  ASSUME NEW v, Scannable(v), NEW config \in ScanMask
  PROVE  Tracks(v, config, 1, FreshSegment(1), FALSE, EmptyResult)
<1> DEFINE enabled == config.enabled
           u == Units(v, config.enc)
<1>1. WellFormed(v) /\ config.enc \in Encodings
  BY DEF Scannable, ScanMask
<1>2. PICK n \in Nat : n = Len(v.bytes) /\ Spaced(u, n)
  BY <1>1, UnitsSpaced
<1>3. Boundary(u, 1) /\ Before(u, 1) = {} /\ ~AfterSlash(u, 1)
  BY <1>2 DEF Boundary, Before, AfterSlash, Spaced
<1>4. PICK g : g = [start |-> 1, content |-> {}]
  OBVIOUS
<1> HIDE DEF u
<1>5. SegmentsTo(u, 1, enabled) = {g}
  <2>1. Starts(u, 1, enabled) = {1}
    BY <1>3 DEF Starts, Separators
  <2>2. Content(u, 1, enabled, 1) = {}
    BY <1>3 DEF Content
  <2> QED BY <1>4, <2>1, <2>2, SegmentAt
<1>6. IsLast(g, u, 1, enabled)
  BY <1>4, <1>5 DEF IsLast
<1>7. Describes(FreshSegment(1), v, u, g, enabled)
  <2>1. SourceOffset(v, 1) = 1
    BY DEF Scannable
  <2> QED BY <1>4, <2>1, DescribesFresh
<1>8. Tallies(EmptyResult, v, u, Before(u, 1), SegmentsTo(u, 1, enabled) \ {g}, enabled)
  <2>1. Hits(v, u, {}, {}, enabled) = {}
    BY DEF Hits
  <2>2. Tallies(EmptyResult, v, u, {}, {}, enabled)
    BY <2>1, FS_EmptySet, NoOffsetAssumption DEF Tallies, EmptyResult
  <2> QED BY <1>3, <1>5, <2>2
<1> QED BY <1>3, <1>6, <1>7, <1>8 DEF Tracks, u

\* Every step of the scan keeps the second invariant.
LEMMA FoundUnit ==
  ASSUME IInv, Found, Reading, IInv', Advance
  PROVE  /\ ~Separates(Here, cfg.enabled) =>
              Tracks(view, cfg, cursor', Consumed(segment, Here, cfg.enabled), previous_slash', Classified)
         /\ Separates(Here, cfg.enabled) =>
              Tracks(view, cfg, cursor', FreshSegment(SourceOffset(view, cursor + Here.width)), previous_slash',
                     FinishSegment(Classified, segment, cfg.enabled))
<1>1. /\ Scannable(view) /\ cfg \in ScanMask /\ segment \in Segment /\ result \in ScanResult
      /\ cursor \in 1..Len(view.bytes) /\ Classified \in ScanResult
  BY ReadFacts DEF IInv, TypeOK
<1>2. Tracks(view, cfg, cursor, segment, previous_slash, result)
  BY DEF Found, Reading
<1>3. PICK unit : unit = Here
  OBVIOUS
<1>4. PICK hit : hit = Classified
  OBVIOUS
<1>5. PICK v, config, c, seg, previous, res :
        /\ v = view /\ config = cfg /\ c = cursor
        /\ seg = segment /\ previous = previous_slash /\ res = result
  OBVIOUS
<1>6. /\ Scannable(v) /\ config \in ScanMask /\ c \in 1..Len(v.bytes) /\ seg \in Segment
      /\ res \in ScanResult /\ hit \in ScanResult
  BY <1>1, <1>4, <1>5
<1>7. Tracks(v, config, c, seg, previous, res)
  BY <1>2, <1>5
<1>8. unit = Unit(v, c, config.enc)
  BY <1>3, <1>5 DEF Here
<1>9. hit = Hit(res, ClassOf(unit, previous), SourceOffset(v, c), config.enabled)
  BY <1>3, <1>4, <1>5 DEF Classified
<1>10. /\ ~Separates(unit, config.enabled) =>
            Tracks(v, config, c + unit.width, Consumed(seg, unit, config.enabled), unit.byte = Slash, hit)
       /\ Separates(unit, config.enabled) =>
            Tracks(v, config, c + unit.width, FreshSegment(SourceOffset(v, c + unit.width)),
                   unit.byte = Slash, FinishSegment(hit, seg, config.enabled))
  BY <1>6, <1>7, <1>8, <1>9, TracksUnit
<1>11. cursor' = c + unit.width /\ previous_slash' = (unit.byte = Slash)
  BY <1>3, <1>5 DEF Advance
<1> QED BY <1>3, <1>4, <1>5, <1>10, <1>11, Zenon

LEMMA FoundKept ==
  ASSUME IInv, IInv', Found, [Next]_vars
  PROVE  Found'
<1>1. CASE ReadSeparator
  <2>1. /\ Reading /\ Advance /\ Separates(Here, cfg.enabled)
        /\ result' = FinishSegment(Classified, segment, cfg.enabled)
        /\ segment' = FreshSegment(SourceOffset(view, cursor + Here.width))
        /\ ~done' /\ view' = view /\ cfg' = cfg
    BY <1>1 DEF ReadSeparator, Reading, Advance
  <2>2. Tracks(view, cfg, cursor', segment', previous_slash', result')
    BY <2>1, FoundUnit, Zenon
  <2> QED BY <2>1, <2>2 DEF Found
<1>2. CASE ReadDelimiter
  <2>1. /\ Reading /\ Advance /\ Delimits(Here, cfg.enabled) /\ result' = Classified
        /\ segment' = [segment EXCEPT !.in_param = TRUE]
        /\ ~done' /\ view' = view /\ cfg' = cfg
    BY <1>2 DEF ReadDelimiter, Reading, Advance
  <2>2. ~Separates(Here, cfg.enabled)
    BY <2>1 DEF Delimits, Separates, Semicolon, Hash, Question, Slash, Backslash
  <2>3. segment' = Consumed(segment, Here, cfg.enabled)
    BY <2>1 DEF Consumed
  <2>4. Tracks(view, cfg, cursor', segment', previous_slash', result')
    BY <2>1, <2>2, <2>3, FoundUnit, Zenon
  <2> QED BY <2>1, <2>4 DEF Found
<1>3. CASE ReadContent
  <2>1. /\ Reading /\ Advance /\ ~Separates(Here, cfg.enabled) /\ result' = Classified
        /\ ~done' /\ view' = view /\ cfg' = cfg
    BY <1>3 DEF ReadContent, Reading, Advance
  <2>2. segment' = Consumed(segment, Here, cfg.enabled)
    BY <1>3, Zenon DEF ReadContent, Consumed
  <2>3. Tracks(view, cfg, cursor', segment', previous_slash', result')
    BY <2>1, <2>2, FoundUnit, Zenon
  <2> QED BY <2>1, <2>3 DEF Found
<1>4. CASE Finish
  <2>1. /\ ~done /\ done' = TRUE /\ cursor > Len(view.bytes) /\ view' = view /\ cfg' = cfg
        /\ result' = FinishSegment(result, segment, cfg.enabled)
    BY <1>4 DEF Finish
  <2>2. /\ Scannable(view) /\ cfg \in ScanMask /\ cursor \in Nat /\ result \in ScanResult
        /\ FinishSegment(result, segment, cfg.enabled) \in ScanResult
    BY <2>1 DEF IInv, TypeOK
  <2>3. Tracks(view, cfg, cursor, segment, previous_slash, result)
    BY <2>1 DEF Found
  <2>4. FinishSegment(result, segment, cfg.enabled) = ScanOf(view, cfg.enabled, cfg.enc)
    BY <2>1, <2>2, <2>3, TracksEnd
  <2> QED BY <2>1, <2>4 DEF Found
<1>5. CASE UNCHANGED vars
  BY <1>5 DEF vars, Found
<1> QED BY <1>1, <1>2, <1>3, <1>4, <1>5 DEF Next

\* What has been read so far, all along the loop.
LEMMA ScanFound == Spec => []Found
<1>1. Init => Found
  <2> SUFFICES ASSUME Init PROVE Found
    OBVIOUS
  <2>1. Scannable(view) /\ cfg \in ScanMask
    BY ViewsAssumption, ConfigsAssumption DEF Init
  <2>2. Tracks(view, cfg, 1, FreshSegment(1), FALSE, EmptyResult)
    BY <2>1, TracksStart
  <2>3. /\ ~done /\ cursor = 1 /\ segment = FreshSegment(1)
        /\ previous_slash = FALSE /\ result = EmptyResult
    BY DEF Init
  <2> QED BY <2>2, <2>3, Zenon DEF Found
<1>2. IInv /\ IInv' /\ Found /\ [Next]_vars => Found'
  BY FoundKept
<1> QED BY InductiveInvariant, <1>1, <1>2, PTL DEF Spec

\* For every view, mask and encoding set, the loop with its segment state reports exactly
\* the classes, first position and climbs of the path (scan_interpretation).
THEOREM ScanIsComplete == Spec => []ScansEverything
<1>1. Found => ScansEverything
  BY DEF Found, ScansEverything
<1> QED BY ScanFound, <1>1, PTL

\* Switching one more class or encoding on never hides anything a narrower configuration
\* found in the same view (the scanner half of "stricter only denies more").
THEOREM ScanIsMonotone == Spec => []Monotone
<1>1. TypeOK /\ Found => Monotone
  <2> SUFFICES ASSUME TypeOK, Found, done, NEW c \in Configs, c.enabled \subseteq cfg.enabled,
                      \A e \in DOMAIN c.enc : c.enc[e] => cfg.enc[e]
               PROVE  FindsAtLeast([result EXCEPT !.classes = @ \cap cfg.enabled],
                                   [ScanOf(view, c.enabled, c.enc) EXCEPT !.classes = @ \cap c.enabled])
    BY DEF Monotone
  <2>1. result = ScanOf(view, cfg.enabled, cfg.enc)
    BY DEF Found
  <2>2. WellFormed(view) /\ Len(view.original) < NoOffset /\ cfg.enc \in Encodings
    BY NoOffsetAssumption DEF TypeOK, Scannable, ScanMask
  <2>3. c.enc \in Encodings
    BY ConfigsAssumption DEF ScanMask
  <2>4. PICK r : r = ScanOf(view, c.enabled, c.enc)
    OBVIOUS
  <2>5. FindsAtLeast(result, r)
    BY <2>1, <2>2, <2>3, <2>4, ScanMonotone DEF Widens
  <2> QED BY <2>4, <2>5 DEF FindsAtLeast
<1> QED BY ScanFound, TypeCorrect, <1>1, PTL

\* The assumption on the views is met by every request: whatever its bytes, each of the
\* interpretations the driver visits can be scanned.
THEOREM InterpretationsScannable ==
  ASSUME NEW b \in Seq(Byte), Len(b) \in 1..(NoOffset - 1), NEW two \in BOOLEAN,
         NEW k \in DOMAIN Interpretations(b, two)
  PROVE  Scannable(Interpretations(b, two)[k])
<1>1. /\ WellFormed(Interpretations(b, two)[k]) /\ Interpretations(b, two)[k].original = b
  <2>1. \A j \in 1..Len(Interpretations(b, two)) :
          WellFormed(Interpretations(b, two)[j]) /\ Interpretations(b, two)[j].original = b
    BY InterpretationsSound
  <2>2. k \in 1..Len(Interpretations(b, two))
    BY DEF Interpretations
  <2> QED BY <2>1, <2>2
<1>2. SourceOffset(Interpretations(b, two)[k], 1) = 1
  <2>1. \A j \in 1..Len(Interpretations(b, two)) : SourceOffset(Interpretations(b, two)[j], 1) = 1
    BY InterpretationsStart
  <2>2. k \in 1..Len(Interpretations(b, two))
    BY DEF Interpretations
  <2> QED BY <2>1, <2>2
<1> QED BY <1>1, <1>2 DEF Scannable

-----------------------------------------------------------------------------
(***************************************************************************)
(* The driver.  Its inductive invariant says of the view that is being     *)
(* decoded, as far as it has got, what is said of the views that are done. *)
(***************************************************************************)
\* A byte that came from a position of the request.
Stems(byte, offset) == byte = Path[offset] \/ Path[offset] = PercentSign

Sound(shown) ==
  /\ WellFormed(shown)
  /\ shown.original = Path
  /\ \A i \in DOMAIN shown.bytes : Stems(shown.bytes[i], SourceOffset(shown, i))

\* What is decoded so far; every offset recorded is before the one at the position.
Pending ==
  /\ out \in Seq(Byte)
  /\ origins \in Seq(1..Len(Path))
  /\ Len(origins) = Len(out)
  /\ \A i, j \in DOMAIN origins : i < j => origins[i] < origins[j]
  /\ \A i \in DOMAIN out : Stems(out[i], origins[i])
  /\ position \in 1..(Len(Current.bytes) + 1)
  /\ position <= Len(Current.bytes) => \A i \in DOMAIN origins : origins[i] < SourceOffset(Current, position)

\* The inductive invariant.
DriverInv ==
  /\ Path \in Seq(Byte)
  /\ Len(visited) \in Nat \ {0}
  /\ visited = [k \in 1..Len(visited) |-> visited[k]]
  /\ visited[1] = Original(Path)
  /\ \A k \in 1..Len(visited) : Sound(visited[k])
  /\ pc = "decode" => Pending

-----------------------------------------------------------------------------
LEMMA CurrentSound ==
  ASSUME DriverInv
  PROVE  Sound(Current)
BY DEF DriverInv, Current

\* One byte more, from the position.
LEMMA EmitKeeps ==
  ASSUME DriverInv, pc = "decode", NEW byte \in Byte, NEW width \in Nat \ {0},
         position + width <= Len(Current.bytes) + 1,
         Stems(byte, SourceOffset(Current, position)),
         Emit(byte, width)
  PROVE  DriverInv'
<1> DEFINE offset == SourceOffset(Current, position)
<1>1. /\ UNCHANGED <<visited, pc>> /\ Path' = Path /\ Current' = Current
      /\ out' = Append(out, byte) /\ origins' = Append(origins, offset) /\ position' = position + width
  BY DEF Emit, Path, Current
<1>2. Pending /\ Sound(Current) /\ Path \in Seq(Byte)
  BY CurrentSound DEF DriverInv
<1>3. /\ Current.bytes \in Seq(Byte) /\ WellFormed(Current) /\ Current.original = Path
      /\ position \in DOMAIN Current.bytes
  BY <1>2 DEF Sound, WellFormed, Pending
<1>4. offset \in 1..Len(Path) /\ \A j \in DOMAIN Current.bytes : position < j => offset < SourceOffset(Current, j)
  BY <1>3, OffsetsOrdered
<1>5. \A i \in DOMAIN origins : origins[i] < offset
  BY <1>2, <1>3 DEF Pending
<1> HIDE DEF offset
<1>6. /\ out' \in Seq(Byte) /\ origins' \in Seq(1..Len(Path)) /\ Len(origins') = Len(out')
  BY <1>1, <1>2, <1>4 DEF Pending
<1>7. ASSUME NEW i \in DOMAIN origins', NEW j \in DOMAIN origins', i < j
      PROVE  origins'[i] < origins'[j]
  <2>0. origins \in Seq(1..Len(Path))
    BY <1>2 DEF Pending
  <2>1. /\ Len(origins) \in Nat /\ DOMAIN origins = 1..Len(origins)
        /\ DOMAIN origins' = 1..(Len(origins) + 1)
        /\ origins'[Len(origins) + 1] = offset
        /\ \A k \in DOMAIN origins : origins'[k] = origins[k]
    BY <1>1, <1>4, <2>0
  <2>2. i \in DOMAIN origins /\ (j \in DOMAIN origins \/ j = Len(origins) + 1)
    BY <1>7, <2>1
  <2> QED BY <1>2, <1>5, <1>7, <2>1, <2>2 DEF Pending
<1>8. \A i \in DOMAIN out' : Stems(out'[i], origins'[i])
  <2>1. Stems(byte, offset)
    BY DEF offset
  <2> QED BY <1>1, <1>2, <2>1 DEF Pending
<1>9. ASSUME position' <= Len(Current.bytes), NEW i \in DOMAIN origins'
      PROVE  origins'[i] < SourceOffset(Current, position')
  <2>1. offset < SourceOffset(Current, position') /\ SourceOffset(Current, position') \in 1..Len(Path)
    BY <1>1, <1>3, <1>4, <1>9, OffsetsOrdered
  <2>2. origins'[i] = offset \/ (i \in DOMAIN origins /\ origins'[i] = origins[i])
    BY <1>1, <1>2, <1>9 DEF Pending
  <2>3. i \in DOMAIN origins => origins[i] \in 1..Len(Path)
    BY <1>2 DEF Pending
  <2> QED BY <1>4, <1>5, <2>1, <2>2, <2>3
<1>10. position' \in 1..(Len(Current.bytes) + 1)
  BY <1>1, <1>2, <1>3 DEF Pending
<1>11. \A v : Sound(v)' <=> Sound(v)
  BY <1>1 DEF Sound, Stems
<1>12. \A b, o : Stems(b, o)' <=> Stems(b, o)
  BY <1>1 DEF Stems
<1>13. Pending'
  BY <1>1, <1>6, <1>7, <1>8, <1>9, <1>10, <1>12 DEF Pending
<1> QED BY <1>1, <1>11, <1>13 DEF DriverInv

LEMMA DecodeEscapeKeeps == DriverInv /\ DecodeEscape => DriverInv'
<1> SUFFICES ASSUME DriverInv, DecodeEscape PROVE DriverInv'
  OBVIOUS
<1>1. Current.bytes \in Seq(Byte) /\ WellFormed(Current) /\ position \in Nat
  BY CurrentSound DEF Sound, WellFormed, DriverInv, DecodeEscape, Pending
<1>2. position \in 1..(Len(Current.bytes) - 2) /\ Current.bytes[position] = PercentSign
  BY DEF DecodeEscape, EscapeAt
<1>3. ByteAt(Current.bytes, position) \in Byte
  BY <1>1, ByteAtIsByte DEF DecodeEscape
<1>4. position \in DOMAIN Current.bytes /\ position + 3 <= Len(Current.bytes) + 1
  BY <1>1, <1>2
<1>5. Path[SourceOffset(Current, position)] = PercentSign
  BY <1>2, <1>4, CurrentSound DEF Sound, Stems
<1>6. Stems(ByteAt(Current.bytes, position), SourceOffset(Current, position))
  BY <1>5 DEF Stems
<1> QED BY <1>3, <1>4, <1>6, EmitKeeps DEF DecodeEscape

LEMMA CopyByteKeeps == DriverInv /\ CopyByte => DriverInv'
<1> SUFFICES ASSUME DriverInv, CopyByte PROVE DriverInv'
  OBVIOUS
<1>1. /\ Current.bytes \in Seq(Byte) /\ position \in Nat \ {0} /\ position <= Len(Current.bytes)
  BY CurrentSound DEF Sound, WellFormed, DriverInv, CopyByte, Pending
<1>2. /\ position \in DOMAIN Current.bytes /\ Current.bytes[position] \in Byte
      /\ position + 1 <= Len(Current.bytes) + 1
  BY <1>1
<1>3. Stems(Current.bytes[position], SourceOffset(Current, position))
  BY <1>2, CurrentSound DEF Sound
<1> QED BY <1>2, <1>3, EmitKeeps DEF CopyByte

LEMMA FinishPassKeeps == DriverInv /\ FinishPass => DriverInv'
<1> SUFFICES ASSUME DriverInv, FinishPass PROVE DriverInv'
  OBVIOUS
<1> DEFINE shown == [bytes |-> out, origins |-> origins, decoded |-> TRUE, original |-> Path]
           n    == Len(visited)
<1>1. Pending /\ pc' = "choose" /\ visited' = Append(visited, shown)
  BY DEF DriverInv, FinishPass
<1>2. /\ n \in Nat \ {0} /\ Len(visited') = n + 1
      /\ visited' = [k \in 1..(n + 1) |-> visited'[k]]
      /\ \A k \in 1..n : visited'[k] = visited[k]
      /\ visited'[n + 1] = shown
  <2>1. visited \in Seq({visited[k] : k \in 1..n})
    BY DEF DriverInv
  <2> QED BY <1>1, <2>1 DEF DriverInv
<1>3. Path' = Path
  BY <1>2 DEF Path
<1>4. Sound(shown)
  <2>1. /\ shown.bytes = out /\ shown.origins = origins /\ shown.decoded = TRUE /\ shown.original = Path
    OBVIOUS
  <2> HIDE DEF shown
  <2>2. WellFormed(shown)
    BY <1>1, <2>1 DEF WellFormed, Pending, DriverInv
  <2>3. \A i \in DOMAIN shown.bytes : SourceOffset(shown, i) = origins[i]
    BY <1>1, <2>1 DEF SourceOffset, Pending
  <2> QED BY <1>1, <2>1, <2>2, <2>3 DEF Sound, Pending
<1>5. \A v : Sound(v)' <=> Sound(v)
  BY <1>3 DEF Sound, Stems
<1> HIDE DEF shown
<1>6. \A k \in 1..Len(visited') : Sound(visited'[k])
  BY <1>2, <1>4 DEF DriverInv
<1> QED BY <1>1, <1>2, <1>3, <1>5, <1>6 DEF DriverInv

LEMMA StartPassKeeps == DriverInv /\ StartPass => DriverInv'
<1> SUFFICES ASSUME DriverInv, StartPass PROVE DriverInv'
  OBVIOUS
<1>1. /\ visited' = visited /\ Path' = Path /\ Current' = Current
      /\ out' = << >> /\ origins' = << >> /\ position' = 1
  BY DEF StartPass, Path, Current
<1>2. Current.bytes \in Seq(Byte)
  BY CurrentSound DEF Sound, WellFormed
<1>3. Pending'
  BY <1>1, <1>2 DEF Pending
<1>4. \A v : Sound(v)' <=> Sound(v)
  BY <1>1 DEF Sound, Stems
<1> QED BY <1>1, <1>3, <1>4 DEF DriverInv

LEMMA InitHolds == DriverInit => DriverInv
<1> SUFFICES ASSUME DriverInit PROVE DriverInv
  OBVIOUS
<1>1. PICK p \in Requests : visited = <<Original(p)>>
  BY DEF DriverInit
<1>2. p \in Seq(Byte)
  BY RequestsAssumption
<1>3. Path = p /\ visited[1] = Original(p) /\ Len(visited) = 1 /\ pc = "choose"
  BY <1>1 DEF Path, Original, DriverInit
<1>4. Sound(Original(p))
  BY <1>2, <1>3 DEF Sound, Original, WellFormed, SourceOffset, Stems
<1> QED BY <1>1, <1>2, <1>3, <1>4 DEF DriverInv

LEMMA StepKeeps == DriverInv /\ [DriverNext]_driverVars => DriverInv'
<1> SUFFICES ASSUME DriverInv, [DriverNext]_driverVars PROVE DriverInv'
  OBVIOUS
<1>1. CASE Stop
  BY <1>1 DEF Stop, DriverInv, Sound, Stems, Path
<1>2. CASE UNCHANGED driverVars
  BY <1>2 DEF driverVars, DriverInv, Pending, Sound, Stems, Path, Current
<1> QED BY <1>1, <1>2, StartPassKeeps, DecodeEscapeKeeps, CopyByteKeeps, FinishPassKeeps DEF DriverNext

LEMMA Invariance == DriverSpec => []DriverInv
BY InitHolds, StepKeeps, PTL DEF DriverSpec

\* Whatever the request and the number of passes, every view has one origin per byte,
\* inside the request and in order (Interpretation::decode composing origins).
THEOREM ProvenanceAlwaysSound == DriverSpec => []ProvenanceSound
<1>1. DriverInv => ProvenanceSound
  BY DEF DriverInv, ProvenanceSound, Sound
<1> QED BY <1>1, Invariance, PTL

\* At every decode depth, a byte that decoding produced has its origin at a percent sign
\* of the request (Interpretation::escaped).
THEOREM DecodedBytesAlwaysEscaped == DriverSpec => []DecodedBytesAreEscaped
<1>1. ASSUME DriverInv, NEW k \in DOMAIN visited, NEW i \in DOMAIN visited[k].bytes
      PROVE  visited[k].bytes[i] = Path[SourceOffset(visited[k], i)] \/ Escaped(visited[k], i)
  <2>1. Sound(visited[k])
    BY <1>1 DEF DriverInv
  <2>2. SourceOffset(visited[k], i) \in DOMAIN Path
    BY <1>1, <2>1, OffsetsOrdered DEF Sound, DriverInv
  <2>3. CASE visited[k].decoded
    BY <1>1, <2>1, <2>2, <2>3 DEF Sound, Stems, Escaped
  <2>4. CASE ~visited[k].decoded
    BY <1>1, <2>1, <2>4 DEF Sound, WellFormed, SourceOffset
  <2> QED BY <2>3, <2>4
<1>2. DriverInv => DecodedBytesAreEscaped
  BY <1>1 DEF DecodedBytesAreEscaped
<1> QED BY <1>2, Invariance, PTL

-----------------------------------------------------------------------------
(***************************************************************************)
(* What the loops compute.  With DriverInv, Exact is inductive: every shown is   *)
(* the decode of the one before it, and the pass has read whole escapes    *)
(* and kept what stands before the position.                                 *)
(***************************************************************************)
KeptSoFar == InOrder(KeptOf(Current.bytes), position - 1)

AsFar(kept) ==
  /\ Len(out) = Len(kept)
  /\ \A k \in 1..Len(kept) : /\ out[k] = DecodedByte(Current.bytes, kept[k])
                             /\ origins[k] = SourceOffset(Current, kept[k])
  /\ ~EscapeAt(Current.bytes, position - 1) /\ ~EscapeAt(Current.bytes, position - 2)

Exact ==
  /\ passes \in {1, 2} /\ Len(visited) <= passes + 1
  /\ \A k \in 1..(Len(visited) - 1) :
       HasEscape(visited[k].bytes) /\ visited[k + 1] = Decode(visited[k])
  /\ pc \in {"choose", "decode", "done"}
  /\ pc = "decode" => MayDecode /\ AsFar(KeptSoFar)
  /\ pc = "done" => ~MayDecode

\* One position more, whether a byte or an escape starts there.
LEMMA EmitExact ==
  ASSUME DriverInv, Exact, pc = "decode", NEW width \in 1..3,
         position + width <= Len(Current.bytes) + 1,
         Emit(DecodedByte(Current.bytes, position), width),
         InOrder(KeptOf(Current.bytes), position - 1 + width) = Append(KeptSoFar, position),
         ~EscapeAt(Current.bytes, position + width - 1), ~EscapeAt(Current.bytes, position + width - 2)
  PROVE  Exact'
<1>1. /\ UNCHANGED <<passes, visited, pc>> /\ Path' = Path /\ Current' = Current
      /\ out' = Append(out, DecodedByte(Current.bytes, position))
      /\ origins' = Append(origins, SourceOffset(Current, position))
      /\ position' = position + width
  BY DEF Emit, Path, Current
<1>2. PICK kept : kept = KeptSoFar
  OBVIOUS
<1>3. PICK b : b = Current.bytes
  OBVIOUS
<1>4. /\ b \in Seq(Byte) /\ WellFormed(Current) /\ Current.original = Path
      /\ out \in Seq(Byte) /\ origins \in Seq(1..Len(Path)) /\ Len(origins) = Len(out)
      /\ position \in Nat \ {0} /\ position \in 1..Len(b)
  BY <1>3, CurrentSound DEF DriverInv, Pending, Sound, WellFormed
<1>5. kept \in Seq(Nat) /\ Len(kept) \in Nat /\ Len(out) = Len(kept)
  <2>1. position - 1 \in Nat
    BY <1>4
  <2>2. kept = InOrder(KeptOf(b), position - 1)
    BY <1>2, <1>3 DEF KeptSoFar
  <2>3. kept \in Seq(Nat)
    BY <2>1, <2>2, InOrderIs DEF IsInOrder
  <2>4. Len(out) = Len(kept)
    BY <1>2 DEF Exact, AsFar
  <2> QED BY <2>3, <2>4
<1>6. PICK more : more = Append(kept, position)
  OBVIOUS
<1>7. /\ Len(more) = Len(kept) + 1 /\ more[Len(kept) + 1] = position
      /\ \A k \in 1..Len(kept) : more[k] = kept[k]
  BY <1>4, <1>5, <1>6, AppendProperties
<1>8. /\ Len(out') = Len(kept) + 1 /\ out'[Len(kept) + 1] = DecodedByte(b, position)
      /\ \A k \in 1..Len(kept) : out'[k] = out[k]
  <2>1. DecodedByte(b, position) \in Byte
    BY <1>4, DecodedByteIsByte
  <2> QED BY <1>1, <1>3, <1>4, <1>5, <2>1, AppendProperties
<1>9. /\ origins'[Len(kept) + 1] = SourceOffset(Current, position)
      /\ \A k \in 1..Len(kept) : origins'[k] = origins[k]
  <2>0. position \in DOMAIN Current.bytes
    BY <1>3, <1>4
  <2>1. SourceOffset(Current, position) \in 1..Len(Path)
    BY <1>4, <2>0, OffsetsOrdered
  <2> QED BY <1>1, <1>4, <1>5, <2>1, AppendProperties
<1>10. KeptSoFar' = more
  <2>1. position' - 1 = position - 1 + width
    BY <1>1, <1>4
  <2> QED BY <1>1, <1>2, <1>6, <2>1 DEF KeptSoFar
<1>11. \A k \in 1..Len(more) : k \in 1..Len(kept) \/ k = Len(kept) + 1
  BY <1>5, <1>7
<1>12. \A k \in 1..Len(more) : out'[k] = DecodedByte(b, more[k]) /\ origins'[k] = SourceOffset(Current, more[k])
  <2>1. \A k \in 1..Len(kept) : out[k] = DecodedByte(b, kept[k]) /\ origins[k] = SourceOffset(Current, kept[k])
    BY <1>2, <1>3 DEF Exact, AsFar
  <2> QED BY <1>7, <1>8, <1>9, <1>11, <2>1
<1>13. AsFar(more)'
  <2>1. position' - 1 = position + width - 1 /\ position' - 2 = position + width - 2
    BY <1>1, <1>4
  <2> QED BY <1>1, <1>3, <1>7, <1>8, <1>12, <2>1 DEF AsFar
<1>14. AsFar(KeptSoFar)'
  BY <1>10, <1>13 DEF AsFar
<1>15. MayDecode'
  BY <1>1 DEF MayDecode, Exact
<1> QED BY <1>1, <1>14, <1>15 DEF Exact

LEMMA DecodeEscapeExact == DriverInv /\ Exact /\ DecodeEscape => Exact'
<1> SUFFICES ASSUME DriverInv, Exact, DecodeEscape PROVE Exact'
  OBVIOUS
<1>1. PICK b : b = Current.bytes
  OBVIOUS
<1>2. /\ pc = "decode" /\ EscapeAt(b, position) /\ Emit(ByteAt(b, position), 3)
      /\ ~EscapeAt(b, position - 1) /\ ~EscapeAt(b, position - 2)
  BY <1>1 DEF DecodeEscape, Exact, AsFar
<1>3. b \in Seq(Byte) /\ Len(b) \in Nat /\ position \in Nat \ {0}
  BY <1>1, <1>2, CurrentSound DEF Sound, WellFormed, DriverInv, Pending
<1>4. /\ position \in 1..(Len(b) - 2)
      /\ b[position + 1] \in HexDigit /\ b[position + 2] \in HexDigit
  BY <1>2 DEF EscapeAt
<1>5. ~EscapeAt(b, position + 1) /\ ~EscapeAt(b, position + 2)
  <2>1. b[position + 1] # PercentSign /\ b[position + 2] # PercentSign
    <3>1. \A d \in HexDigit : d # 37
      BY DEF HexDigit
    <3> QED BY <1>4, <3>1 DEF PercentSign
  <2> QED BY <2>1 DEF EscapeAt
<1>6. position \in KeptOf(b) /\ position + 1 \notin KeptOf(b) /\ position + 2 \notin KeptOf(b)
  <2>1. position + 1 - 1 = position /\ position + 2 - 2 = position
    BY <1>3
  <2> QED BY <1>2, <1>3, <1>4, <2>1 DEF KeptOf
<1>7. InOrder(KeptOf(b), position - 1 + 3) = Append(InOrder(KeptOf(b), position - 1), position)
  <2>1. PICK m \in Nat : position = m + 1
    <3>1. position - 1 \in Nat /\ position = (position - 1) + 1
      BY <1>3
    <3> QED BY <3>1
  <2>2. InOrder(KeptOf(b), m + 1) = Append(InOrder(KeptOf(b), m), m + 1)
    BY <1>6, <2>1, InOrderStep
  <2>3. InOrder(KeptOf(b), (m + 1) + 1) = InOrder(KeptOf(b), m + 1)
    <3>1. (m + 1) + 1 \notin KeptOf(b) /\ m + 1 \in Nat
      BY <1>6, <2>1
    <3> QED BY <3>1, InOrderStep
  <2>4. InOrder(KeptOf(b), ((m + 1) + 1) + 1) = InOrder(KeptOf(b), (m + 1) + 1)
    <3>1. ((m + 1) + 1) + 1 \notin KeptOf(b) /\ (m + 1) + 1 \in Nat
      <4>1. ((m + 1) + 1) + 1 = position + 2
        BY <2>1
      <4> QED BY <1>6, <2>1, <4>1
    <3> QED BY <3>1, InOrderStep
  <2>5. position - 1 + 3 = ((m + 1) + 1) + 1 /\ position - 1 = m
    BY <2>1
  <2> QED BY <2>1, <2>2, <2>3, <2>4, <2>5
<1>8. /\ position + 3 <= Len(b) + 1 /\ position + 3 - 1 = position + 2 /\ position + 3 - 2 = position + 1
      /\ 3 \in 1..3
  BY <1>3, <1>4
<1>9. DecodedByte(b, position) = ByteAt(b, position)
  BY <1>2 DEF DecodedByte
<1> QED BY <1>1, <1>2, <1>5, <1>7, <1>8, <1>9, EmitExact DEF KeptSoFar

LEMMA CopyByteExact == DriverInv /\ Exact /\ CopyByte => Exact'
<1> SUFFICES ASSUME DriverInv, Exact, CopyByte PROVE Exact'
  OBVIOUS
<1>1. PICK b : b = Current.bytes
  OBVIOUS
<1>2. /\ pc = "decode" /\ position <= Len(b) /\ ~EscapeAt(b, position) /\ Emit(b[position], 1)
      /\ ~EscapeAt(b, position - 1) /\ ~EscapeAt(b, position - 2)
  BY <1>1 DEF CopyByte, Exact, AsFar
<1>3. b \in Seq(Byte) /\ Len(b) \in Nat /\ position \in Nat \ {0}
  BY <1>1, <1>2, CurrentSound DEF Sound, WellFormed, DriverInv, Pending
<1>4. position \in KeptOf(b)
  BY <1>2, <1>3 DEF KeptOf
<1>5. InOrder(KeptOf(b), position - 1 + 1) = Append(InOrder(KeptOf(b), position - 1), position)
  <2>1. PICK n \in Nat : n = position - 1
    BY <1>3
  <2>2. n + 1 = position
    BY <1>3, <2>1
  <2>3. InOrder(KeptOf(b), n + 1) = Append(InOrder(KeptOf(b), n), n + 1)
    BY <1>4, <2>2, InOrderStep
  <2> QED BY <2>1, <2>2, <2>3
<1>6. /\ position + 1 <= Len(b) + 1 /\ position + 1 - 1 = position /\ position + 1 - 2 = position - 1
      /\ 1 \in 1..3
  BY <1>2, <1>3
<1>7. DecodedByte(b, position) = b[position]
  BY <1>2 DEF DecodedByte
<1> QED BY <1>1, <1>2, <1>5, <1>6, <1>7, EmitExact DEF KeptSoFar

LEMMA StartPassExact == DriverInv /\ Exact /\ StartPass => Exact'
<1> SUFFICES ASSUME DriverInv, Exact, StartPass PROVE Exact'
  OBVIOUS
<1>1. /\ UNCHANGED <<passes, visited>> /\ Current' = Current /\ pc' = "decode"
      /\ out' = << >> /\ origins' = << >> /\ position' = 1 /\ MayDecode
  BY DEF StartPass, Current
<1>2. MayDecode'
  BY <1>1 DEF MayDecode
<1>3. KeptSoFar' = << >>
  <2>1. position' - 1 = 0
    BY <1>1
  <2> QED BY <1>1, <2>1, InOrderStep DEF KeptSoFar
<1>4. ~EscapeAt(Current.bytes, 0) /\ ~EscapeAt(Current.bytes, 0 - 1)
  <2>1. Current.bytes \in Seq(Byte)
    BY CurrentSound DEF Sound, WellFormed
  <2> QED BY <2>1 DEF EscapeAt
<1>5. AsFar(KeptSoFar)'
  <2>1. position' - 1 = 0 /\ position' - 2 = 0 - 1
    BY <1>1
  <2>2. AsFar(<< >>)'
    BY <1>1, <1>4, <2>1 DEF AsFar
  <2> QED BY <1>3, <2>2 DEF AsFar
<1> QED BY <1>1, <1>2, <1>5 DEF Exact

LEMMA FinishPassExact == DriverInv /\ Exact /\ FinishPass => Exact'
<1> SUFFICES ASSUME DriverInv, Exact, FinishPass PROVE Exact'
  OBVIOUS
<1> DEFINE shown == [bytes |-> out, origins |-> origins, decoded |-> TRUE, original |-> Path]
           n    == Len(visited)
<1>1. Pending /\ pc = "decode" /\ pc' = "choose" /\ visited' = Append(visited, shown) /\ passes' = passes
  BY DEF DriverInv, FinishPass
<1>2. /\ n \in Nat \ {0} /\ Len(visited') = n + 1
      /\ \A k \in 1..n : visited'[k] = visited[k]
      /\ visited'[n + 1] = shown
  <2>1. visited \in Seq({visited[k] : k \in 1..n})
    BY DEF DriverInv
  <2> QED BY <1>1, <2>1 DEF DriverInv
<1>3. PICK b : b = Current.bytes
  OBVIOUS
<1>4. b \in Seq(Byte) /\ Current.original = Path /\ position - 1 = Len(b)
  <2>1. position \in 1..(Len(Current.bytes) + 1) /\ position > Len(Current.bytes)
    BY <1>1 DEF Pending, FinishPass
  <2>2. Current.bytes \in Seq(Byte) /\ Current.original = Path
    BY CurrentSound DEF Sound, WellFormed
  <2> QED BY <1>3, <2>1, <2>2
<1>5. PICK kept : kept = Kept(b)
  OBVIOUS
<1>6. KeptSoFar = kept
  BY <1>3, <1>4, <1>5 DEF KeptSoFar, Kept, KeptOf
<1>7. /\ Len(out) = Len(kept) /\ MayDecode
      /\ \A k \in 1..Len(kept) : out[k] = DecodedByte(b, kept[k]) /\ origins[k] = SourceOffset(Current, kept[k])
  BY <1>1, <1>3, <1>6 DEF Exact, AsFar
<1>8. out = [k \in 1..Len(kept) |-> DecodedByte(b, kept[k])]
  <2>1. out = [k \in 1..Len(out) |-> out[k]]
    BY <1>1 DEF Pending
  <2> QED BY <1>7, <2>1
<1>9. origins = [k \in 1..Len(kept) |-> SourceOffset(Current, kept[k])]
  <2>1. origins = [k \in 1..Len(origins) |-> origins[k]] /\ Len(origins) = Len(out)
    BY <1>1 DEF Pending
  <2> QED BY <1>7, <2>1
<1>10. shown = Decode(Current)
  BY <1>3, <1>4, <1>5, <1>8, <1>9 DEF Decode
<1> HIDE DEF shown
<1>11. Current = visited[n] /\ HasEscape(visited[n].bytes) /\ n <= passes
  BY <1>7 DEF MayDecode, Current
<1>12. \A k \in 1..(Len(visited') - 1) :
         HasEscape(visited'[k].bytes) /\ visited'[k + 1] = Decode(visited'[k])
  <2>1. \A k \in 1..(Len(visited') - 1) : k = n \/ k \in 1..(n - 1)
    BY <1>2
  <2>2. \A k \in 1..(n - 1) : k \in 1..n /\ k + 1 \in 1..n
    BY <1>2
  <2>3. \A k \in 1..(n - 1) : HasEscape(visited[k].bytes) /\ visited[k + 1] = Decode(visited[k])
    BY DEF Exact
  <2>4. visited'[n] = visited[n]
    BY <1>2
  <2> QED BY <1>2, <1>10, <1>11, <2>1, <2>2, <2>3, <2>4
<1> QED BY <1>1, <1>2, <1>11, <1>12 DEF Exact

LEMMA StepExact == DriverInv /\ Exact /\ [DriverNext]_driverVars => Exact'
<1> SUFFICES ASSUME DriverInv, Exact, [DriverNext]_driverVars PROVE Exact'
  OBVIOUS
<1>1. CASE Stop
  BY <1>1 DEF Stop, Exact, MayDecode, Current
<1>2. CASE UNCHANGED driverVars
  <2>1. Current' = Current /\ KeptSoFar' = KeptSoFar /\ (MayDecode' <=> MayDecode)
    BY <1>2 DEF driverVars, Current, KeptSoFar, MayDecode
  <2> QED BY <1>2, <2>1 DEF driverVars, Exact, AsFar
<1> QED BY <1>1, <1>2, StartPassExact, DecodeEscapeExact, CopyByteExact, FinishPassExact DEF DriverNext

LEMMA InitExact == DriverInit => Exact
BY PassLimitsAssumption DEF DriverInit, Exact

\* Whatever the request, the loops show exactly the interpretations of its definition: no
\* escape decoded twice in a pass, none missed, no pass skipped or repeated
\* (interpretations, Interpretation::decode).
THEOREM EveryInterpretationVisited == DriverSpec => []VisitsEveryInterpretation
<1>1. ASSUME DriverInv, Exact, pc = "done"
      PROVE  visited = Interpretations(Path, passes = 2)
  <2>1. PICK n : n = Len(visited)
    OBVIOUS
  <2>2. /\ n \in 1..3 /\ passes \in {1, 2} /\ n <= passes + 1
        /\ visited = [k \in 1..n |-> visited[k]] /\ visited[1] = Original(Path)
        /\ \A k \in 1..(n - 1) : HasEscape(visited[k].bytes) /\ visited[k + 1] = Decode(visited[k])
        /\ n > passes \/ ~HasEscape(visited[n].bytes)
    BY <1>1, <2>1 DEF DriverInv, Exact, MayDecode, Current
  <2>3. visited[1].bytes = Path
    BY <2>2 DEF Original
  <2>4. PICK raw : raw = Original(Path)
    OBVIOUS
  <2>5. PICK once : once = Decode(raw)
    OBVIOUS
  <2>6. PICK twice : twice = Decode(once)
    OBVIOUS
  <2>7. Interpretations(Path, passes = 2) =
          IF ~HasEscape(Path) THEN <<raw>>
          ELSE IF ~(passes = 2) \/ ~HasEscape(once.bytes) THEN <<raw, once>>
          ELSE <<raw, once, twice>>
    BY <2>4, <2>5, <2>6 DEF Interpretations
  <2>8. CASE n = 1
    <3>1. visited = <<raw>>
      BY <2>2, <2>4, <2>8
    <3> QED BY <2>2, <2>3, <2>7, <2>8, <3>1
  <2>9. CASE n = 2
    <3>1. visited[2] = once /\ HasEscape(Path)
      BY <2>2, <2>3, <2>4, <2>5, <2>9
    <3>2. visited = <<raw, once>>
      BY <2>2, <2>4, <2>9, <3>1
    <3>3. ~(passes = 2) \/ ~HasEscape(once.bytes)
      BY <2>2, <2>9, <3>1
    <3> QED BY <2>7, <3>1, <3>2, <3>3
  <2>10. CASE n = 3
    <3>1. visited[2] = once /\ HasEscape(Path)
      BY <2>2, <2>3, <2>4, <2>5, <2>10
    <3>2. visited[3] = twice /\ HasEscape(once.bytes)
      BY <2>2, <2>6, <2>10, <3>1
    <3>3. visited = <<raw, once, twice>> /\ passes = 2
      BY <2>2, <2>4, <2>10, <3>1, <3>2
    <3> QED BY <2>7, <3>1, <3>2, <3>3
  <2> QED BY <2>2, <2>8, <2>9, <2>10
<1>2. DriverInv /\ Exact => VisitsEveryInterpretation
  BY <1>1 DEF VisitsEveryInterpretation
<1>3. DriverInv /\ Exact /\ [DriverNext]_driverVars => Exact'
  BY StepExact
<1> QED BY <1>2, <1>3, InitExact, Invariance, PTL DEF DriverSpec
=============================================================================
