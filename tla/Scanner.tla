------------------------------ MODULE Scanner ------------------------------
(***************************************************************************)
(* The scan of one interpretation (scan_interpretation): a loop over its   *)
(* units that classifies each and keeps the state of the current segment,  *)
(* one action per kind of unit.                                            *)
(***************************************************************************)
EXTENDS Structural

CONSTANTS
  Views,     \* the interpretations to scan
  Configs    \* the scan masks: [enabled, enc]

\* A view begins where its request does.
Scannable(v) ==
  WellFormed(v) /\ Len(v.original) \in 1..(NoOffset - 1) /\ SourceOffset(v, 1) = 1
ScanMask == [enabled : SUBSET Classes, enc : Encodings]

ASSUME ViewsAssumption == \A v \in Views : Scannable(v)
ASSUME ConfigsAssumption == Configs \subseteq ScanMask

VARIABLES
  view, cfg,        \* the arguments
  cursor,           \* next byte to read
  segment,          \* state of the current segment (DotSegment)
  previous_slash,   \* the unit before the cursor is a slash
  result,           \* what has been found so far
  done

vars == <<view, cfg, cursor, segment, previous_slash, result, done>>

FreshSegment(start) ==
  [bare_len |-> 0, bare_dots |-> 0, in_param |-> FALSE, alternate_dot |-> FALSE, start |-> start]

Literal(seg) == seg.bare_len = seg.bare_dots /\ seg.bare_len \in 1..2

\* Slip: only a literal dot-segment counts as a climb.
FinishLiteralOnly(res, seg, enabled) ==
  IF Literal(seg) THEN [Hit(res, {"DotSegment"}, seg.start, enabled) EXCEPT !.dot_pops = @ + 1] ELSE res

\* DotSegment::finish: a literal dot-segment is an occurrence at its first dot, and
\* a segment that can climb counts once.
FinishSegment(res, seg, enabled) ==
  LET found == IF Literal(seg) THEN Hit(res, {"DotSegment"}, seg.start, enabled) ELSE res
  IN  IF Literal(seg) \/ seg.alternate_dot THEN [found EXCEPT !.dot_pops = @ + 1] ELSE found

Init ==
  /\ view \in Views
  /\ cfg \in Configs
  /\ cursor = 1
  /\ segment = FreshSegment(1)
  /\ previous_slash = FALSE
  /\ result = EmptyResult
  /\ done = FALSE

-----------------------------------------------------------------------------
Here == Unit(view, cursor, cfg.enc)

Reading == ~done /\ cursor <= Len(view.bytes)

\* result.hit(class, source, enabled) for the unit under the cursor.
Classified ==
  Hit(result, ClassOf(Here, previous_slash), SourceOffset(view, cursor), cfg.enabled)

Advance ==
  /\ previous_slash' = (Here.byte = Slash)
  /\ cursor' = cursor + Here.width
  /\ UNCHANGED <<view, cfg, done>>

\* Slip: the next segment starts at its separator.
ReadSeparatorEarly ==
  /\ Reading
  /\ Separates(Here, cfg.enabled)
  /\ result' = FinishSegment(Classified, segment, cfg.enabled)
  /\ segment' = FreshSegment(SourceOffset(view, cursor))
  /\ Advance

ReadSeparator ==
  /\ Reading
  /\ Separates(Here, cfg.enabled)
  /\ result' = FinishSegment(Classified, segment, cfg.enabled)
  /\ segment' = FreshSegment(SourceOffset(view, cursor + Here.width))
  /\ Advance

\* Slip: the cursor stays on the delimiter.
ReadDelimiterInPlace ==
  /\ Reading
  /\ Delimits(Here, cfg.enabled)
  /\ segment' = [segment EXCEPT !.in_param = TRUE]
  /\ UNCHANGED <<view, cfg, cursor, previous_slash, result, done>>

ReadDelimiter ==
  /\ Reading
  /\ Delimits(Here, cfg.enabled)
  /\ result' = Classified
  /\ segment' = [segment EXCEPT !.in_param = TRUE]
  /\ Advance

\* Slips: dots counted in parameters too; alternate dots not counted there.
ReadContentDotsAnywhere ==
  /\ Reading
  /\ ~Separates(Here, cfg.enabled) /\ ~Delimits(Here, cfg.enabled)
  /\ result' = Classified
  /\ segment' = [segment EXCEPT
       !.bare_len      = IF segment.in_param THEN @ ELSE @ + 1,
       !.bare_dots     = IF Here.byte = Dot THEN @ + 1 ELSE @,
       !.alternate_dot = @ \/ (Here.byte = Dot /\ Here.encoded)]
  /\ Advance
ReadContentBareOnly ==
  /\ Reading
  /\ ~Separates(Here, cfg.enabled) /\ ~Delimits(Here, cfg.enabled)
  /\ result' = Classified
  /\ segment' = IF segment.in_param THEN segment
                ELSE [segment EXCEPT !.bare_len  = @ + 1,
                                     !.bare_dots = IF Here.byte = Dot THEN @ + 1 ELSE @,
                                     !.alternate_dot = @ \/ (Here.byte = Dot /\ Here.encoded)]
  /\ Advance

ReadContent ==
  /\ Reading
  /\ ~Separates(Here, cfg.enabled)
  /\ ~Delimits(Here, cfg.enabled)
  /\ result' = Classified
  /\ segment' = [segment EXCEPT
       !.bare_len      = IF segment.in_param THEN @ ELSE @ + 1,
       !.bare_dots     = IF segment.in_param \/ Here.byte # Dot THEN @ ELSE @ + 1,
       !.alternate_dot = @ \/ (Here.byte = Dot /\ Here.encoded)]
  /\ Advance

\* The last segment ends with the path.
Finish ==
  /\ ~done
  /\ cursor > Len(view.bytes)
  /\ result' = FinishSegment(result, segment, cfg.enabled)
  /\ done' = TRUE
  /\ UNCHANGED <<view, cfg, cursor, segment, previous_slash>>

Next == ReadSeparator \/ ReadDelimiter \/ ReadContent \/ Finish

\* One thread runs the loop whenever it can.
Spec == Init /\ [][Next]_vars /\ WF_vars(Next)

-----------------------------------------------------------------------------
(***************************************************************************)
(* Properties.                                                             *)
(***************************************************************************)
Segment == [bare_len : Nat, bare_dots : Nat, in_param : BOOLEAN,
            alternate_dot : BOOLEAN, start : Nat \ {0}]

\* Type invariant.
TypeOK ==
  /\ Scannable(view)
  /\ cfg \in ScanMask
  /\ cursor \in Nat \ {0}
  /\ segment \in Segment
  /\ segment.bare_dots <= segment.bare_len
  /\ previous_slash \in BOOLEAN
  /\ result \in ScanResult
  /\ done \in BOOLEAN

\* An enabled class has been found exactly when there is an earliest occurrence,
\* which lies inside the request: the verdict always has a place to anchor
\* (the unwrap of scan.earliest in positional_deny and structural_anchor).
EarliestAgrees ==
  /\ (result.classes \cap cfg.enabled # {}) <=> (result.earliest # NoOffset)
  /\ result.earliest # NoOffset => result.earliest \in 1..Len(view.original)

\* At the end a climb was counted exactly when the dot-segment class was found: an
\* undercount would anchor too deep, a class without a climb likewise.
PopsAgree == done => (result.dot_pops >= 1 <=> "DotSegment" \in result.classes)

\* The loop reports exactly the classes, first position and climbs of the path.
ScansEverything == done => result = ScanOf(view, cfg.enabled, cfg.enc)

\* Switching one more class or encoding on never hides anything a narrower
\* configuration found (the scanner half of "stricter only denies more").
Monotone ==
  done => \A c \in Configs :
            (/\ c.enabled \subseteq cfg.enabled
             /\ \A e \in DOMAIN c.enc : c.enc[e] => cfg.enc[e])
            => LET r == ScanOf(view, c.enabled, c.enc)
               IN  FindsAtLeast([result EXCEPT !.classes = @ \cap cfg.enabled],
                                [r EXCEPT !.classes = @ \cap c.enabled])

\* The loop always returns.
Terminates == <>done
=============================================================================
