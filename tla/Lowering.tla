------------------------------ MODULE Lowering ------------------------------
(***************************************************************************)
(* From the text of a registration to terminals (subtree_patterns,         *)
(* lower_matchit, validate_pattern): a text is split into segments, each   *)
(* segment is read up to its first unpaired brace, what is lowered is      *)
(* checked for structure the guard would deny, and the next pattern of the *)
(* registration follows.                                                   *)
(*                                                                         *)
(* A text is its bytes.  The segment in hand is parts[Len(segments) + 1];  *)
(* position 1 here is index 0 of the code.                                 *)
(***************************************************************************)
EXTENDS Analysis

CONSTANTS
  Texts,        \* what is registered: a pattern, or the path of a subtree
  Configs,      \* the guard configurations
  Requests      \* the paths a subtree is asked about

ASSUME TextsAssumption == \A t \in Texts : t \in Seq(Byte)
ASSUME ConfigsAssumption == \A c \in Configs : c \in Config
ASSUME StarAssumption == Star \notin Seq(Byte)
ASSUME RequestsAssumption == \A r \in Requests : r \in Seq(Byte) /\ Rooted(r)

OpenBrace  == 123
CloseBrace == 125
Braces == {OpenBrace, CloseBrace}

\* subtree_patterns appends "{*rest}".
RestGroup == <<OpenBrace, Asterisk, 114, 101, 115, 116, CloseBrace>>

\* Slip: the path with a trailing slash left out.
SubtreePatternsShort(path) ==
  IF path # << >> /\ Last(path) = Slash THEN <<path, path \o RestGroup>>
  ELSE <<path, path \o <<Slash>> \o RestGroup>>

SubtreePatterns(path) ==
  IF path # << >> /\ Last(path) = Slash THEN <<path, path \o RestGroup>>
  ELSE <<path, path \o <<Slash>>, path \o <<Slash>> \o RestGroup>>

Literal(text) == [kind |-> "literal", text |-> text]
Wildcard == [kind |-> "wildcard"]
CatchAll == [kind |-> "catchall"]

VARIABLES
  asked, config,     \* the arguments: [kind, text] and the settings
  accepted,          \* the terminals of the patterns lowered so far
  stage,             \* "split", "lower", "validate", "accepted", "failed"
  parts,             \* the segments of the pattern in hand, as text
  trailing_slash,
  segments,          \* the segments lowered so far
  i,                 \* next byte of the segment in hand, or next segment to validate
  failure            \* the error returned, when failed

arguments == <<asked, config>>
vars == <<asked, config, accepted, stage, parts, trailing_slash, segments, i, failure>>

NoFailure == "none"

Patterns == IF asked.kind = "subtree" THEN SubtreePatterns(asked.text) ELSE <<asked.text>>
Pattern == Patterns[Len(accepted) + 1]

Init ==
  /\ asked \in [kind : {"path", "subtree"}, text : Texts]
  /\ config \in Configs
  /\ accepted = << >> /\ stage = "split"
  /\ parts = << >> /\ trailing_slash = FALSE /\ segments = << >> /\ i = 1
  /\ failure = NoFailure

Fail(reason) ==
  /\ stage' = "failed" /\ failure' = reason
  /\ UNCHANGED <<arguments, accepted, parts, trailing_slash, segments, i>>

-----------------------------------------------------------------------------
(***************************************************************************)
(* split_body.                                                             *)
(***************************************************************************)
SplitBody ==
  /\ stage = "split"
  /\ LET body     == Tail(Pattern)
         trailing == body # << >> /\ Last(body) = Slash
         stripped == IF trailing THEN Front(body) ELSE body
         split    == IF stripped = << >> THEN << >> ELSE PathOf(<<Slash>> \o stripped)
     IN  IF ~Rooted(Pattern) THEN Fail("MissingLeadingSlash")
         ELSE IF Empty \in Range(split) THEN Fail("EmptyInteriorSegment")
         ELSE /\ parts' = split /\ trailing_slash' = trailing /\ segments' = << >> /\ i' = 1
              /\ stage' = "lower"
              /\ UNCHANGED <<arguments, accepted, failure>>

(***************************************************************************)
(* lower_segment, on the segment in hand.                                  *)
(***************************************************************************)
Segment == parts[Len(segments) + 1]
Lowering == stage = "lower" /\ Len(segments) < Len(parts)
AtByte(byte) == Lowering /\ i <= Len(Segment) /\ Segment[i] = byte
Paired == i < Len(Segment) /\ Segment[i + 1] = Segment[i]

Skip(n) == i' = i + n /\ UNCHANGED <<arguments, accepted, stage, parts, trailing_slash, segments, failure>>

Push(segment) ==
  /\ segments' = Append(segments, segment) /\ i' = 1
  /\ UNCHANGED <<arguments, accepted, stage, parts, trailing_slash, failure>>

\* Of each run of one of these bytes every second one goes (str::replace, from the left;
\* one brace is left of every run, so the two replacements do not meet).
HalveRuns(b, bytes) ==
  LET RunBefore(k) == {j \in 1..(k - 1) : \A l \in j..k : b[l] = b[k]}
      Dropped(k)   == b[k] \in bytes /\ Cardinality(RunBefore(k)) % 2 = 1
  IN  FlattenSeq([k \in DOMAIN b |-> IF Dropped(k) THEN << >> ELSE <<b[k]>>])

\* Slip: doubled closing braces left as they are.
UnescapeOpenOnly(b) == HalveRuns(b, {OpenBrace})

UnescapeBraces(b) == HalveRuns(b, Braces)

\* Slip: a doubled closing brace not passed over.
ReadPairInPlace ==
  \E brace \in Braces : AtByte(brace) /\ Paired /\ Skip(IF brace = OpenBrace THEN 2 ELSE 0)

ReadPair == \E brace \in Braces : AtByte(brace) /\ Paired /\ Skip(2)

ReadPlain == Lowering /\ i <= Len(Segment) /\ Segment[i] \notin Braces /\ Skip(1)

StrayClose == AtByte(CloseBrace) /\ ~Paired /\ Fail("MalformedParam")

EndLiteral == Lowering /\ i > Len(Segment) /\ Push(Literal(UnescapeBraces(Segment)))

\* What stands between the braces, and the place of a catch-all (lower_matchit).
LowerGroup(inner) ==
  LET catch_all == inner # << >> /\ inner[1] = Asterisk
      name      == IF catch_all THEN Tail(inner) ELSE inner
      last      == Len(segments) + 1 = Len(parts)
  IN  IF name = << >> \/ Asterisk \in Range(name) THEN Fail("InvalidParam")
      ELSE IF ~catch_all THEN Push(Wildcard)
      ELSE IF ~last \/ trailing_slash THEN Fail("CatchAllNotLast")
      ELSE Push(CatchAll)

\* The first unpaired open brace: the group ends at the next close brace.
ReadGroup ==
  /\ AtByte(OpenBrace) /\ ~Paired
  /\ LET closing == {k \in (i + 1)..Len(Segment) : Segment[k] = CloseBrace}
     IN  IF closing = {} THEN Fail("MalformedParam")
         ELSE IF i # 1 \/ closing # {Len(Segment)} THEN Fail("PrefixSuffixParam")
         ELSE LowerGroup(SubSeq(Segment, 2, Len(Segment) - 1))

\* Lowered; the literals are checked when the guard is active.
FinishLowering ==
  /\ stage = "lower" /\ Len(segments) = Len(parts)
  /\ stage' = "validate" /\ i' = 1
  /\ UNCHANGED <<arguments, accepted, parts, trailing_slash, segments, failure>>

-----------------------------------------------------------------------------
(***************************************************************************)
(* validate_pattern, on the lowered segments.                              *)
(***************************************************************************)
Validating == stage = "validate" /\ i <= Len(segments) /\ config.mode # "Disabled"

\* Slip: the literal scanned as written, its escapes not decoded.
FormOfOriginal(literal) == ScanOf(Original(literal), Positional(config), config.enc).classes \cap Positional(config)

\* classes_present, masked.
Form(literal) == ScanAll(config, literal, Positional(config)).classes \cap Positional(config)

ValidateSegment ==
  /\ Validating
  /\ IF segments[i].kind # "literal" THEN Skip(1)
     ELSE IF Form(segments[i].text) # {} THEN Fail("NonCanonical")
     ELSE IF config.insensitive /\ HasUppercase(segments[i].text) THEN Fail("NonCanonicalCase")
     ELSE Skip(1)

Edge(segment) == IF segment.kind = "literal" THEN segment.text ELSE Star

\* Slip: the trailing slash forgotten.
TerminalOfBare(segs, trailing) ==
  LET catch_all == segs # << >> /\ Last(segs) = CatchAll
      edges     == IF catch_all THEN Front(segs) ELSE segs
  IN  [node |-> [k \in DOMAIN edges |-> Edge(edges[k])], slot |-> IF catch_all THEN "catchall" ELSE "leaf"]

\* Where Router::build will put the pattern (terminal).
TerminalOf(segs, trailing) ==
  LET catch_all == segs # << >> /\ Last(segs) = CatchAll
      edges     == IF catch_all THEN Front(segs) ELSE segs
  IN  [node |-> [k \in DOMAIN edges |-> Edge(edges[k])],
       slot |-> IF catch_all THEN "catchall" ELSE IF trailing THEN "leaf_slash" ELSE "leaf"]

FinishPattern ==
  /\ stage = "validate" /\ ~Validating
  /\ accepted' = Append(accepted, TerminalOf(segments, trailing_slash))
  /\ stage' = IF Len(accepted') = Len(Patterns) THEN "accepted" ELSE "split"
  /\ UNCHANGED <<arguments, parts, trailing_slash, segments, i, failure>>

Read == ReadPair \/ ReadPlain \/ StrayClose \/ EndLiteral \/ ReadGroup \/ FinishLowering

Next == SplitBody \/ Read \/ ValidateSegment \/ FinishPattern

Spec == Init /\ [][Next]_vars

\* The call runs alone: what it can do next it does.
FairSpec == Spec /\ WF_vars(Read)
-----------------------------------------------------------------------------
(***************************************************************************)
(* The grammar, without a cursor.                                          *)
(***************************************************************************)
\* The run of equal bytes around position k.
RunAt(part, k) == {j \in DOMAIN part : \A l \in DOMAIN part : (j <= l /\ l <= k) \/ (k <= l /\ l <= j)
                                                            => part[l] = part[k]}

\* Every brace is half of a pair.
IsStatic(part) == \A k \in DOMAIN part : part[k] \in Braces => Cardinality(RunAt(part, k)) % 2 = 0

\* One group from end to end, and what it captures.
IsGroup(part) ==
  /\ Len(part) >= 3
  /\ part[1] = OpenBrace /\ part[2] # OpenBrace
  /\ {k \in DOMAIN part : part[k] = CloseBrace} = {Len(part)}
CaptureOf(part) == SubSeq(part, 2, Len(part) - 1)
IsParameter(part) == IsGroup(part) /\ Asterisk \notin Range(CaptureOf(part))
IsRest(part) ==
  IsGroup(part) /\ Len(part) >= 4 /\ {k \in DOMAIN CaptureOf(part) : CaptureOf(part)[k] = Asterisk} = {1}

\* The root with a trailing slash, as split_body reads it.
TwoSlashes == <<Slash, Slash>>

\* A group whose name has an open brace in it, which ends at its close brace all the same.
HasBraceInName(part) == IsGroup(part) /\ OpenBrace \in Range(CaptureOf(part))

\* The grammar of the reference (routing.md, "Forbidden registrations").
InGrammar(text) ==
  LET path == PathOf(text)
  IN  /\ Rooted(text)
      /\ \A k \in 1..(Len(path) - 1) : path[k] # Empty
      /\ \A k \in DOMAIN path :
           /\ IsStatic(path[k]) \/ IsParameter(path[k]) \/ (IsRest(path[k]) /\ k = Len(path))
           /\ ~HasBraceInName(path[k])

\* A request the pattern stands for: literals spelled out, a plain byte for a capture.
Spelled(text) ==
  FlattenSeq([k \in DOMAIN PathOf(text) |->
    <<Slash>> \o (IF IsGroup(PathOf(text)[k]) THEN <<97>> ELSE UnescapeBraces(PathOf(text)[k]))])

\* Nothing the active guard takes for structure.
IsClean(text) ==
  config.mode # "Disabled" =>
    /\ ScanAll(config, Spelled(text), Positional(config)).classes \cap Positional(config) = {}
    /\ config.insensitive => ~HasUppercase(Spelled(text))

Documented(text) == InGrammar(text) /\ IsClean(text)

\* The text with a plain byte for each open brace in a name.
Renamed(text) ==
  LET NewName(part) ==
        IF HasBraceInName(part)
        THEN [k \in DOMAIN part |-> IF k > 1 /\ part[k] = OpenBrace THEN 97 ELSE part[k]]
        ELSE part
  IN  FlattenSeq([k \in DOMAIN PathOf(text) |-> <<Slash>> \o NewName(PathOf(text)[k])])

\* What is accepted although the reference forbids it: open braces in the names of an
\* otherwise documented pattern, and two slashes.
BraceInName(text) ==
  /\ Rooted(text) /\ \E k \in DOMAIN PathOf(text) : HasBraceInName(PathOf(text)[k])
  /\ Documented(Renamed(text))
TwoSlashesAlone(text) == text = TwoSlashes

Doubled(b) == FlattenSeq([k \in DOMAIN b |-> IF b[k] \in Braces THEN <<b[k], b[k]>> ELSE <<b[k]>>])

\* A segment of a path that a segment of a pattern's text stands for.
StandsFor(part, segment) ==
  IF IsParameter(part) THEN segment # Empty ELSE Doubled(segment) = part

\* The text a terminal can have been written as.
WrittenAs(t, text) ==
  LET path == PathOf(text)
      d    == Len(t.node)
  IN  /\ \A k \in 1..d : IF t.node[k] = Star THEN IsParameter(path[k]) ELSE path[k] = Doubled(t.node[k])
      /\ CASE t.slot = "catchall"   -> Len(path) = d + 1 /\ IsRest(path[d + 1])
           [] t.slot = "leaf_slash" -> IF d = 0 THEN text = TwoSlashes ELSE Len(path) = d + 1 /\ path[d + 1] = Empty
           [] t.slot = "leaf"       -> IF d = 0 THEN path = Bare ELSE Len(path) = d

(***************************************************************************)
(* Properties.                                                             *)
(***************************************************************************)
Over == stage \in {"accepted", "failed"}

\* A registration is accepted exactly when each of its texts is in the documented
\* grammar and, taken as a path, has nothing the active guard would call structure:
\* reading a segment up to its first unpaired brace and checking literal by literal
\* amount to that (lower_segment, validate_pattern).  Two exceptions, which the
\* reference forbids and the code accepts: BraceInName (against routing.md:43 and the
\* comment at route_tree.rs:240) and TwoSlashesAlone, an empty interior segment whatever
\* the mode (against routing.md:40 and path_router.rs:94).
AcceptsExactly ==
  Over => (stage = "accepted") =
            \A k \in DOMAIN Patterns :
              Documented(Patterns[k]) \/ BraceInName(Patterns[k]) \/ TwoSlashesAlone(Patterns[k])

\* Lowering loses nothing but the names of captures: a terminal determines its text up
\* to them, so no two different paths are guarded by one terminal
\* (unescape_braces undoes exactly the doubling of braces).
LoweringInverts == \A k \in DOMAIN accepted : WrittenAs(accepted[k], Patterns[k])

\* A subtree's terminals claim its path, the path with a slash and everything below,
\* each by one terminal and nothing else; a path given with a trailing slash leaves
\* out the bare one (subtree_patterns).
SubtreeCovers ==
  (stage = "accepted" /\ asked.kind = "subtree") =>
    \A q \in {PathOf(r) : r \in Requests} :
      LET path   == PathOf(asked.text)
          inside == /\ Len(q) >= Len(path)
                    /\ \A k \in DOMAIN path : path[k] # Empty => StandsFor(path[k], q[k])
      IN  Cardinality({k \in DOMAIN accepted : Claims(accepted[k], q)}) = IF inside THEN 1 ELSE 0

\* What is accepted can be asked for: the terminal claims a path spelled as the pattern
\* is, which the strict mode answers unless it holds an escape, and which is a request
\* path unless the guard is disabled or query or fragment handling is off (a literal may
\* then hold `?` or `#`).  The exception is `//`: no path claims its terminal.
AcceptedIsReachable ==
  \A k \in DOMAIN accepted :
    LET spelled == Spelled(Patterns[k])
    IN  IF TwoSlashesAlone(Patterns[k]) THEN \A r \in Requests : ~Claims(accepted[k], PathOf(r))
        ELSE /\ Claims(accepted[k], PathOf(spelled))
             /\ (config.mode # "Disabled" /\ {"Query", "Fragment"} \subseteq config.options) =>
                  IsRequestPath(spelled)
             /\ (config.mode = "RequireCanonical" /\ ~HasEscape(spelled)) =>
                  ScanAll(config, spelled, Strict(config)).classes \cap Strict(config) = {}

\* However its braces are paired or cut off, the text of a pattern is read to an end,
\* in segments or in an error (the cursor of lower_segment, the loop of lower_matchit).
ReadingEnds == stage = "lower" ~> stage # "lower"

=============================================================================
