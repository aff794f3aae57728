------------------------------ MODULE Backend ------------------------------
(***************************************************************************)
(* The guard in front of a backend that rewrites the path before it routes *)
(* it: the executable backend model the repository tests against           *)
(* (path_confusion_proptest), composed with the verdict.                   *)
(*                                                                         *)
(* The test samples one order of a backend's transforms per case.  Here a  *)
(* backend takes any available transform at any time, so a behaviour is    *)
(* any subset in any order, repeated at will, stopped anywhere; only the   *)
(* decode passes are bounded, by the declared depth, and each pass may     *)
(* decode its own choice of escape classes.                                *)
(***************************************************************************)
EXTENDS Guard

VARIABLES
  text,     \* what the backend has made of the request
  passes    \* decode passes taken

backendVars == <<vars, text, passes>>

-----------------------------------------------------------------------------
(***************************************************************************)
(* decode_pass.  A pass decodes every escape of the chosen classes.        *)
(***************************************************************************)
Kinds == {"sep", "dot", "nul", "param", "query", "fragment", "content"}

\* The class that must be chosen for an escaped byte to be decoded.
KindOf(byte, cfg) ==
  CASE byte = Slash     -> {"sep"}
    [] byte = Backslash -> IF "Backslash" \in cfg.options THEN {"sep"} ELSE {}
    [] byte = Dot       -> {"dot"}
    [] byte = Nul       -> {"nul"}
    [] byte = Semicolon -> {"param"}
    [] byte = Question  -> {"content"} \cup (IF "Query" \in cfg.options THEN {"query"} ELSE {})
    [] byte = Hash      -> {"content"} \cup (IF "Fragment" \in cfg.options THEN {"fragment"} ELSE {})
    [] OTHER            -> {"content"}

\* A two-byte overlong slash or dot spelled as two escapes.
OverlongEscape(b, i, byte) ==
  /\ EscapeAt(b, i) /\ EscapeAt(b, i + 3)
  /\ ByteAt(b, i) = 192 /\ ByteAt(b, i + 3) = 128 + byte

Piece(bytes, width) == [bytes |-> bytes, width |-> width]

\* What a pass makes of position i, and how many bytes it takes.
PieceAt(b, i, kinds, cfg) ==
  IF ~EscapeAt(b, i) THEN Piece(<<b[i]>>, 1)
  ELSE IF ByteAt(b, i) = PercentSign THEN Piece(<<PercentSign>>, 3)
  ELSE IF "sep" \in kinds /\ cfg.enc.overlong_slash /\ OverlongEscape(b, i, Slash) THEN Piece(<<Slash>>, 6)
  ELSE IF "dot" \in kinds /\ cfg.enc.overlong_dot /\ OverlongEscape(b, i, Dot) THEN Piece(<<Dot>>, 6)
  ELSE IF KindOf(ByteAt(b, i), cfg) \cap kinds # {}
    THEN Piece(<<IF ByteAt(b, i) = Backslash THEN Slash ELSE ByteAt(b, i)>>, 3)
  ELSE Piece(<<b[i]>>, 1)

\* Every lead byte has its continuation bytes, every continuation byte its lead, and
\* no sequence is overlong or a surrogate.
Utf8(b) ==
  LET Tails(lead) == CASE lead \in 194..223 -> 1 [] lead \in 224..239 -> 2
                      [] lead \in 240..244 -> 3 [] OTHER -> 0
      Second(lead) == CASE lead = 224 -> 160..191 [] lead = 237 -> 128..159
                        [] lead = 240 -> 144..191 [] lead = 244 -> 128..143
                        [] OTHER      -> 128..191
  IN  \A i \in DOMAIN b :
        /\ b[i] \notin 192..193 \cup 245..255
        /\ Continuation(b[i]) => \E k \in 1..3 : k < i /\ Tails(b[i - k]) >= k
        /\ Tails(b[i]) > 0 => /\ i + Tails(b[i]) <= Len(b)
                             /\ b[i + 1] \in Second(b[i])
                             /\ \A k \in 1..Tails(b[i]) : Continuation(b[i + k])

\* A pass that would produce invalid UTF-8 leaves the path as it is.
DecodePass(b, kinds, cfg) ==
  LET piece == [i \in DOMAIN b |-> PieceAt(b, i, kinds, cfg)]
      Taken(i) == \E j \in Greater(1, i - 5)..(i - 1) : j + piece[j].width > i
      out   == FlattenSeq([i \in DOMAIN b |-> IF Taken(i) THEN << >> ELSE piece[i].bytes])
  IN  IF Utf8(out) THEN out ELSE b

\* The classes of the escapes present: choosing others changes nothing.
PresentKinds(b, cfg) ==
  (UNION {KindOf(ByteAt(b, i), cfg) : i \in {j \in DOMAIN b : EscapeAt(b, j)}})
  \cup (IF \E i \in DOMAIN b : OverlongEscape(b, i, Slash) THEN {"sep"} ELSE {})
  \cup (IF \E i \in DOMAIN b : OverlongEscape(b, i, Dot) THEN {"dot"} ELSE {})

(***************************************************************************)
(* The structural transforms.                                              *)
(***************************************************************************)
\* Backslash, case: byte by byte.
Slashed(b) == [i \in DOMAIN b |-> IF b[i] = Backslash THEN Slash ELSE b[i]]

\* Truncations: everything before the first such byte.
CutAt(b, byte) == SubSeq(b, 1, CHOOSE n \in 0..Len(b) : /\ n = Len(b) \/ b[n + 1] = byte
                                                      /\ \A i \in 1..n : b[i] # byte)

FoldFullwidth(b) ==
  FlattenSeq([i \in DOMAIN b |->
    IF FullwidthAt(b, i) THEN <<FullwidthFold(b[i + 2])>>
    ELSE IF \E k \in 1..2 : i > k /\ FullwidthAt(b, i - k) THEN << >> ELSE <<b[i]>>])

\* The bytes of b but those at some positions.
Without(b, positions) ==
  FlattenSeq([i \in DOMAIN b |-> IF i \in positions THEN << >> ELSE <<b[i]>>])

\* A parameter runs from a semicolon to the next slash.
StripParams(b) ==
  Without(b, {i \in DOMAIN b : \E j \in 1..i : b[j] = Semicolon /\ \A k \in j..i : b[k] # Slash})

MergeSlashes(b) == Without(b, {i \in DOMAIN b : i > 1 /\ b[i] = Slash /\ b[i - 1] = Slash})

\* RFC 3986 remove_dot_segments on a rooted path; a dot-segment at the end leaves
\* its slash behind.
RemoveDots(b) ==
  LET segs == PathOf(b)
      out[k \in 0..Len(segs)] ==
        IF k = 0 THEN << >>
        ELSE IF segs[k] \notin {<<Dot>>, <<Dot, Dot>>} THEN Append(out[k - 1], segs[k])
        ELSE LET kept == IF segs[k] = <<Dot>> \/ out[k - 1] = << >> THEN out[k - 1] ELSE Front(out[k - 1])
             IN  IF k = Len(segs) THEN Append(kept, Empty) ELSE kept
  IN  FlattenSeq([k \in DOMAIN out[Len(segs)] |-> <<Slash>> \o out[Len(segs)][k]])

-----------------------------------------------------------------------------
BackendInit == Init /\ text = request /\ passes = 0

Judge == Next /\ UNCHANGED <<text, passes>>

\* The backend works on whatever the request was, answered or not: the anchor must
\* hold for both.
Rewrite(new) == Done /\ text' = new /\ UNCHANGED <<vars, passes>>

DecodeEscapes ==
  /\ Done
  /\ passes < (IF config.up_to_two THEN 2 ELSE 1)
  /\ passes' = passes + 1
  /\ \E kinds \in SUBSET PresentKinds(text, config) : text' = DecodePass(text, kinds, config)
  /\ UNCHANGED vars

SlashBackslashes == "Backslash" \in config.options /\ Rewrite(Slashed(text))
TruncateAtNul    == Rewrite(CutAt(text, Nul))
CutQuery         == "Query" \in config.options /\ Rewrite(CutAt(text, Question))
CutFragment      == "Fragment" \in config.options /\ Rewrite(CutAt(text, Hash))
FoldUnicode      == config.enc.unicode /\ Rewrite(FoldFullwidth(text))
Strip            == Rewrite(StripParams(text))
Merge            == Rewrite(MergeSlashes(text))
ResolveDots      == Rooted(text) /\ Rewrite(RemoveDots(text))
FoldCase         == config.insensitive /\ Rewrite(Lowered(text))

Transform ==
  \/ DecodeEscapes \/ SlashBackslashes \/ TruncateAtNul \/ CutQuery \/ CutFragment
  \/ FoldUnicode \/ Strip \/ Merge \/ ResolveDots \/ FoldCase

BackendNext == Judge \/ Transform

BackendSpec == BackendInit /\ [][BackendNext]_backendVars

-----------------------------------------------------------------------------
(***************************************************************************)
(* Properties.                                                             *)
(***************************************************************************)
Guarded == Done /\ verdict.allowed /\ config.mode # "Disabled"

\* The promise of the crate as its test has it: once a request is answered with a rule, no
\* backend of the declared family ends up at a path of another rule, in whatever order and
\* however often it transforms (guard_denies_every_modeled_relocation).  One does.
DeniesEveryModeledRelocation == Guarded => Resolve(table, text) = verdict.rule

\* What the guard looked at besides the request itself.
Views == Interpretations(request, config.up_to_two)

\* A backend of the family need not fold the case the configuration declares, but the
\* guard has routed a decoded spelling with its case folded alone.
DecodedUnfolded == config.insensitive /\ passes > 0 /\ HasUppercase(text)

\* Folding fullwidth forms makes a backslash of its own, also where backslashes are
\* declared to be content; the guard then takes the fullwidth one for content too.
FullwidthBackslash ==
  /\ config.enc.unicode /\ "Backslash" \notin config.options
  /\ \E k \in DOMAIN Views : \E i \in DOMAIN Views[k].bytes :
       FullwidthAt(Views[k].bytes, i) /\ FullwidthFold(Views[k].bytes[i + 2]) = Backslash

\* There a backend that decodes content leaves an escaped backslash alone, and the guard
\* has routed it decoded, or as it stands with nothing decoded.
EscapedBackslash ==
  /\ "Backslash" \notin config.options
  /\ \E k \in DOMAIN Views : \E i \in DOMAIN Views[k].bytes :
       Views[k].bytes[i] = Backslash /\ Escaped(Views[k], i)

\* A path decoded in part can have a segment that a literal of the table spells.
EscapeInTable ==
  \E n \in table.nodes : \E j \in DOMAIN n :
    n[j] # Star /\ PercentSign \in Range(n[j]) /\ n[j] \in Range(PathOf(text))

\* Those four apart, the promise holds.
NoRelocation ==
  Guarded => \/ Resolve(table, text) = verdict.rule
             \/ DecodedUnfolded \/ FullwidthBackslash \/ EscapedBackslash \/ EscapeInTable

\* The premise of the scoped verdict, for denied requests too: no transform rewrites
\* anything inside the anchor (no_modeled_transform_rewrites_inside_the_anchor), but for
\* the backslash that folding makes.
AnchorSurvives ==
  Done => \/ \A q \in StructuralAnchor(config, request) : IsPrefix(q, text)
          \/ FullwidthBackslash

\* In the strict mode a backend finds nothing to transform in an answered request, with
\* the same exception.
CanonicalUntouched ==
  (Guarded /\ config.mode = "RequireCanonical") => text = request \/ FullwidthBackslash
=============================================================================
