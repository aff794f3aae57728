------------------------------ MODULE Analysis ------------------------------
(***************************************************************************)
(* What the guard computes about one path under one configuration: the     *)
(* findings joined over its interpretations, the anchor they leave, and    *)
(* the rules beyond it.                                                    *)
(***************************************************************************)
EXTENDS Structural, Reach, RequestPath, SequencesExt

\* A segment is its bytes here, and the empty one has none.
ASSUME EmptyAssumption == Empty = << >>

Modes == {"Disabled", "RejectAmbiguous", "RequireCanonical"}

\* GuardConfig.  A probe is any predicate of the path; what each one, in order, says
\* of the request is an input.
Config == [mode : Modes, options : SUBSET {"Backslash", "Query", "Fragment"}, enc : Encodings,
           up_to_two : BOOLEAN, insensitive : BOOLEAN, max_len : Nat, probes : Seq(BOOLEAN)]

-----------------------------------------------------------------------------
Lower(byte) == IF byte \in Uppercase THEN byte + 32 ELSE byte
Lowered(b) == [i \in DOMAIN b |-> Lower(b[i])]
HasUppercase(b) == \E i \in DOMAIN b : b[i] \in Uppercase

(***************************************************************************)
(* The anchor: the prefix of a request no modelled transform rewrites.     *)
(***************************************************************************)
ContentBytes(insensitive) == {PercentSign} \cup (IF insensitive THEN Uppercase ELSE {})

\* first_content_byte, or NoOffset.
FirstContentByte(b, insensitive) ==
  LET found == {i \in DOMAIN b : b[i] \in ContentBytes(insensitive)}
  IN  CHOOSE i \in found \cup {NoOffset} : \A j \in found : i <= j

\* Up to and including the last slash before the offset.
StablePrefix(b, offset) ==
  LET slashes == {i \in DOMAIN b : i < offset /\ b[i] = Slash}
  IN  IF slashes = {} THEN <<Slash>>
      ELSE SubSeq(b, 1, CHOOSE i \in slashes : \A j \in slashes : j <= i)

\* One pop drops the last segment of a prefix; the root absorbs any excess.
Raise(prefix, k) ==
  LET slashes == InOrder({i \in 1..Len(prefix) : prefix[i] = Slash}, Len(prefix))
  IN  IF k >= Len(slashes) THEN <<Slash>> ELSE SubSeq(prefix, 1, slashes[Len(slashes) - k])

\* Slips: climbs not taken back; a content byte before the occurrence overlooked.
AnchorForUnraised(b, scan, insensitive) ==
  StablePrefix(b, Lesser(scan.earliest, FirstContentByte(b, insensitive)))
AnchorForOccurrence(b, scan, insensitive) ==
  Raise(StablePrefix(b, scan.earliest), scan.dot_pops)

AnchorFor(b, scan, insensitive) ==
  Raise(StablePrefix(b, Lesser(scan.earliest, FirstContentByte(b, insensitive))), scan.dot_pops)

\* anchor_cover and anchor_identities drop empty segments.
AnchorSegments(prefix) ==
  LET all  == PathOf(prefix)
      kept == InOrder({k \in DOMAIN all : all[k] # Empty}, Len(all))
  IN  [k \in DOMAIN kept |-> all[kept[k]]]

RulesBeyond(table, prefix) == AnchorIds(table, AnchorSegments(prefix))

-----------------------------------------------------------------------------
Positional(config) == EnabledClasses(config.options)
\* Slip: case folding forgotten in the strict mode.
StrictWithoutCase(config) == Positional(config)
Strict(config) == Positional(config) \cup (IF config.insensitive THEN {"Case"} ELSE {})

PrimaryOrder == <<"DotSegment", "Truncation", "Query", "Fragment", "Separator",
                  "Param", "Backslash", "Case">>
PrimaryClass(present) ==
  PrimaryOrder[CHOOSE i \in DOMAIN PrimaryOrder :
                 /\ PrimaryOrder[i] \in present
                 /\ \A j \in 1..(i - 1) : PrimaryOrder[j] \notin present]

\* The findings of the first k interpretations, for every k.
Joined(views, enabled, enc) ==
  LET joined[k \in 0..Len(views)] ==
        IF k = 0 THEN EmptyResult ELSE Include(joined[k - 1], ScanOf(views[k], enabled, enc))
  IN  joined

\* scan: every interpretation's findings, joined in coordinates of the request.
ScanAll(config, b, enabled) ==
  LET views == Interpretations(b, config.up_to_two)
  IN  Joined(views, enabled, config.enc)[Len(views)]

\* Slip: the explanation scans the original spelling alone.
StructuralAnchorOfOriginal(config, b) ==
  LET found   == ScanOf(Original(b), Positional(config), config.enc)
      present == found.classes \cap Positional(config)
  IN  IF Len(b) > config.max_len \/ present = {} \/ "Truncation" \in present THEN {}
      ELSE {AnchorFor(b, found, config.insensitive)}

\* structural_anchor: the anchor an explanation shows, or none (a set).
StructuralAnchor(config, b) ==
  LET found   == ScanAll(config, b, Positional(config))
      present == found.classes \cap Positional(config)
  IN  IF Len(b) > config.max_len \/ present = {} \/ "Truncation" \in present THEN {}
      ELSE {AnchorFor(b, found, config.insensitive)}
=============================================================================
