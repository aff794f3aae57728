------------------------------ MODULE Percent ------------------------------
(***************************************************************************)
(* Whole-path percent interpretations with source offsets (percent.rs).    *)
(*                                                                         *)
(* A byte is its value 0..255, a path is a sequence of bytes, and an       *)
(* offset is a position of the sequence: offset 0 of the code is position  *)
(* 1 here.  An interpretation (a "view") carries the bytes of one decode   *)
(* depth and, for every byte, the position of the ORIGINAL request it came *)
(* from.                                                                   *)
(***************************************************************************)
EXTENDS Integers, Sequences

Byte == 0..255

Nul         == 0
Hash        == 35
PercentSign == 37
Dot         == 46
Slash       == 47
Semicolon   == 59
Question    == 63
Backslash   == 92
Uppercase   == 65..90

HexDigit == (48..57) \cup (65..70) \cup (97..102)

\* The value of a hex digit (hex_val on the bytes where it answers Some).
HexVal(b) == CASE b \in 48..57  -> b - 48
               [] b \in 97..102 -> b - 87
               [] b \in 65..70  -> b - 55

\* byte_at answers Some: a complete %XX escape begins at position i.
EscapeAt(b, i) ==
  /\ i \in 1..(Len(b) - 2)
  /\ b[i] = PercentSign
  /\ {b[i + 1], b[i + 2]} \subseteq HexDigit

\* The byte the escape at i stands for.
ByteAt(b, i) == 16 * HexVal(b[i + 1]) + HexVal(b[i + 2])

HasEscape(b) == \E i \in DOMAIN b : EscapeAt(b, i)

(***************************************************************************)
(* Interpretations.  "decoded" is origins.is_some().                       *)
(***************************************************************************)
Original(path) ==
  [bytes |-> path, origins |-> << >>, decoded |-> FALSE, original |-> path]

\* A position without provenance falls back to the start of the request.
SourceOffset(view, i) ==
  IF ~view.decoded THEN i
  ELSE IF i \in DOMAIN view.origins THEN view.origins[i] ELSE 1

Escaped(view, i) ==
  /\ view.decoded
  /\ SourceOffset(view, i) \in DOMAIN view.original
  /\ view.original[SourceOffset(view, i)] = PercentSign

\* The positions up to n that are in a set, in order.
InOrder(S, n) ==
  LET upTo[i \in 0..n] ==
        IF i = 0 THEN << >> ELSE IF i \in S THEN Append(upTo[i - 1], i) ELSE upTo[i - 1]
  IN  upTo[n]

(***************************************************************************)
(* What one decode pass computes, without its loop: the positions that are *)
(* not the second or third byte of an escape, each standing for itself or  *)
(* for its escape.  (A hex digit is not a percent sign, so escapes never   *)
(* overlap.)                                                               *)
(***************************************************************************)
Kept(b) == InOrder({i \in 1..Len(b) : ~EscapeAt(b, i - 1) /\ ~EscapeAt(b, i - 2)}, Len(b))

DecodedByte(b, i) == IF EscapeAt(b, i) THEN ByteAt(b, i) ELSE b[i]

Decode(view) ==
  LET kept == Kept(view.bytes)
  IN  [bytes    |-> [k \in 1..Len(kept) |-> DecodedByte(view.bytes, kept[k])],
       origins  |-> [k \in 1..Len(kept) |-> SourceOffset(view, kept[k])],
       decoded  |-> TRUE,
       original |-> view.original]

\* The interpretations visited for a path: itself and up to one or two decodes.
Interpretations(path, upToTwo) ==
  LET raw   == Original(path)
      once  == Decode(raw)
      twice == Decode(once)
  IN  IF ~HasEscape(path) THEN <<raw>>
      ELSE IF ~upToTwo \/ ~HasEscape(once.bytes) THEN <<raw, once>>
      ELSE <<raw, once, twice>>

(***************************************************************************)
(* The provenance contract the structural scan relies on.                  *)
(***************************************************************************)
WellFormed(view) ==
  /\ view.bytes \in Seq(Byte)
  /\ view.original \in Seq(Byte)
  /\ view.decoded \in BOOLEAN
  /\ ~view.decoded => view.bytes = view.original
  /\ view.decoded =>
       /\ view.origins \in Seq(1..Len(view.original))
       /\ Len(view.origins) = Len(view.bytes)
       /\ \A i, j \in DOMAIN view.origins : i < j => view.origins[i] < view.origins[j]

(***************************************************************************)
(* Multi-byte spellings of the structural bytes, recognised after percent  *)
(* decoding: overlong UTF-8 of / and . and the fullwidth forms.            *)
(***************************************************************************)
OverlongLen(lead) == CASE lead \in 192..223 -> 2
                       [] lead \in 224..239 -> 3
                       [] lead \in 240..247 -> 4
                       [] OTHER             -> 0

Continuation(b) == b \in 128..191
Payload(b) == b % 64

\* The code point of the sequence of length n at i: the payload bits of the
\* lead byte, then six bits of each continuation byte.
CodePoint(b, i, n) ==
  CASE n = 2 -> 64 * (b[i] % 32) + Payload(b[i + 1])
    [] n = 3 -> 4096 * (b[i] % 16) + 64 * Payload(b[i + 1]) + Payload(b[i + 2])
    [] n = 4 -> 262144 * (b[i] % 8) + 4096 * Payload(b[i + 1])
                + 64 * Payload(b[i + 2]) + Payload(b[i + 3])

OverlongAt(b, i) ==
  LET n == OverlongLen(b[i])
  IN  /\ n # 0
      /\ i + n - 1 <= Len(b)
      /\ \A k \in 1..(n - 1) : Continuation(b[i + k])
      /\ CodePoint(b, i, n) \in {Slash, Dot}

\* The third byte of EF BC xx for the fullwidth / . ; and \.
FullwidthThird == {143, 142, 155, 188}
FullwidthFold(third) == CASE third = 143 -> Slash
                          [] third = 142 -> Dot
                          [] third = 155 -> Semicolon
                          [] third = 188 -> Backslash

FullwidthAt(b, i) ==
  /\ i + 2 <= Len(b)
  /\ b[i] = 239 /\ b[i + 1] = 188
  /\ b[i + 2] \in FullwidthThird
=============================================================================
