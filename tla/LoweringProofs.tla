--------------------------- MODULE LoweringProofs ---------------------------
(***************************************************************************)
(* For every text and configuration, lowering loses nothing but the names  *)
(* of captures, and the terminals of a subtree claim its path and what is  *)
(* below it, once.  The inductive invariant says of the segment in hand,   *)
(* as far as it is read, that its braces are pairs, and of each lowered    *)
(* segment what text it stands for.                                        *)
(***************************************************************************)
EXTENDS Lowering, PathProofs

-----------------------------------------------------------------------------
(***************************************************************************)
(* Flattening, one more sequence at a time.                                *)
(***************************************************************************)
\* The folds of the first m.
PartlyFolded(seqs, m, F) ==
  /\ F = [k \in 1..m |-> F[k]] /\ F[1] = seqs[1]
  /\ \A k \in 1..m : k # 1 => F[k] = F[k - 1] \o seqs[k]

LEMMA FoldsExist ==
  ASSUME NEW T, NEW seqs \in Seq(Seq(T)), NEW n \in Nat, n = Len(seqs), n # 0
  PROVE  \E F : F = [k \in 1..n |-> F[k]] /\ FlattensTo(seqs, F)
<1> DEFINE G == {m \in Nat : \E F : PartlyFolded(seqs, m + 1, F)}
<1>1. 0 \in G
  <2>1. PICK F : F = [k \in 1..1 |-> seqs[1]]
    OBVIOUS
  <2>2. PartlyFolded(seqs, 0 + 1, F)
    BY <2>1 DEF PartlyFolded
  <2> QED BY <2>2
<1>2. ASSUME NEW m \in G PROVE m + 1 \in G
  <2>1. PICK F : m \in Nat /\ PartlyFolded(seqs, m + 1, F)
    OBVIOUS
  <2>2. PICK H : H = [k \in 1..(m + 2) |-> IF k = m + 2 THEN F[m + 1] \o seqs[m + 2] ELSE F[k]]
    OBVIOUS
  <2>3. /\ H = [k \in 1..(m + 2) |-> H[k]] /\ H[m + 2] = F[m + 1] \o seqs[m + 2]
        /\ \A k \in 1..(m + 1) : H[k] = F[k]
    <3>1. m \in Nat
      BY <2>1
    <3> HIDE DEF G
    <3>2. m + 2 \in 1..(m + 2) /\ \A k \in 1..(m + 1) : k \in 1..(m + 2) /\ k # m + 2
      BY <3>1
    <3> QED BY <2>2, <3>2
  <2>4. ASSUME NEW k \in 1..(m + 2), k # 1 PROVE H[k] = H[k - 1] \o seqs[k]
    <3>1. CASE k = m + 2
      <4>1. k - 1 = m + 1 /\ m + 1 \in 1..(m + 1)
        BY <2>1, <3>1
      <4> QED BY <2>3, <3>1, <4>1
    <3>2. CASE k # m + 2
      <4>1. k \in 1..(m + 1) /\ k - 1 \in 1..(m + 1)
        BY <2>1, <2>4, <3>2
      <4>2. F[k] = F[k - 1] \o seqs[k]
        BY <2>1, <2>4, <4>1 DEF PartlyFolded
      <4> QED BY <2>3, <4>1, <4>2
    <3> QED BY <3>1, <3>2
  <2>5. H[1] = seqs[1]
    <3>1. 1 \in 1..(m + 1)
      BY <2>1
    <3>2. F[1] = seqs[1]
      BY <2>1 DEF PartlyFolded
    <3> QED BY <2>3, <3>1, <3>2
  <2>6. PartlyFolded(seqs, (m + 1) + 1, H)
    <3>1. (m + 1) + 1 = m + 2
      BY <2>1
    <3>2. PartlyFolded(seqs, m + 2, H)
      BY <2>3, <2>4, <2>5 DEF PartlyFolded
    <3> QED BY <3>1, <3>2
  <2>7. m + 1 \in Nat
    BY <2>1
  <2> QED BY <2>6, <2>7
<1>3. G = Nat
  <2>1. G \in SUBSET Nat
    OBVIOUS
  <2> HIDE DEF G
  <2> QED BY <1>1, <1>2, <2>1, EveryNatural
<1>4. PICK m \in Nat : m + 1 = n
  <2>1. n - 1 \in Nat /\ (n - 1) + 1 = n
    OBVIOUS
  <2> QED BY <2>1
<1>5. \E F : PartlyFolded(seqs, n, F)
  <2>1. m \in G
    BY <1>3
  <2> QED BY <1>4, <2>1
<1> QED BY <1>5 DEF FlattensTo, PartlyFolded

LEMMA FlattenAppend ==
  ASSUME NEW T, NEW seqs \in Seq(Seq(T)), NEW s \in Seq(T)
  PROVE  FlattenSeq(Append(seqs, s)) = FlattenSeq(seqs) \o s
<1>1. PICK n \in Nat : n = Len(seqs)
  OBVIOUS
<1>2. PICK more : more = Append(seqs, s)
  OBVIOUS
<1>3. /\ more \in Seq(Seq(T)) /\ Len(more) = n + 1 /\ more[n + 1] = s
      /\ \A k \in 1..n : more[k] = seqs[k]
  BY <1>1, <1>2
<1>4. n + 1 # 0 /\ n + 1 \in Nat
  BY <1>1
<1>5. PICK F : F = [k \in 1..(n + 1) |-> F[k]] /\ FlattensTo(more, F)
  BY <1>3, <1>4, FoldsExist
<1>6. FlattenSeq(more) = F[n + 1]
  BY <1>3, <1>4, <1>5, FlattenIs
<1>7. CASE n = 0
  <2>1. seqs = << >>
    BY <1>1, <1>7, EmptySeq
  <2>2. FlattenSeq(seqs) = << >>
    BY <2>1, Zenon, EmptySeq DEF FlattenSeq
  <2>3. F[n + 1] = s
    BY <1>3, <1>5, <1>7 DEF FlattensTo
  <2>4. << >> \o s = s
    BY ConcatEmptySeq
  <2> QED BY <1>2, <1>6, <2>2, <2>3, <2>4
<1>8. CASE n # 0
  <2> DEFINE H == [k \in 1..n |-> F[k]]
  <2>1. H = [k \in 1..n |-> H[k]] /\ H[n] = F[n] /\ \A k \in 1..n : H[k] = F[k]
    BY <1>8
  <2> HIDE DEF H
  <2>2. ASSUME NEW k \in 1..n, k # 1 PROVE H[k] = H[k - 1] \o seqs[k]
    <3>1. k \in 1..(n + 1) /\ k - 1 \in 1..n
      BY <2>2
    <3>2. F[k] = F[k - 1] \o more[k]
      BY <1>3, <1>5, <2>2, <3>1 DEF FlattensTo
    <3> QED BY <1>3, <2>1, <3>1, <3>2
  <2>3. FlattensTo(seqs, H)
    <3>1. H[1] = seqs[1]
      <4>1. 1 \in 1..n
        BY <1>8
      <4>2. F[1] = more[1]
        BY <1>5 DEF FlattensTo
      <4> QED BY <1>3, <2>1, <4>1, <4>2
    <3> QED BY <1>1, <2>2, <3>1 DEF FlattensTo
  <2>4. FlattenSeq(seqs) = F[n]
    BY <1>1, <1>8, <2>1, <2>3, FlattenIs
  <2>5. F[n + 1] = F[n] \o s
    <3>1. n + 1 # 1 /\ n + 1 \in 1..(n + 1) /\ (n + 1) - 1 = n
      BY <1>8
    <3>2. F[n + 1] = F[(n + 1) - 1] \o more[n + 1]
      BY <1>3, <1>5, <3>1 DEF FlattensTo
    <3> QED BY <1>3, <3>1, <3>2
  <2> QED BY <1>2, <1>6, <2>4, <2>5
<1> QED BY <1>7, <1>8

LEMMA FlattenMore ==
  ASSUME NEW T, NEW n \in Nat, NEW f \in [1..n -> Seq(T)], NEW g \in [1..(n + 1) -> Seq(T)],
         \A k \in 1..n : g[k] = f[k]
  PROVE  FlattenSeq(f) \in Seq(T) /\ FlattenSeq(g) = FlattenSeq(f) \o g[n + 1]
<1>1. f \in Seq(Seq(T)) /\ Len(f) = n /\ g \in Seq(Seq(T)) /\ Len(g) = n + 1 /\ g[n + 1] \in Seq(T)
  OBVIOUS
<1>2. PICK more : more = Append(f, g[n + 1])
  OBVIOUS
<1>3. more \in Seq(Seq(T)) /\ Len(more) = n + 1 /\ more[n + 1] = g[n + 1] /\ \A k \in 1..n : more[k] = f[k]
  BY <1>1, <1>2
<1>4. \A k \in 1..(n + 1) : more[k] = g[k]
  BY <1>3
<1>5. more = g
  BY <1>1, <1>3, <1>4, SeqEqual
<1> QED BY <1>1, <1>2, <1>5, FlattenTyped, FlattenAppend

-----------------------------------------------------------------------------
(***************************************************************************)
(* Braces, doubled and halved.                                             *)
(***************************************************************************)
LEMMA BracesAreBytes == Braces \subseteq Byte /\ OpenBrace # CloseBrace /\ Slash \notin Braces
BY DEF Braces, OpenBrace, CloseBrace, Byte, Slash

\* What a byte becomes.
Twice(x) == IF x \in Braces THEN <<x, x>> ELSE <<x>>

LEMMA DoubledStep ==
  ASSUME NEW p \in Seq(Byte), NEW x \in Byte
  PROVE  Doubled(p) \in Seq(Byte) /\ Doubled(Append(p, x)) = Doubled(p) \o Twice(x)
<1>1. PICK n \in Nat : n = Len(p)
  OBVIOUS
<1>2. PICK q : q = Append(p, x)
  OBVIOUS
<1>3. q \in Seq(Byte) /\ Len(q) = n + 1 /\ q[n + 1] = x /\ \A k \in 1..n : q[k] = p[k]
  BY <1>1, <1>2
<1>4. PICK f : f = [k \in 1..n |-> Twice(p[k])]
  OBVIOUS
<1>5. PICK g : g = [k \in 1..(n + 1) |-> Twice(q[k])]
  OBVIOUS
<1>6. \A y \in Byte : Twice(y) \in Seq(Byte)
  BY DEF Twice
<1>7. f \in [1..n -> Seq(Byte)] /\ g \in [1..(n + 1) -> Seq(Byte)]
  BY <1>1, <1>3, <1>4, <1>5, <1>6
<1>8. \A k \in 1..n : g[k] = f[k]
  BY <1>3, <1>4, <1>5
<1>9. Doubled(p) = FlattenSeq(f) /\ Doubled(q) = FlattenSeq(g)
  <2>1. DOMAIN p = 1..n /\ DOMAIN q = 1..(n + 1)
    BY <1>1, <1>3
  <2> QED BY <1>4, <1>5, <2>1 DEF Doubled, Twice
<1>10. g[n + 1] = Twice(x)
  BY <1>3, <1>5
<1> QED BY <1>2, <1>7, <1>8, <1>9, <1>10, FlattenMore

\* The bytes before a position that are equal to the one there, without a gap.
RunBefore(b, k) == {j \in 1..(k - 1) : \A l \in j..k : b[l] = b[k]}
Left(b, k) == IF b[k] \in Braces /\ Cardinality(RunBefore(b, k)) % 2 = 1 THEN << >> ELSE <<b[k]>>

LEMMA UnescapeStep ==
  ASSUME NEW p \in Seq(Byte), NEW x \in Byte
  PROVE  /\ UnescapeBraces(p) \in Seq(Byte)
         /\ UnescapeBraces(Append(p, x)) = UnescapeBraces(p) \o Left(Append(p, x), Len(p) + 1)
<1>1. PICK n \in Nat : n = Len(p)
  OBVIOUS
<1>2. PICK q : q = Append(p, x)
  OBVIOUS
<1>3. q \in Seq(Byte) /\ Len(q) = n + 1 /\ q[n + 1] = x /\ \A k \in 1..n : q[k] = p[k]
  BY <1>1, <1>2
<1>4. PICK f : f = [k \in 1..n |-> Left(p, k)]
  OBVIOUS
<1>5. PICK g : g = [k \in 1..(n + 1) |-> Left(q, k)]
  OBVIOUS
<1>6. \A b \in Seq(Byte) : \A k \in 1..Len(b) : Left(b, k) \in Seq(Byte)
  BY DEF Left
<1>7. f \in [1..n -> Seq(Byte)] /\ g \in [1..(n + 1) -> Seq(Byte)]
  BY <1>1, <1>3, <1>4, <1>5, <1>6
<1>8. ASSUME NEW k \in 1..n PROVE g[k] = f[k]
  <2>1. \A j \in 1..(k - 1) : \A l \in j..k : l \in 1..n
    OBVIOUS
  <2>2. RunBefore(q, k) = RunBefore(p, k)
    BY <1>3, <2>1 DEF RunBefore
  <2> QED BY <1>3, <1>4, <1>5, <2>2 DEF Left
<1>9. UnescapeBraces(p) = FlattenSeq(f) /\ UnescapeBraces(q) = FlattenSeq(g)
  <2>1. DOMAIN p = 1..n /\ DOMAIN q = 1..(n + 1)
    BY <1>1, <1>3
  <2> QED BY <1>4, <1>5, <2>1 DEF UnescapeBraces, HalveRuns, Left, RunBefore
<1>10. g[n + 1] = Left(q, n + 1)
  BY <1>5
<1>11. FlattenSeq(f) \in Seq(Byte) /\ FlattenSeq(g) = FlattenSeq(f) \o g[n + 1]
  BY <1>7, <1>8, FlattenMore
<1> QED BY <1>1, <1>2, <1>9, <1>10, <1>11, Zenon

\* The bytes at the end that are x.
Trailing(p, x) == {j \in 1..Len(p) : \A l \in j..Len(p) : p[l] = x}

LEMMA TrailingStep ==
  ASSUME NEW p \in Seq(Byte), NEW x \in Byte, NEW y \in Byte
  PROVE  /\ IsFiniteSet(Trailing(p, y)) /\ Cardinality(Trailing(p, y)) \in Nat
         /\ RunBefore(Append(p, x), Len(p) + 1) = Trailing(p, x)
         /\ Cardinality(Trailing(Append(p, x), y)) =
              IF x = y THEN Cardinality(Trailing(p, y)) + 1 ELSE 0
<1>1. PICK n \in Nat : n = Len(p)
  OBVIOUS
<1>2. PICK q : q = Append(p, x)
  OBVIOUS
<1>3. q \in Seq(Byte) /\ Len(q) = n + 1 /\ q[n + 1] = x /\ \A k \in 1..n : q[k] = p[k]
  BY <1>1, <1>2
<1>4. IsFiniteSet(Trailing(p, y)) /\ Cardinality(Trailing(p, y)) \in Nat /\ n + 1 \notin Trailing(p, y)
  <2>1. Trailing(p, y) \subseteq 1..n
    BY <1>1 DEF Trailing
  <2>2. IsFiniteSet(1..n)
    BY FS_Interval
  <2>3. n + 1 \notin 1..n
    OBVIOUS
  <2> QED BY <2>1, <2>2, <2>3, FS_Subset, FS_CardinalityType
<1>5. RunBefore(q, n + 1) = Trailing(p, x)
  <2>1. ASSUME NEW j \in 1..n PROVE (\A l \in j..(n + 1) : q[l] = x) <=> \A l \in j..n : p[l] = x
    <3>1. \A l \in j..(n + 1) : l \in j..n \/ l = n + 1
      OBVIOUS
    <3>2. \A l \in j..n : l \in 1..n /\ l \in j..(n + 1)
      OBVIOUS
    <3> QED BY <1>3, <3>1, <3>2
  <2>2. (n + 1) - 1 = n
    OBVIOUS
  <2> QED BY <1>1, <1>3, <2>1, <2>2 DEF RunBefore, Trailing
<1>6. CASE x = y
  <2>1. Trailing(q, y) = Trailing(p, y) \cup {n + 1}
    <3>1. \A j \in 1..(n + 1) : j \in 1..n \/ j = n + 1
      OBVIOUS
    <3>2. ASSUME NEW j \in 1..n PROVE (\A l \in j..(n + 1) : q[l] = y) <=> \A l \in j..n : p[l] = y
      <4>1. \A l \in j..(n + 1) : l \in j..n \/ l = n + 1
        OBVIOUS
      <4>2. \A l \in j..n : l \in 1..n /\ l \in j..(n + 1)
        OBVIOUS
      <4> QED BY <1>3, <1>6, <4>1, <4>2
    <3>3. \A l \in (n + 1)..(n + 1) : q[l] = y
      BY <1>3, <1>6
    <3>4. \A j \in 1..n : j \in 1..(n + 1)
      OBVIOUS
    <3>5. Trailing(q, y) = {j \in 1..(n + 1) : \A l \in j..(n + 1) : q[l] = y}
      BY <1>3 DEF Trailing
    <3>6. Trailing(p, y) = {j \in 1..n : \A l \in j..n : p[l] = y}
      BY <1>1 DEF Trailing
    <3>7. n + 1 \in 1..(n + 1)
      OBVIOUS
    <3>8. \A j : j \in Trailing(q, y) <=> (j \in Trailing(p, y) \/ j = n + 1)
      BY <3>1, <3>2, <3>3, <3>4, <3>5, <3>6, <3>7
    <3> QED BY <3>8
  <2> QED BY <1>1, <1>2, <1>4, <1>5, <1>6, <2>1, FS_AddElement
<1>7. CASE x # y
  <2>1. Trailing(q, y) = {}
    <3>1. \A j \in 1..(n + 1) : n + 1 \in j..(n + 1)
      OBVIOUS
    <3> QED BY <1>3, <1>7, <3>1 DEF Trailing
  <2> QED BY <1>1, <1>2, <1>4, <1>5, <1>7, <2>1, FS_EmptySet
<1> QED BY <1>6, <1>7

\* The braces a text ends in are pairs.
EndsInPairs(p) == p \in Seq(Byte) /\ \A x \in Braces : Cardinality(Trailing(p, x)) % 2 = 0

LEMMA EmptyPairs ==
  EndsInPairs(<< >>) /\ UnescapeBraces(<< >>) = << >> /\ Doubled(<< >>) = << >>
<1>1. PICK e : e = << >>
  OBVIOUS
<1>2. e \in Seq(Byte) /\ DOMAIN e = {} /\ Len(e) = 0
  BY <1>1, EmptySeq
<1>3. PICK f : f = [k \in DOMAIN e |-> Left(e, k)]
  OBVIOUS
<1>4. PICK g : g = [k \in DOMAIN e |-> Twice(e[k])]
  OBVIOUS
<1>5. f = e /\ g = e
  BY <1>1, <1>2, <1>3, <1>4
<1>6. FlattenSeq(e) = e
  BY <1>2, Zenon DEF FlattenSeq
<1>7. UnescapeBraces(e) = e
  BY <1>3, <1>5, <1>6 DEF UnescapeBraces, HalveRuns, Left, RunBefore
<1>8. Doubled(e) = e
  BY <1>4, <1>5, <1>6 DEF Doubled, Twice
<1>9. \A x : Trailing(e, x) = {}
  BY <1>2 DEF Trailing
<1>10. \A x \in Braces : Cardinality(Trailing(e, x)) % 2 = 0
  <2>1. Cardinality({}) = 0 /\ 0 % 2 = 0
    BY FS_EmptySet
  <2> QED BY <1>9, <2>1, Zenon
<1>11. EndsInPairs(e)
  BY <1>2, <1>10, Zenon DEF EndsInPairs
<1> QED BY <1>1, <1>7, <1>8, <1>11

LEMMA PlainByteKept ==
  ASSUME NEW p, EndsInPairs(p), NEW x \in Byte \ Braces
  PROVE  /\ EndsInPairs(Append(p, x))
         /\ UnescapeBraces(Append(p, x)) = Append(UnescapeBraces(p), x)
<1>1. p \in Seq(Byte) /\ Append(p, x) \in Seq(Byte)
  BY DEF EndsInPairs
<1>2. PICK u : u = UnescapeBraces(p)
  OBVIOUS
<1>4. u \in Seq(Byte)
  BY <1>1, <1>2, UnescapeStep
<1>5. Left(Append(p, x), Len(p) + 1) = <<x>>
  BY <1>1 DEF Left
<1>6. Append(u, x) = u \o <<x>>
  BY <1>4, AppendIsConcat
<1>7. UnescapeBraces(Append(p, x)) = Append(u, x)
  <2>1. UnescapeBraces(Append(p, x)) = u \o Left(Append(p, x), Len(p) + 1)
    BY <1>1, <1>2, UnescapeStep
  <2> QED BY <1>5, <1>6, <2>1, Zenon
<1>9. \A y \in Braces : Cardinality(Trailing(Append(p, x), y)) = 0
  BY <1>1, TrailingStep, BracesAreBytes
<1> QED BY <1>1, <1>2, <1>7, <1>9 DEF EndsInPairs

LEMMA PairHalved ==
  ASSUME NEW p, EndsInPairs(p), NEW x \in Braces
  PROVE  /\ EndsInPairs(Append(Append(p, x), x))
         /\ UnescapeBraces(Append(Append(p, x), x)) = Append(UnescapeBraces(p), x)
<1>0. p \in Seq(Byte) /\ x \in Byte
  BY BracesAreBytes DEF EndsInPairs
<1>1. PICK q : q = Append(p, x)
  OBVIOUS
<1>2. PICK r : r = Append(q, x)
  OBVIOUS
<1>3. /\ q \in Seq(Byte) /\ Len(q) = Len(p) + 1 /\ q[Len(p) + 1] = x
      /\ r \in Seq(Byte) /\ Len(r) = Len(q) + 1 /\ r[Len(q) + 1] = x
  BY <1>0, <1>1, <1>2
<1>4. PICK u : u = UnescapeBraces(p)
  OBVIOUS
<1>5. u \in Seq(Byte)
  BY <1>0, <1>4, UnescapeStep
<1>6. PICK c \in Nat : c = Cardinality(Trailing(p, x))
  BY <1>0, TrailingStep
<1>7. c % 2 = 0 /\ (c + 1) % 2 = 1 /\ (c + 2) % 2 = 0
  <2>1. c % 2 = 0
    BY <1>6 DEF EndsInPairs
  <2> QED BY <2>1
<1>8. /\ Cardinality(RunBefore(q, Len(p) + 1)) = c
      /\ Cardinality(Trailing(q, x)) = c + 1
      /\ Cardinality(RunBefore(r, Len(q) + 1)) = c + 1
      /\ Cardinality(Trailing(r, x)) = c + 2
  <2>1. RunBefore(q, Len(p) + 1) = Trailing(p, x) /\ Cardinality(Trailing(q, x)) = c + 1
    BY <1>0, <1>1, <1>6, TrailingStep
  <2>2. RunBefore(r, Len(q) + 1) = Trailing(q, x) /\ Cardinality(Trailing(r, x)) = (c + 1) + 1
    BY <1>0, <1>2, <1>3, <2>1, TrailingStep
  <2> QED BY <1>6, <2>1, <2>2
<1>9. Left(q, Len(p) + 1) = <<x>> /\ Left(r, Len(q) + 1) = << >>
  BY <1>3, <1>7, <1>8 DEF Left
<1>10. UnescapeBraces(q) = Append(u, x)
  <2>1. UnescapeBraces(q) = u \o Left(q, Len(p) + 1)
    BY <1>0, <1>1, <1>4, UnescapeStep
  <2>2. Append(u, x) = u \o <<x>>
    BY <1>0, <1>5, AppendIsConcat
  <2> QED BY <1>9, <2>1, <2>2, Zenon
<1>11. UnescapeBraces(r) = Append(u, x)
  <2>1. Append(u, x) \in Seq(Byte)
    BY <1>0, <1>5
  <2>2. UnescapeBraces(r) = UnescapeBraces(q) \o Left(r, Len(q) + 1)
    BY <1>0, <1>2, <1>3, UnescapeStep
  <2>3. Append(u, x) \o << >> = Append(u, x)
    BY <2>1, ConcatEmptySeq
  <2> QED BY <1>9, <1>10, <2>2, <2>3, Zenon
<1>12. ASSUME NEW y \in Braces PROVE Cardinality(Trailing(r, y)) % 2 = 0
  <2>1. CASE y = x
    BY <1>7, <1>8, <2>1
  <2>2. CASE y # x
    BY <1>0, <1>2, <1>3, <2>2, TrailingStep, BracesAreBytes
  <2> QED BY <2>1, <2>2
<1> QED BY <1>1, <1>2, <1>3, <1>4, <1>11, <1>12 DEF EndsInPairs

LEMMA BraceDoubled ==
  ASSUME NEW p \in Seq(Byte), NEW x \in Braces
  PROVE  Doubled(Append(p, x)) = Append(Append(Doubled(p), x), x)
<1>1. PICK d : d = Doubled(p)
  OBVIOUS
<1>2. x \in Byte /\ d \in Seq(Byte)
  BY <1>1, DoubledStep, BracesAreBytes
<1>3. Twice(x) = <<x, x>>
  BY DEF Twice
<1>4. Doubled(Append(p, x)) = d \o Twice(x)
  BY <1>1, <1>2, DoubledStep
<1>5. d \o <<x, x>> = Append(Append(d, x), x)
  BY <1>2
<1> QED BY <1>1, <1>3, <1>4, <1>5, Zenon

\* What is doubled is in pairs, and halving undoes it.
LEMMA DoubledUndone ==
  ASSUME NEW p \in Seq(Byte)
  PROVE  EndsInPairs(Doubled(p)) /\ UnescapeBraces(Doubled(p)) = p
<1> DEFINE Undone(s) == EndsInPairs(Doubled(s)) /\ UnescapeBraces(Doubled(s)) = s
           G == {n \in Nat : \A s \in Seq(Byte) : Len(s) = n => Undone(s)}
<1>1. 0 \in G
  <2>1. \A s \in Seq(Byte) : Len(s) = 0 => s = << >>
    BY EmptySeq
  <2> QED BY <2>1, EmptyPairs
<1>2. ASSUME NEW n \in G PROVE n + 1 \in G
  <2>1. n \in Nat /\ \A s \in Seq(Byte) : Len(s) = n => Undone(s)
    OBVIOUS
  <2> HIDE DEF G
  <2>2. ASSUME NEW s \in Seq(Byte), Len(s) = n + 1 PROVE Undone(s)
    <3>1. s # << >>
      BY <2>1, <2>2, EmptySeq
    <3>2. PICK h \in Seq(Byte), x \in Byte : s = Append(h, x)
      BY <3>1, SequenceEmptyOrAppend
    <3>3. Len(h) = n
      BY <2>1, <2>2, <3>2
    <3>4. Undone(h)
      BY <2>1, <3>3
    <3>5. CASE x \in Braces
      BY <3>2, <3>4, <3>5, BraceDoubled, PairHalved
    <3>6. CASE x \notin Braces
      <4>1. Doubled(s) = Append(Doubled(h), x)
        <5>1. PICK d : d = Doubled(h)
          OBVIOUS
        <5>2. d \in Seq(Byte) /\ Twice(x) = <<x>>
          BY <3>6, <5>1, DoubledStep DEF Twice
        <5>3. Doubled(Append(h, x)) = d \o Twice(x)
          BY <5>1, DoubledStep
        <5>4. Append(d, x) = d \o <<x>>
          BY <5>2, AppendIsConcat
        <5> QED BY <3>2, <5>1, <5>2, <5>3, <5>4, Zenon
      <4> QED BY <3>2, <3>4, <3>6, <4>1, PlainByteKept
    <3> QED BY <3>5, <3>6
  <2>3. n + 1 \in Nat
    BY <2>1
  <2> QED BY <2>2, <2>3 DEF G
<1>3. G = Nat
  <2>1. G \in SUBSET Nat
    OBVIOUS
  <2> HIDE DEF G
  <2> QED BY <1>1, <1>2, <2>1, EveryNatural
<1>4. PICK n \in Nat : n = Len(p)
  OBVIOUS
<1>5. n \in G
  BY <1>3
<1>6. Undone(p)
  BY <1>4, <1>5
<1> QED BY <1>6

LEMMA DoubledInjective ==
  ASSUME NEW s \in Seq(Byte), NEW t \in Seq(Byte), Doubled(s) = Doubled(t)
  PROVE  s = t
BY DoubledUndone

\* The brace that ends a group is on its own.
LEMMA GroupNotDoubled ==
  ASSUME NEW p \in Seq(Byte), IsGroup(Doubled(p))
  PROVE  FALSE
<1>1. PICK d : d = Doubled(p)
  OBVIOUS
<1>2. d \in Seq(Byte) /\ EndsInPairs(d) /\ IsGroup(d)
  BY <1>1, DoubledUndone DEF EndsInPairs
<1>3. PICK n \in Nat : n = Len(d) /\ n >= 3
  BY <1>2 DEF IsGroup
<1>4. \A k \in 1..n : d[k] = CloseBrace <=> k = n
  <2>1. {k \in 1..n : d[k] = CloseBrace} = {n}
    BY <1>2, <1>3 DEF IsGroup
  <2> QED BY <2>1
<1>5. Trailing(d, CloseBrace) = {n}
  <2>1. \A j \in 1..n : j \in j..n /\ (j = n => \A l \in j..n : l = n)
    OBVIOUS
  <2>2. \A j \in 1..n : (\A l \in j..n : d[l] = CloseBrace) <=> j = n
    BY <1>4, <2>1
  <2>3. n \in 1..n
    BY <1>3
  <2> QED BY <1>3, <2>2, <2>3 DEF Trailing
<1>6. Cardinality(Trailing(d, CloseBrace)) = 1
  BY <1>5, FS_Singleton
<1>7. CloseBrace \in Braces
  BY DEF Braces
<1> QED BY <1>2, <1>6, <1>7 DEF EndsInPairs

\* A text that is read up to its end: its braces are pairs.
Tidy(p) == EndsInPairs(p) /\ Doubled(UnescapeBraces(p)) = p

LEMMA TidyEmpty == Tidy(<< >>)
BY EmptyPairs DEF Tidy

LEMMA TidyPlain ==
  ASSUME NEW p, Tidy(p), NEW x \in Byte \ Braces
  PROVE  Tidy(Append(p, x))
<1>1. PICK u : u = UnescapeBraces(p)
  OBVIOUS
<1>2. u \in Seq(Byte) /\ Doubled(u) = p
  BY <1>1, UnescapeStep DEF Tidy, EndsInPairs
<1>3. Twice(x) = <<x>> /\ p \in Seq(Byte)
  BY DEF Twice, Tidy, EndsInPairs
<1>4. Doubled(Append(u, x)) = Append(p, x)
  <2>1. Doubled(Append(u, x)) = Doubled(u) \o Twice(x)
    BY <1>2, DoubledStep
  <2>2. Append(p, x) = p \o <<x>>
    BY <1>3, AppendIsConcat
  <2> QED BY <1>2, <1>3, <2>1, <2>2, Zenon
<1> QED BY <1>1, <1>4, PlainByteKept DEF Tidy

LEMMA TidyPair ==
  ASSUME NEW p, Tidy(p), NEW x \in Braces
  PROVE  Tidy(Append(Append(p, x), x))
<1>1. PICK u : u = UnescapeBraces(p)
  OBVIOUS
<1>2. u \in Seq(Byte) /\ Doubled(u) = p
  BY <1>1, UnescapeStep, BracesAreBytes DEF Tidy, EndsInPairs
<1>3. Doubled(Append(u, x)) = Append(Append(p, x), x)
  BY <1>2, BraceDoubled
<1> QED BY <1>1, <1>3, PairHalved DEF Tidy

-----------------------------------------------------------------------------
(***************************************************************************)
(* The segments of a text, and of one that goes on.                        *)
(***************************************************************************)
LEMMA InOrderIdle ==
  ASSUME NEW S, NEW m \in Nat, NEW n \in Nat, m <= n, \A k \in (m + 1)..n : k \notin S
  PROVE  InOrder(S, n) = InOrder(S, m)
<1> DEFINE G == {k \in Nat : m <= k /\ k <= n => InOrder(S, k) = InOrder(S, m)}
<1>1. 0 \in G
  OBVIOUS
<1>2. ASSUME NEW k \in G PROVE k + 1 \in G
  <2>1. k \in Nat /\ (m <= k /\ k <= n => InOrder(S, k) = InOrder(S, m))
    OBVIOUS
  <2> HIDE DEF G
  <2>2. CASE m <= k /\ k + 1 <= n
    <3>1. k + 1 \notin S /\ k <= n
      BY <2>1, <2>2
    <3>2. InOrder(S, k + 1) = InOrder(S, k)
      BY <2>1, <3>1, InOrderStep
    <3> QED BY <2>1, <2>2, <3>1, <3>2 DEF G
  <2>3. CASE m = k + 1
    BY <2>1, <2>3 DEF G
  <2>4. CASE ~(m <= k + 1 /\ k + 1 <= n)
    BY <2>1, <2>4 DEF G
  <2> QED BY <2>1, <2>2, <2>3, <2>4
<1>3. G = Nat
  <2>1. G \in SUBSET Nat
    OBVIOUS
  <2> HIDE DEF G
  <2> QED BY <1>1, <1>2, <2>1, EveryNatural
<1>4. n \in G
  BY <1>3
<1> QED BY <1>4

LEMMA PathOfTyped ==
  ASSUME NEW b \in Seq(Byte)
  PROVE  PathOf(b) \in Seq(Seq(Byte))
<1>1. PICK L, cuts : L = SlashList(b) /\ cuts = Cuts(b)
  OBVIOUS
<1>2. CutsSegments(b, L, cuts)
  BY <1>1, CutsAre
<1>3. PICK n \in Nat : n = Len(L)
  BY <1>2 DEF CutsSegments
<1>4. ASSUME NEW k \in 1..n PROVE SubSeq(b, cuts[k] + 1, cuts[k + 1] - 1) \in Seq(Byte)
  <2>1. PICK s, e : s = cuts[k] /\ e = cuts[k + 1]
    OBVIOUS
  <2>2. s \in 1..Len(b) /\ e \in (s + 1)..(Len(b) + 1)
    BY <1>2, <1>3, <2>1 DEF CutsSegments, Spans, SlashesOf
  <2>3. SubSeq(b, s + 1, e - 1) \in Seq(Byte)
    BY <2>2
  <2> QED BY <2>1, <2>3
<1>5. PathOf(b) = [k \in 1..n |-> SubSeq(b, cuts[k] + 1, cuts[k + 1] - 1)]
  BY <1>2, <1>3 DEF CutsSegments
<1> QED BY <1>4, <1>5

LEMMA RestOf ==
  ASSUME NEW c \in Seq(Byte), NEW m \in Nat, Len(c) = m, NEW lo \in 1..(m + 1)
  PROVE  /\ SubSeq(c, lo, m) \in Seq(Byte) /\ Len(SubSeq(c, lo, m)) = m - lo + 1
         /\ \A k \in 1..(m - lo + 1) : SubSeq(c, lo, m)[k] = c[lo + k - 1]
<1>1. \A k \in lo..m : c[k] \in Byte
  <2>1. \A k \in lo..m : k \in 1..m
    OBVIOUS
  <2> QED BY <2>1
<1>2. lo \in Int /\ m \in Int
  OBVIOUS
<1>3. (IF lo <= m THEN m - lo + 1 ELSE 0) = m - lo + 1
  OBVIOUS
<1> QED BY <1>1, <1>2, <1>3, SubSeqProperties

\* A slash and what follows it are one more segment.
LEMMA NextSegment ==
  ASSUME NEW b \in Seq(Byte), NEW g \in Seq(Byte), \A k \in 1..Len(g) : g[k] # Slash,
         NEW c, c = Append(b, Slash) \o g
  PROVE  c \in Seq(Byte) /\ PathOf(c) = Append(PathOf(b), g)
<1>1. PICK n \in Nat : n = Len(b)
  OBVIOUS
<1>2. PICK d \in Nat : d = Len(g)
  OBVIOUS
<1>3. PICK m \in Nat : m = n + 1 + d
  OBVIOUS
<1>4. Slash \in Byte
  BY DEF Slash, Byte
<1>5. /\ c \in Seq(Byte) /\ Len(c) = m /\ c[n + 1] = Slash
      /\ \A k \in 1..n : c[k] = b[k]
      /\ \A k \in (n + 2)..m : c[k] = g[k - (n + 1)]
  <2>1. PICK a : a = Append(b, Slash)
    OBVIOUS
  <2>2. a \in Seq(Byte) /\ Len(a) = n + 1 /\ a[n + 1] = Slash /\ \A k \in 1..n : a[k] = b[k]
    BY <1>1, <1>4, <2>1
  <2>3. c \in Seq(Byte) /\ Len(c) = Len(a) + Len(g)
        /\ \A k \in 1..(Len(a) + Len(g)) : c[k] = IF k <= Len(a) THEN a[k] ELSE g[k - Len(a)]
    BY <2>1, <2>2, ConcatProperties
  <2> QED BY <1>2, <1>3, <2>2, <2>3
<1>6. PICK L, M : L = SlashList(b) /\ M = SlashList(c)
  OBVIOUS
<1>7. L \in Seq(Nat) /\ \A k \in 1..Len(L) : L[k] \in 1..n
  <2>1. IsInOrder(L, SlashesOf(b), n)
    BY <1>1, <1>6, InOrderIs DEF SlashList
  <2> QED BY <2>1 DEF IsInOrder
<1>8. M = Append(L, n + 1)
  <2>1. \A k \in 1..n : k \in SlashesOf(b) <=> k \in SlashesOf(c)
    BY <1>1, <1>3, <1>5 DEF SlashesOf
  <2>2. InOrder(SlashesOf(c), n) = L
    BY <1>1, <1>6, <2>1, InOrderAgree DEF SlashList
  <2>3. n + 1 \in SlashesOf(c)
    BY <1>3, <1>5 DEF SlashesOf
  <2>4. InOrder(SlashesOf(c), n + 1) = Append(L, n + 1)
    BY <2>2, <2>3, InOrderStep
  <2>5. \A k \in ((n + 1) + 1)..m : k \notin SlashesOf(c)
    <3>1. ASSUME NEW k \in ((n + 1) + 1)..m PROVE c[k] # Slash
      <4>1. k - (n + 1) \in 1..d /\ k \in (n + 2)..m
        BY <1>3
      <4>2. c[k] = g[k - (n + 1)]
        BY <1>5, <4>1
      <4> QED BY <1>2, <4>1, <4>2
    <3> QED BY <3>1 DEF SlashesOf
  <2>6. n + 1 \in Nat /\ n + 1 <= m
    BY <1>3
  <2>7. InOrder(SlashesOf(c), m) = InOrder(SlashesOf(c), n + 1)
    BY <2>5, <2>6, InOrderIdle
  <2> QED BY <1>5, <1>6, <2>4, <2>7 DEF SlashList
<1>9. PICK l \in Nat : l = Len(L)
  BY <1>7
<1>10. PICK x, y : x = Append(L, n + 1) /\ y = Append(M, m + 1)
  OBVIOUS
<1>11. /\ PathOf(b) = [k \in 1..l |-> SubSeq(b, x[k] + 1, x[k + 1] - 1)]
       /\ Len(M) = l + 1
       /\ PathOf(c) = [k \in 1..(l + 1) |-> SubSeq(c, y[k] + 1, y[k + 1] - 1)]
  <2>1. Len(M) = l + 1
    BY <1>7, <1>8, <1>9
  <2> QED BY <1>1, <1>5, <1>6, <1>9, <1>10, <2>1 DEF PathOf, SlashList, SlashesOf
<1>12. /\ x \in Seq(Nat) /\ Len(x) = l + 1 /\ x[l + 1] = n + 1 /\ \A k \in 1..l : x[k] \in 1..n
       /\ \A k \in 1..(l + 1) : y[k] = x[k]
       /\ y[l + 2] = m + 1
  <2>1. x \in Seq(Nat) /\ Len(x) = l + 1 /\ x[l + 1] = n + 1 /\ \A k \in 1..l : x[k] = L[k]
    BY <1>7, <1>9, <1>10
  <2>2. M = x
    BY <1>8, <1>10
  <2>3. y[l + 2] = m + 1 /\ \A k \in 1..(l + 1) : y[k] = M[k]
    BY <1>10, <2>1, <2>2
  <2> QED BY <1>7, <1>9, <2>1, <2>2, <2>3
<1>13. ASSUME NEW k \in 1..l PROVE PathOf(c)[k] = PathOf(b)[k]
  <2>1. k \in 1..(l + 1) /\ k + 1 \in 1..(l + 1)
    OBVIOUS
  <2>2. PICK s, e : s = x[k] /\ e = x[k + 1]
    OBVIOUS
  <2>3. s \in 1..n /\ e \in 1..(n + 1)
    <3>1. k + 1 \in 1..l \/ k + 1 = l + 1
      OBVIOUS
    <3> QED BY <1>12, <2>2, <3>1
  <2>4. SubSeq(c, s + 1, e - 1) = SubSeq(b, s + 1, e - 1)
    BY <1>1, <1>3, <1>5, <2>3
  <2>5. PathOf(c)[k] = SubSeq(c, s + 1, e - 1)
    BY <1>11, <1>12, <2>1, <2>2
  <2> QED BY <1>11, <2>2, <2>4, <2>5
<1>14. PathOf(c)[l + 1] = g
  <2>1. PathOf(c)[l + 1] = SubSeq(c, n + 2, m)
    <3>1. l + 1 \in 1..(l + 1) /\ (l + 1) + 1 = l + 2
      OBVIOUS
    <3>2. PathOf(c)[l + 1] = SubSeq(c, y[l + 1] + 1, y[(l + 1) + 1] - 1)
      BY <1>11, <3>1
    <3>3. y[l + 1] = n + 1 /\ y[(l + 1) + 1] = m + 1
      BY <1>12, <3>1
    <3>4. (n + 1) + 1 = n + 2 /\ (m + 1) - 1 = m
      OBVIOUS
    <3> QED BY <3>2, <3>3, <3>4
  <2>2. PICK t : t = SubSeq(c, n + 2, m)
    OBVIOUS
  <2>3. t \in Seq(Byte) /\ Len(t) = d /\ \A k \in 1..d : t[k] = c[(n + 2) + k - 1]
    <3>1. PICK lo \in 1..(m + 1) : lo = n + 2
      BY <1>3
    <3>2. c \in Seq(Byte) /\ Len(c) = m
      BY <1>5
    <3>3. PICK r : r = SubSeq(c, lo, m)
      OBVIOUS
    <3>4. SubSeq(c, lo, m) \in Seq(Byte)
      BY <3>2, RestOf, Zenon
    <3>5. Len(SubSeq(c, lo, m)) = m - lo + 1
      BY <3>2, RestOf, Zenon
    <3>6. \A k \in 1..(m - lo + 1) : SubSeq(c, lo, m)[k] = c[lo + k - 1]
      BY <3>2, RestOf, Zenon
    <3>7. m - lo + 1 = d
      BY <1>3, <3>1
    <3>8. t = r
      BY <2>2, <3>1, <3>3
    <3> QED BY <3>1, <3>3, <3>4, <3>5, <3>6, <3>7, <3>8
  <2>4. ASSUME NEW k \in 1..d PROVE t[k] = g[k]
    <3>1. (n + 2) + k - 1 \in (n + 2)..m /\ ((n + 2) + k - 1) - (n + 1) = k
      BY <1>3
    <3>2. PICK q \in (n + 2)..m : q = (n + 2) + k - 1
      BY <3>1
    <3>3. c[q] = g[q - (n + 1)]
      BY <1>5
    <3> QED BY <2>3, <3>1, <3>2, <3>3
  <2>5. t = g
    BY <1>2, <2>3, <2>4, SeqEqual
  <2> QED BY <2>1, <2>2, <2>5
<1>15. PICK p, q : p = PathOf(b) /\ q = PathOf(c)
  OBVIOUS
<1>16. p \in Seq(Seq(Byte)) /\ Len(p) = l /\ q \in Seq(Seq(Byte)) /\ Len(q) = l + 1
  <2>1. p \in Seq(Seq(Byte)) /\ q \in Seq(Seq(Byte))
    BY <1>5, <1>15, PathOfTyped
  <2>2. DOMAIN p = 1..l /\ DOMAIN q = 1..(l + 1)
    BY <1>11, <1>15
  <2> QED BY <2>1, <2>2
<1>17. q = Append(p, g)
  <2>1. PICK r : r = Append(p, g)
    OBVIOUS
  <2>2. r \in Seq(Seq(Byte)) /\ Len(r) = l + 1 /\ r[l + 1] = g /\ \A k \in 1..l : r[k] = p[k]
    BY <1>16, <2>1
  <2>3. \A k \in 1..(l + 1) : q[k] = r[k]
    BY <1>13, <1>14, <1>15, <2>2
  <2> QED BY <1>16, <2>1, <2>2, <2>3, SeqEqual
<1> QED BY <1>5, <1>15, <1>17

\* A final slash is an empty segment more.
LEMMA SlashSegment ==
  ASSUME NEW b \in Seq(Byte)
  PROVE  Append(b, Slash) \in Seq(Byte) /\ PathOf(Append(b, Slash)) = Append(PathOf(b), Empty)
<1>1. PICK e : e = << >>
  OBVIOUS
<1>2. e \in Seq(Byte) /\ Len(e) = 0 /\ Slash \in Byte
  BY <1>1, EmptySeq DEF Slash, Byte
<1>3. PICK c : c = Append(b, Slash)
  OBVIOUS
<1>4. c \in Seq(Byte)
  BY <1>2, <1>3
<1>5. c = c \o e
  BY <1>1, <1>4, ConcatEmptySeq
<1>6. PathOf(c) = Append(PathOf(b), e)
  <2>1. \A k \in 1..Len(e) : e[k] # Slash
    BY <1>2
  <2> QED BY <1>2, <1>3, <1>5, <2>1, NextSegment
<1> QED BY <1>1, <1>3, <1>4, <1>6, EmptyAssumption

LEMMA NoSegments == PathOf(<< >>) = << >>
<1>1. PICK b : b = << >>
  OBVIOUS
<1>2. b \in Seq(Byte) /\ Len(b) = 0
  BY <1>1, EmptySeq
<1>3. InOrder({k \in 1..Len(b) : b[k] = Slash}, Len(b)) = << >>
  BY <1>2, InOrderStep
<1>4. PathOf(b) \in Seq(Seq(Byte)) /\ DOMAIN PathOf(b) = 1..0
  BY <1>2, <1>3, PathOfTyped DEF PathOf
<1>5. Len(PathOf(b)) = 0
  BY <1>4
<1> QED BY <1>1, <1>4, <1>5, EmptySeq

\* The segments of the root.
LEMMA RootSegments == PathOf(<<Slash>>) = Bare
<1>1. << >> \in Seq(Byte) /\ Append(<< >>, Slash) = <<Slash>> /\ Append(<< >>, Empty) = <<Empty>>
  BY EmptySeq
<1> QED BY <1>1, SlashSegment, NoSegments DEF Bare

-----------------------------------------------------------------------------
(***************************************************************************)
(* The inductive invariant.                                                *)
(***************************************************************************)
\* What the edges of a terminal are, and what a segment is lowered to.
Edges == (Seq(Byte) \ {Empty}) \cup {Star}
LoweredTerminals == [node : Seq(Edges), slot : Slots]
LoweredSegments == [kind : {"literal"}, text : Seq(Byte) \ {Empty}] \cup {Wildcard, CatchAll}

\* The text a lowered segment comes from.
Stands(segment, part) ==
  /\ segment.kind = "literal"  => part = Doubled(segment.text)
  /\ segment.kind = "wildcard" => IsParameter(part)
  /\ segment.kind = "catchall" => IsRest(part)

\* A text, split; its segments have something in them.
IsSplit(split, trailing, text) ==
  /\ Rooted(text)
  /\ split \in Seq(Seq(Byte) \ {Empty})
  /\ IF split = << >> THEN text = IF trailing THEN TwoSlashes ELSE <<Slash>>
     ELSE PathOf(text) = IF trailing THEN Append(split, Empty) ELSE split

AcceptedSoFar ==
  /\ accepted \in Seq(LoweredTerminals)
  /\ \A k \in 1..Len(accepted) : Rooted(Patterns[k]) /\ WrittenAs(accepted[k], Patterns[k])
  /\ stage \in {"split", "lower", "validate"} => Len(accepted) < Len(Patterns)
  /\ stage = "accepted" => Len(accepted) = Len(Patterns)

\* A catch-all is last, with no slash after it.
LoweredSoFar ==
  /\ IsSplit(parts, trailing_slash, Pattern)
  /\ segments \in Seq(LoweredSegments)
  /\ Len(segments) <= Len(parts)
  /\ \A k \in 1..Len(segments) :
       /\ Stands(segments[k], parts[k])
       /\ segments[k].kind = "catchall" => k = Len(parts) /\ ~trailing_slash

\* The cursor has passed over plain bytes and pairs.
ReadSoFar ==
  Len(segments) < Len(parts) => /\ i \in 1..(Len(Segment) + 1)
                                /\ Tidy(SubSeq(Segment, 1, i - 1))

IInv ==
  /\ asked.text \in Seq(Byte)
  /\ asked.kind \in {"path", "subtree"}
  /\ stage \in {"split", "lower", "validate", "accepted", "failed"}
  /\ AcceptedSoFar
  /\ stage \in {"lower", "validate"} => trailing_slash \in BOOLEAN /\ LoweredSoFar
  /\ stage = "lower" => ReadSoFar
  /\ stage = "validate" => Len(segments) = Len(parts)

-----------------------------------------------------------------------------
(***************************************************************************)
(* Splitting a text.                                                       *)
(***************************************************************************)
LEMMA RootedSegments ==
  ASSUME NEW b \in Seq(Byte), Rooted(b)
  PROVE  PathOf(b) # << >>
<1>1. PICK L, cuts : L = SlashList(b) /\ cuts = Cuts(b)
  OBVIOUS
<1>2. CutsSegments(b, L, cuts)
  BY <1>1, CutsAre
<1>3. 1 \in SlashesOf(b)
  BY RootIsSlash
<1>4. PICK k \in 1..Len(L) : cuts[k] = 1
  BY <1>2, <1>3 DEF CutsSegments
<1>5. k \in DOMAIN PathOf(b)
  BY <1>2, <1>4 DEF CutsSegments
<1>6. DOMAIN << >> = {}
  BY EmptySeq
<1> QED BY <1>5, <1>6

LEMMA TwoSlashesAre == Append(<<Slash>>, Slash) = TwoSlashes /\ TwoSlashes \in Seq(Byte)
<1>1. PICK x \in Byte : x = Slash
  BY DEF Slash, Byte
<1>2. PICK s : s = <<x>>
  OBVIOUS
<1>3. s \in Seq(Byte) /\ Len(s) = 1 /\ s[1] = x
  BY <1>2
<1>4. PICK a : a = Append(s, x)
  OBVIOUS
<1>5. a \in Seq(Byte) /\ Len(a) = 2 /\ a[1] = x /\ a[2] = x
  <2>1. s \in Seq(Byte)
    BY <1>3
  <2>2. PICK n \in Nat : n = Len(s)
    BY <2>1
  <2>3. a \in Seq(Byte) /\ Len(a) = n + 1 /\ a[n + 1] = x /\ \A k \in 1..n : a[k] = s[k]
    BY <1>4, <2>1, <2>2
  <2>4. n = 1 /\ n + 1 = 2 /\ 1 \in 1..n
    BY <1>3, <2>2
  <2> QED BY <1>3, <2>3, <2>4
<1>6. PICK b : b = <<x, x>>
  OBVIOUS
<1>7. b \in Seq(Byte) /\ Len(b) = 2 /\ b[1] = x /\ b[2] = x
  BY <1>6
<1>8. \A k \in 1..2 : a[k] = b[k]
  <2>1. \A k \in 1..2 : k = 1 \/ k = 2
    OBVIOUS
  <2> QED BY <1>5, <1>7, <2>1
<1>9. a = b
  BY <1>5, <1>7, <1>8, SeqEqual
<1> QED BY <1>1, <1>2, <1>4, <1>6, <1>7, <1>9, Zenon DEF TwoSlashes

LEMMA NonEmptySegments ==
  ASSUME NEW split \in Seq(Seq(Byte)), \A k \in DOMAIN split : split[k] # Empty
  PROVE  split \in Seq(Seq(Byte) \ {Empty})
<1>1. PICK n \in Nat : n = Len(split) /\ DOMAIN split = 1..n
  OBVIOUS
<1>2. \A k \in 1..n : split[k] \in Seq(Byte)
  BY <1>1
<1>3. split = [k \in 1..n |-> split[k]]
  BY <1>1
<1>4. split \in [1..n -> Seq(Byte) \ {Empty}]
  BY <1>1, <1>2, <1>3
<1> QED BY <1>4

LEMMA SplitIs ==
  ASSUME NEW text \in Seq(Byte), Rooted(text), NEW body, body = Tail(text),
         NEW trailing \in BOOLEAN, trailing <=> (body # << >> /\ Last(body) = Slash),
         NEW stripped, stripped = IF trailing THEN Front(body) ELSE body,
         NEW split, split = IF stripped = << >> THEN << >> ELSE PathOf(<<Slash>> \o stripped),
         Empty \notin Range(split)
  PROVE  IsSplit(split, trailing, text)
<1>1. text # << >> /\ text[1] = Slash /\ Slash \in Byte
  BY DEF Rooted, Slash, Byte
<1>2. body \in Seq(Byte) /\ Len(body) = Len(text) - 1 /\ \A k \in 1..Len(body) : body[k] = text[k + 1]
  BY <1>1, HeadTailProperties
<1>3. text = <<Slash>> \o body
  BY <1>1, <1>2
<1>4. stripped \in Seq(Byte) /\ trailing => body = Append(stripped, Slash)
  BY <1>2 DEF Front, Last
<1>5. stripped \in Seq(Byte)
  BY <1>2 DEF Front, Last
<1>6. PICK base : base = <<Slash>> \o stripped
  OBVIOUS
<1>7. base \in Seq(Byte) /\ Rooted(base)
  BY <1>1, <1>5, <1>6 DEF Rooted
<1>8. text = IF trailing THEN Append(base, Slash) ELSE base
  <2>1. CASE trailing
    <3>1. <<Slash>> \o Append(stripped, Slash) = Append(<<Slash>> \o stripped, Slash)
      BY <1>1, <1>5
    <3> QED BY <1>3, <1>4, <1>5, <1>6, <2>1, <3>1
  <2>2. CASE ~trailing
    BY <1>3, <1>6, <2>2
  <2> QED BY <2>1, <2>2
<1>9. CASE stripped = << >>
  <2>0. PICK s : s = <<Slash>>
    OBVIOUS
  <2>1. split = << >> /\ base = <<Slash>>
    <3>1. s \in Seq(Byte)
      BY <1>1, <2>0
    <3>2. s \o << >> = s
      BY <3>1, ConcatEmptySeq
    <3> QED BY <1>6, <1>9, <2>0, <3>2
  <2>2. Append(<<Slash>>, Slash) = TwoSlashes
    BY TwoSlashesAre
  <2>3. split \in Seq(Seq(Byte) \ {Empty})
    BY <2>1, EmptySeq
  <2> QED BY <1>8, <2>1, <2>2, <2>3 DEF IsSplit
<1>10. CASE stripped # << >>
  <2>1. split = PathOf(base)
    BY <1>6, <1>10
  <2>2. split \in Seq(Seq(Byte)) /\ split # << >>
    BY <1>7, <2>1, PathOfTyped, RootedSegments
  <2>3. split \in Seq(Seq(Byte) \ {Empty})
    <3>1. \A k \in DOMAIN split : split[k] # Empty
      BY DEF Range
    <3> QED BY <2>2, <3>1, NonEmptySegments
  <2>4. PathOf(text) = IF trailing THEN Append(split, Empty) ELSE split
    BY <1>7, <1>8, <2>1, SlashSegment
  <2> QED BY <2>2, <2>3, <2>4 DEF IsSplit
<1> QED BY <1>9, <1>10

-----------------------------------------------------------------------------
(***************************************************************************)
(* Where a lowered text is put.                                            *)
(***************************************************************************)
\* The part of a text an edge comes from.
EdgeFrom(edge, part) == IF edge = Star THEN IsParameter(part) ELSE part = Doubled(edge)

LEMMA EdgeIs ==
  ASSUME NEW segment \in LoweredSegments, NEW part, Stands(segment, part), segment.kind # "catchall"
  PROVE  Edge(segment) \in Edges /\ EdgeFrom(Edge(segment), part)
<1>1. CASE segment \in [kind : {"literal"}, text : Seq(Byte) \ {Empty}]
  <2>1. segment.kind = "literal" /\ segment.text \in Seq(Byte) \ {Empty}
    BY <1>1
  <2>2. segment.text # Star
    BY <2>1, StarAssumption
  <2> QED BY <2>1, <2>2 DEF Edge, Edges, EdgeFrom, Stands
<1>2. CASE segment = Wildcard
  <2>1. segment.kind = "wildcard"
    BY <1>2 DEF Wildcard
  <2> QED BY <2>1 DEF Edge, Edges, EdgeFrom, Stands
<1>3. CASE segment = CatchAll
  BY <1>3 DEF CatchAll
<1> QED BY <1>1, <1>2, <1>3 DEF LoweredSegments

LEMMA TerminalWritten ==
  ASSUME NEW text \in Seq(Byte), NEW trailing \in BOOLEAN, NEW split, IsSplit(split, trailing, text),
         NEW segs \in Seq(LoweredSegments), Len(segs) = Len(split),
         \A k \in 1..Len(segs) : /\ Stands(segs[k], split[k])
                                 /\ segs[k].kind = "catchall" => k = Len(split) /\ ~trailing
  PROVE  TerminalOf(segs, trailing) \in LoweredTerminals /\ WrittenAs(TerminalOf(segs, trailing), text)
<1>1. PICK n \in Nat : n = Len(segs)
  OBVIOUS
<1>2. split \in Seq(Seq(Byte) \ {Empty}) /\ Len(split) = n
  BY <1>1 DEF IsSplit
<1>3. PICK catch_all \in BOOLEAN : catch_all <=> (segs # << >> /\ Last(segs) = CatchAll)
  OBVIOUS
<1>4. PICK edges : edges = IF catch_all THEN Front(segs) ELSE segs
  OBVIOUS
<1>5. PICK d : d = IF catch_all THEN n - 1 ELSE n
  OBVIOUS
<1>6. catch_all => n # 0 /\ segs[n] = CatchAll
  BY <1>1, <1>3, EmptySeq DEF Last
<1>7. ~catch_all => (n = 0 \/ segs[n] # CatchAll)
  BY <1>1, <1>3, EmptySeq DEF Last
<1>8. d \in Nat /\ d <= n
  BY <1>5, <1>6
<1>9. /\ edges \in Seq(LoweredSegments) /\ Len(edges) = d
      /\ \A k \in 1..d : edges[k] = segs[k]
  <2>1. CASE catch_all
    BY <1>1, <1>4, <1>5, <1>6, <2>1 DEF Front
  <2>2. CASE ~catch_all
    BY <1>1, <1>4, <1>5, <2>2
  <2> QED BY <2>1, <2>2
<1>10. \A k \in 1..n : segs[k] \in LoweredSegments /\ (segs[k].kind = "catchall" <=> segs[k] = CatchAll)
  <2>1. ASSUME NEW s \in LoweredSegments PROVE s.kind = "catchall" <=> s = CatchAll
    BY DEF LoweredSegments, Wildcard, CatchAll
  <2> QED BY <1>1, <2>1
<1>11. \A k \in 1..d : k \in 1..n /\ segs[k].kind # "catchall"
  <2>1. ASSUME NEW k \in 1..d, segs[k].kind = "catchall" PROVE FALSE
    <3>1. k \in 1..n
      BY <1>8
    <3>2. k = n
      BY <1>1, <1>2, <2>1, <3>1
    <3>3. ~catch_all
      BY <1>5, <3>2
    <3> QED BY <1>7, <1>10, <2>1, <3>1, <3>2, <3>3
  <2> QED BY <1>8, <2>1
<1>12. PICK node : node = [k \in DOMAIN edges |-> Edge(edges[k])]
  OBVIOUS
<1>13. PICK slot : slot = IF catch_all THEN "catchall" ELSE IF trailing THEN "leaf_slash" ELSE "leaf"
  OBVIOUS
<1>14. TerminalOf(segs, trailing) = [node |-> node, slot |-> slot]
  BY <1>3, <1>4, <1>12, <1>13 DEF TerminalOf
<1>15. \A k \in 1..d : Edge(edges[k]) \in Edges /\ EdgeFrom(Edge(edges[k]), split[k])
  BY <1>1, <1>9, <1>10, <1>11, EdgeIs
<1>16. DOMAIN edges = 1..d
  BY <1>9
<1>17. node \in Seq(Edges) /\ Len(node) = d /\ \A k \in 1..d : EdgeFrom(node[k], split[k])
  <2>1. node = [k \in 1..d |-> Edge(edges[k])]
    BY <1>12, <1>16
  <2>2. node \in [1..d -> Edges] /\ \A k \in 1..d : node[k] = Edge(edges[k])
    BY <1>15, <2>1
  <2>3. node \in Seq(Edges) /\ Len(node) = d
    BY <1>8, <2>2
  <2> QED BY <1>15, <2>2, <2>3
<1>18. slot \in Slots
  BY <1>13 DEF Slots
<1>19. [node |-> node, slot |-> slot] \in LoweredTerminals
  BY <1>17, <1>18 DEF LoweredTerminals
<1>20. PICK path : path = PathOf(text)
  OBVIOUS
<1>21. CASE split = << >>
  <2>1. n = 0 /\ d = 0 /\ ~catch_all
    BY <1>2, <1>5, <1>6, <1>21, EmptySeq
  <2>2. text = IF trailing THEN TwoSlashes ELSE <<Slash>>
    BY <1>21 DEF IsSplit
  <2>3. slot = "leaf" => path = Bare
    BY <1>13, <1>20, <2>1, <2>2, RootSegments
  <2>4. slot = "leaf_slash" => text = TwoSlashes
    BY <1>13, <2>1, <2>2
  <2>5. slot # "catchall"
    BY <1>13, <2>1
  <2>6. slot = "leaf" \/ slot = "leaf_slash"
    BY <1>13, <2>1
  <2>7. WrittenAs([node |-> node, slot |-> slot], text)
    <3>1. PICK t : t = [node |-> node, slot |-> slot]
      OBVIOUS
    <3>2. t.node = node /\ t.slot = slot /\ Len(t.node) = 0
      BY <1>17, <2>1, <3>1
    <3>3. \A k \in 1..Len(t.node) : FALSE
      BY <3>2
    <3>4. CASE slot = "leaf"
      BY <1>20, <2>3, <3>2, <3>3, <3>4 DEF WrittenAs
    <3>5. CASE slot = "leaf_slash"
      BY <1>20, <2>4, <3>2, <3>3, <3>5 DEF WrittenAs
    <3> QED BY <2>6, <3>1, <3>4, <3>5
  <2> QED BY <1>14, <1>19, <2>7
<1>22. CASE split # << >>
  <2>1. n # 0
    BY <1>2, <1>22, EmptySeq
  <2>2. path = IF trailing THEN Append(split, Empty) ELSE split
    BY <1>20, <1>22 DEF IsSplit
  <2>3. \A k \in 1..n : path[k] = split[k]
    BY <1>2, <2>2
  <2>4. \A k \in 1..d : EdgeFrom(node[k], path[k])
    BY <1>8, <1>17, <2>3
  <2>5. slot = "catchall" => Len(path) = d + 1 /\ IsRest(path[d + 1])
    <3>1. SUFFICES ASSUME catch_all PROVE Len(path) = d + 1 /\ IsRest(path[d + 1])
      BY <1>13
    <3>2. segs[n] = CatchAll /\ d + 1 = n /\ n \in 1..n
      BY <1>5, <1>6, <2>1, <3>1
    <3>3. ~trailing /\ IsRest(split[n])
      <4>1. segs[n].kind = "catchall"
        BY <3>2 DEF CatchAll
      <4> QED BY <1>1, <3>2, <4>1 DEF Stands
    <3> QED BY <1>2, <2>2, <3>2, <3>3
  <2>6. slot = "leaf_slash" => d # 0 /\ Len(path) = d + 1 /\ path[d + 1] = Empty
    BY <1>2, <1>5, <1>13, <2>1, <2>2
  <2>7. slot = "leaf" => d # 0 /\ Len(path) = d
    BY <1>2, <1>5, <1>13, <2>1, <2>2
  <2>8. WrittenAs([node |-> node, slot |-> slot], text)
    <3>1. slot = "catchall" \/ slot = "leaf_slash" \/ slot = "leaf"
      BY <1>13
    <3> QED BY <1>17, <1>20, <2>4, <2>5, <2>6, <2>7, <3>1 DEF WrittenAs, EdgeFrom
  <2> QED BY <1>14, <1>19, <2>8
<1> QED BY <1>21, <1>22

-----------------------------------------------------------------------------
(***************************************************************************)
(* Each step keeps the invariant.                                          *)
(***************************************************************************)
LEMMA RestGroupIs ==
  /\ RestGroup \in Seq(Byte) /\ Len(RestGroup) = 7
  /\ RestGroup[1] = OpenBrace /\ RestGroup[2] = Asterisk /\ RestGroup[7] = CloseBrace
  /\ \A k \in 3..6 : RestGroup[k] \notin {Asterisk, Slash, OpenBrace, CloseBrace}
<1>1. OpenBrace \in Byte /\ Asterisk \in Byte /\ CloseBrace \in Byte /\ {114, 101, 115, 116} \subseteq Byte
  BY DEF OpenBrace, Asterisk, CloseBrace, Byte
<1>2. {114, 101, 115, 116} \cap {Asterisk, Slash, OpenBrace, CloseBrace} = {}
  BY DEF OpenBrace, Asterisk, CloseBrace, Slash
<1>3. \A k \in 3..6 : k = 3 \/ k = 4 \/ k = 5 \/ k = 6
  OBVIOUS
<1>4. /\ Len(RestGroup) = 7 /\ RestGroup[1] = OpenBrace /\ RestGroup[2] = Asterisk
      /\ RestGroup[3] = 114 /\ RestGroup[4] = 101 /\ RestGroup[5] = 115 /\ RestGroup[6] = 116
      /\ RestGroup[7] = CloseBrace
  BY DEF RestGroup
<1>5. RestGroup \in Seq(Byte)
  BY <1>1 DEF RestGroup
<1>6. ASSUME NEW k \in 3..6 PROVE RestGroup[k] \notin {Asterisk, Slash, OpenBrace, CloseBrace}
  <2>1. PICK r : r = RestGroup
    OBVIOUS
  <2>2. r[3] = 114 /\ r[4] = 101 /\ r[5] = 115 /\ r[6] = 116
    BY <1>4, <2>1
  <2>3. r[k] \in {114, 101, 115, 116}
    BY <1>3, <2>2
  <2> QED BY <1>2, <2>1, <2>3, Zenon
<1> QED BY <1>4, <1>5, <1>6, Zenon

LEMMA SubtreePatternsTyped ==
  ASSUME NEW path \in Seq(Byte)
  PROVE  SubtreePatterns(path) \in Seq(Seq(Byte))
<1>1. Slash \in Byte /\ RestGroup \in Seq(Byte)
  BY RestGroupIs DEF Slash, Byte
<1>2. PICK x : x = path \o RestGroup
  OBVIOUS
<1>3. PICK s : s = path \o <<Slash>>
  OBVIOUS
<1>4. PICK y : y = s \o RestGroup
  OBVIOUS
<1>5. x \in Seq(Byte) /\ s \in Seq(Byte) /\ y \in Seq(Byte)
  BY <1>1, <1>2, <1>3, <1>4
<1>6. SubtreePatterns(path) = IF path # << >> /\ Last(path) = Slash THEN <<path, x>> ELSE <<path, s, y>>
  BY <1>2, <1>3, <1>4 DEF SubtreePatterns
<1>7. <<path, x>> \in Seq(Seq(Byte)) /\ <<path, s, y>> \in Seq(Seq(Byte))
  BY <1>5
<1> QED BY <1>6, <1>7

LEMMA PatternsTyped ==
  ASSUME asked.text \in Seq(Byte)
  PROVE  Patterns \in Seq(Seq(Byte))
BY SubtreePatternsTyped DEF Patterns

LEMMA PatternTyped ==
  ASSUME asked.text \in Seq(Byte), accepted \in Seq(LoweredTerminals), Len(accepted) < Len(Patterns)
  PROVE  Pattern \in Seq(Byte)
<1>1. Patterns \in Seq(Seq(Byte))
  BY PatternsTyped
<1>2. Len(accepted) + 1 \in 1..Len(Patterns)
  BY <1>1
<1> QED BY <1>1, <1>2 DEF Pattern

LEMMA PatternsKept == UNCHANGED asked => Patterns' = Patterns
BY DEF Patterns

\* A step that accepts nothing.
LEMMA AcceptedKept ==
  ASSUME IInv, UNCHANGED <<asked, accepted>>, stage \in {"split", "lower", "validate"},
         stage' \in {"split", "lower", "validate", "failed"}
  PROVE  AcceptedSoFar' /\ Pattern' = Pattern
<1>1. Patterns' = Patterns
  BY PatternsKept
<1>2. Pattern' = Pattern
  BY <1>1 DEF Pattern
<1>3. /\ accepted \in Seq(LoweredTerminals)
      /\ \A k \in 1..Len(accepted) : Rooted(Patterns[k]) /\ WrittenAs(accepted[k], Patterns[k])
      /\ Len(accepted) < Len(Patterns)
  BY DEF IInv, AcceptedSoFar
<1>4. accepted' = accepted
  OBVIOUS
<1>5. accepted' \in Seq(LoweredTerminals)
  BY <1>3, <1>4
<1>6. \A k \in 1..Len(accepted') : Rooted(Patterns'[k]) /\ WrittenAs(accepted'[k], Patterns'[k])
  BY <1>1, <1>3, <1>4
<1>7. Len(accepted') < Len(Patterns')
  BY <1>1, <1>3, <1>4
<1>8. stage' # "accepted"
  OBVIOUS
<1> QED BY <1>2, <1>5, <1>6, <1>7, <1>8 DEF AcceptedSoFar

LEMMA FailKeeps ==
  ASSUME IInv, stage \in {"split", "lower", "validate"}, NEW reason, Fail(reason)
  PROVE  IInv'
<1>1. stage' = "failed" /\ UNCHANGED <<asked, accepted>>
  BY DEF Fail, arguments
<1>2. AcceptedSoFar'
  BY <1>1, AcceptedKept
<1> QED BY <1>1, <1>2 DEF IInv

\* The segment in hand is a text.
LEMMA SegmentTyped ==
  ASSUME IInv, Lowering
  PROVE  /\ Segment \in Seq(Byte) \ {Empty} /\ Len(Segment) \in Nat
         /\ i \in 1..(Len(Segment) + 1) /\ Tidy(SubSeq(Segment, 1, i - 1))
         /\ Len(segments) + 1 \in 1..Len(parts)
<1>1. LoweredSoFar /\ ReadSoFar /\ stage = "lower" /\ Len(segments) < Len(parts)
  BY DEF IInv, Lowering
<1>2. parts \in Seq(Seq(Byte) \ {Empty}) /\ segments \in Seq(LoweredSegments)
  BY <1>1 DEF LoweredSoFar, IsSplit
<1>3. Len(segments) + 1 \in 1..Len(parts)
  BY <1>1, <1>2
<1>4. Segment \in Seq(Byte) \ {Empty}
  BY <1>2, <1>3 DEF Segment
<1> QED BY <1>1, <1>3, <1>4 DEF ReadSoFar

LEMMA SkipKeeps ==
  ASSUME IInv, Lowering, NEW n \in {1, 2}, Skip(n),
         i + n <= Len(Segment) + 1, Tidy(SubSeq(Segment, 1, i + n - 1))
  PROVE  IInv'
<1>1. /\ i' = i + n /\ UNCHANGED <<asked, accepted, stage, parts, trailing_slash, segments>>
      /\ stage = "lower"
  BY DEF Skip, arguments, Lowering
<1>2. AcceptedSoFar' /\ Pattern' = Pattern
  BY <1>1, AcceptedKept
<1>3. Segment' = Segment /\ Segment \in Seq(Byte) /\ i \in 1..(Len(Segment) + 1)
  BY <1>1, SegmentTyped DEF Segment
<1>4. LoweredSoFar'
  BY <1>1, <1>2 DEF IInv, LoweredSoFar
<1>5. ReadSoFar'
  <2>1. i + n \in 1..(Len(Segment) + 1)
    BY <1>3
  <2> QED BY <1>1, <1>3, <2>1 DEF ReadSoFar
<1> QED BY <1>1, <1>2, <1>4, <1>5 DEF IInv

LEMMA PushKeeps ==
  ASSUME IInv, Lowering, NEW segment \in LoweredSegments, Push(segment), Stands(segment, Segment),
         segment.kind = "catchall" => Len(segments) + 1 = Len(parts) /\ ~trailing_slash
  PROVE  IInv'
<1>1. /\ segments' = Append(segments, segment) /\ i' = 1
      /\ UNCHANGED <<asked, accepted, stage, parts, trailing_slash>> /\ stage = "lower"
  BY DEF Push, arguments, Lowering
<1>2. AcceptedSoFar' /\ Pattern' = Pattern
  BY <1>1, AcceptedKept
<1>3. LoweredSoFar /\ Len(segments) + 1 \in 1..Len(parts)
  BY SegmentTyped DEF IInv, Lowering
<1>4. PICK n \in Nat : n = Len(segments)
  BY <1>3 DEF LoweredSoFar
<1>5. segments \in Seq(LoweredSegments)
  BY <1>3 DEF LoweredSoFar
<1>6. /\ segments' \in Seq(LoweredSegments) /\ Len(segments') = n + 1 /\ segments'[n + 1] = segment
      /\ \A k \in 1..n : segments'[k] = segments[k]
  BY <1>1, <1>4, <1>5
<1>7. ASSUME NEW k \in 1..Len(segments')
      PROVE  /\ Stands(segments'[k], parts[k])
             /\ segments'[k].kind = "catchall" => k = Len(parts) /\ ~trailing_slash
  <2>1. CASE k = n + 1
    BY <1>4, <1>6, <2>1 DEF Segment
  <2>2. CASE k # n + 1
    <3>1. k \in 1..n
      BY <1>6, <2>2
    <3> QED BY <1>3, <1>4, <1>6, <3>1 DEF LoweredSoFar
  <2> QED BY <2>1, <2>2
<1>8. IsSplit(parts, trailing_slash, Pattern)
  BY <1>3 DEF LoweredSoFar
<1>9. Len(segments') <= Len(parts)
  BY <1>3, <1>4, <1>6
<1>10. LoweredSoFar'
  BY <1>1, <1>2, <1>6, <1>7, <1>8, <1>9 DEF LoweredSoFar
<1>11. ReadSoFar'
  <2>1. SUFFICES ASSUME Len(segments') < Len(parts)
                 PROVE  1 \in 1..(Len(Segment') + 1) /\ Tidy(SubSeq(Segment', 1, 1 - 1))
    BY <1>1 DEF ReadSoFar
  <2>2. parts \in Seq(Seq(Byte) \ {Empty})
    BY <1>8 DEF IsSplit
  <2>3. PICK s : s = Segment'
    OBVIOUS
  <2>4. s = parts[n + 2] /\ n + 2 \in 1..Len(parts)
    <3>1. (n + 1) + 1 = n + 2
      OBVIOUS
    <3> QED BY <1>1, <1>6, <2>1, <2>2, <2>3, <3>1 DEF Segment
  <2>5. s \in Seq(Byte)
    BY <2>2, <2>4
  <2>6. SubSeq(s, 1, 1 - 1) = << >>
    BY <2>5
  <2>7. 1 \in 1..(Len(s) + 1) /\ Tidy(SubSeq(s, 1, 1 - 1))
    <3>1. 1 \in 1..(Len(s) + 1)
      BY <2>5
    <3> QED BY <2>6, <3>1, TidyEmpty, Zenon
  <2> QED BY <2>3, <2>7, Zenon
<1> QED BY <1>1, <1>2, <1>10, <1>11 DEF IInv

\* One byte more of a text.
LEMMA PrefixGrows ==
  ASSUME NEW s \in Seq(Byte), NEW k \in 1..Len(s)
  PROVE  SubSeq(s, 1, k) = Append(SubSeq(s, 1, k - 1), s[k])
OBVIOUS

LEMMA SplitKeeps ==
  ASSUME IInv, SplitBody
  PROVE  IInv'
<1>1. PICK text : text = Pattern
  OBVIOUS
<1>2. PICK body : body = Tail(text)
  OBVIOUS
<1>3. PICK trailing \in BOOLEAN : trailing = (body # << >> /\ Last(body) = Slash)
  OBVIOUS
<1>4. PICK stripped : stripped = IF trailing THEN Front(body) ELSE body
  OBVIOUS
<1>5. PICK split : split = IF stripped = << >> THEN << >> ELSE PathOf(<<Slash>> \o stripped)
  OBVIOUS
<1>6. stage = "split"
  BY DEF SplitBody
<1>7. text \in Seq(Byte)
  <2>1. asked.text \in Seq(Byte) /\ accepted \in Seq(LoweredTerminals) /\ Len(accepted) < Len(Patterns)
    BY <1>6 DEF IInv, AcceptedSoFar
  <2> QED BY <1>1, <2>1, PatternTyped
<1>8. \/ \E reason : Fail(reason)
      \/ /\ Rooted(text) /\ Empty \notin Range(split)
         /\ parts' = split /\ trailing_slash' = trailing /\ segments' = << >> /\ i' = 1 /\ stage' = "lower"
         /\ UNCHANGED <<asked, accepted>>
  BY <1>1, <1>2, <1>3, <1>4, <1>5 DEF SplitBody, arguments
<1>9. CASE \E reason : Fail(reason)
  BY <1>6, <1>9, FailKeeps
<1>10. CASE /\ Rooted(text) /\ Empty \notin Range(split)
            /\ parts' = split /\ trailing_slash' = trailing /\ segments' = << >> /\ i' = 1 /\ stage' = "lower"
            /\ UNCHANGED <<asked, accepted>>
  <2>1. AcceptedSoFar' /\ Pattern' = text
    BY <1>1, <1>6, <1>10, AcceptedKept
  <2>2. IsSplit(split, trailing, text)
    <3>1. trailing <=> (body # << >> /\ Last(body) = Slash)
      BY <1>3
    <3> QED BY <1>2, <1>4, <1>5, <1>7, <1>10, <3>1, SplitIs
  <2>3. split \in Seq(Seq(Byte) \ {Empty})
    BY <2>2 DEF IsSplit
  <2>4. segments' \in Seq(LoweredSegments) /\ Len(segments') = 0
    BY <1>10, EmptySeq
  <2>5. LoweredSoFar'
    <3>1. IsSplit(parts', trailing_slash', Pattern')
      BY <1>10, <2>1, <2>2, Zenon
    <3>2. Len(segments') <= Len(parts') /\ \A k \in 1..Len(segments') : FALSE
      BY <1>10, <2>3, <2>4
    <3> QED BY <2>4, <3>1, <3>2 DEF LoweredSoFar
  <2>6. ReadSoFar'
    <3>1. SUFFICES ASSUME Len(segments') < Len(parts')
                   PROVE  1 \in 1..(Len(Segment') + 1) /\ Tidy(SubSeq(Segment', 1, 1 - 1))
      BY <1>10 DEF ReadSoFar
    <3>2. PICK s : s = Segment'
      OBVIOUS
    <3>3. s = split[1] /\ 1 \in 1..Len(split)
      BY <1>10, <2>3, <2>4, <3>1, <3>2 DEF Segment
    <3>4. s \in Seq(Byte)
      BY <2>3, <3>3
    <3>5. SubSeq(s, 1, 1 - 1) = << >>
      BY <3>4
    <3>6. 1 \in 1..(Len(s) + 1) /\ Tidy(SubSeq(s, 1, 1 - 1))
      <4>1. 1 \in 1..(Len(s) + 1)
        BY <3>4
      <4> QED BY <3>5, <4>1, TidyEmpty, Zenon
    <3> QED BY <3>2, <3>6, Zenon
  <2> QED BY <1>3, <1>10, <2>1, <2>5, <2>6 DEF IInv
<1> QED BY <1>8, <1>9, <1>10

LEMMA PairPassed ==
  ASSUME NEW s \in Seq(Byte), NEW k \in 1..Len(s), k < Len(s), s[k] \in Braces, s[k + 1] = s[k],
         Tidy(SubSeq(s, 1, k - 1))
  PROVE  Tidy(SubSeq(s, 1, k + 2 - 1))
<1>1. PICK a, b, c : a = SubSeq(s, 1, k - 1) /\ b = SubSeq(s, 1, k) /\ c = SubSeq(s, 1, k + 1)
  OBVIOUS
<1>2. b = Append(a, s[k])
  BY <1>1, PrefixGrows
<1>3. c = Append(b, s[k])
  <2>1. PICK l \in 1..Len(s) : l = k + 1
    OBVIOUS
  <2>2. SubSeq(s, 1, l) = Append(SubSeq(s, 1, l - 1), s[l])
    BY PrefixGrows
  <2>3. l - 1 = k
    BY <2>1
  <2> QED BY <1>1, <2>1, <2>2, <2>3
<1>4. Tidy(c)
  BY <1>1, <1>2, <1>3, TidyPair
<1>5. k + 2 - 1 = k + 1
  OBVIOUS
<1> QED BY <1>1, <1>4, <1>5

LEMMA PlainPassed ==
  ASSUME NEW s \in Seq(Byte), NEW k \in 1..Len(s), s[k] \notin Braces, Tidy(SubSeq(s, 1, k - 1))
  PROVE  Tidy(SubSeq(s, 1, k + 1 - 1))
<1>1. PICK a, b : a = SubSeq(s, 1, k - 1) /\ b = SubSeq(s, 1, k)
  OBVIOUS
<1>2. b = Append(a, s[k])
  BY <1>1, PrefixGrows
<1>3. s[k] \in Byte \ Braces
  OBVIOUS
<1>4. Tidy(b)
  BY <1>1, <1>2, <1>3, TidyPlain
<1>5. k + 1 - 1 = k
  OBVIOUS
<1> QED BY <1>1, <1>4, <1>5

LEMMA ReadPairKeeps ==
  ASSUME IInv, ReadPair
  PROVE  IInv'
<1>1. PICK brace \in Braces : AtByte(brace) /\ Paired /\ Skip(2)
  BY DEF ReadPair
<1>2. Lowering /\ Segment[i] \in Braces /\ Segment[i + 1] = Segment[i] /\ i < Len(Segment)
  BY <1>1 DEF AtByte, Paired
<1>3. Segment \in Seq(Byte) /\ i \in 1..(Len(Segment) + 1) /\ Tidy(SubSeq(Segment, 1, i - 1))
  BY <1>2, SegmentTyped
<1>4. i \in 1..Len(Segment) /\ i + 2 <= Len(Segment) + 1
  BY <1>2, <1>3
<1>5. Tidy(SubSeq(Segment, 1, i + 2 - 1))
  BY <1>2, <1>3, <1>4, PairPassed
<1> QED BY <1>1, <1>2, <1>4, <1>5, SkipKeeps

LEMMA ReadPlainKeeps ==
  ASSUME IInv, ReadPlain
  PROVE  IInv'
<1>1. Lowering /\ i <= Len(Segment) /\ Segment[i] \notin Braces /\ Skip(1)
  BY DEF ReadPlain
<1>2. Segment \in Seq(Byte) /\ i \in 1..(Len(Segment) + 1) /\ Tidy(SubSeq(Segment, 1, i - 1))
  BY <1>1, SegmentTyped
<1>3. i \in 1..Len(Segment) /\ i + 1 <= Len(Segment) + 1
  BY <1>1, <1>2
<1>4. Tidy(SubSeq(Segment, 1, i + 1 - 1))
  BY <1>1, <1>2, <1>3, PlainPassed
<1> QED BY <1>1, <1>3, <1>4, SkipKeeps

\* Read to its end: the segment is the doubling of its literal.
LEMMA EndLiteralKeeps ==
  ASSUME IInv, EndLiteral
  PROVE  IInv'
<1>1. Lowering /\ i > Len(Segment) /\ Push(Literal(UnescapeBraces(Segment)))
  BY DEF EndLiteral
<1>2. /\ Segment \in Seq(Byte) \ {Empty} /\ Len(Segment) \in Nat
      /\ i \in 1..(Len(Segment) + 1) /\ Tidy(SubSeq(Segment, 1, i - 1))
  BY <1>1, SegmentTyped
<1>3. PICK s : s = Segment
  OBVIOUS
<1>4. Tidy(s)
  <2>1. i - 1 = Len(s)
    BY <1>1, <1>2, <1>3
  <2>2. SubSeq(s, 1, Len(s)) = s
    BY <1>2, <1>3
  <2> QED BY <1>2, <1>3, <2>1, <2>2
<1>5. PICK u : u = UnescapeBraces(s)
  OBVIOUS
<1>6. u \in Seq(Byte) /\ Doubled(u) = s
  <2>1. s \in Seq(Byte) /\ Slash \in Byte
    BY <1>2, <1>3 DEF Slash, Byte
  <2>2. UnescapeBraces(s) \in Seq(Byte)
    BY <2>1, UnescapeStep
  <2> QED BY <1>4, <1>5, <2>2 DEF Tidy
<1>7. u # Empty
  BY <1>2, <1>3, <1>6, EmptyPairs, EmptyAssumption
<1>8. Literal(u) \in LoweredSegments /\ Literal(u).kind = "literal" /\ Literal(u).text = u
  BY <1>6, <1>7 DEF Literal, LoweredSegments
<1>9. Stands(Literal(u), Segment)
  BY <1>3, <1>6, <1>8 DEF Stands
<1>10. Push(Literal(u))
  BY <1>1, <1>3, <1>5
<1> QED BY <1>1, <1>8, <1>9, <1>10, PushKeeps

LEMMA InnerTyped ==
  ASSUME NEW s \in Seq(Byte), NEW n \in Nat, n = Len(s), n >= 2
  PROVE  SubSeq(s, 2, n - 1) \in Seq(Byte) /\ Len(SubSeq(s, 2, n - 1)) = n - 2
<1>1. PICK lo \in Int : lo = 2
  OBVIOUS
<1>2. PICK hi \in Int : hi = n - 1
  OBVIOUS
<1>3. \A k \in lo..hi : s[k] \in Byte
  <2>1. \A k \in lo..hi : k \in 1..n
    BY <1>1, <1>2
  <2> QED BY <2>1
<1>4. SubSeq(s, lo, hi) \in Seq(Byte) /\ Len(SubSeq(s, lo, hi)) = IF lo <= hi THEN hi - lo + 1 ELSE 0
  BY <1>3, SubSeqProperties
<1>5. (IF lo <= hi THEN hi - lo + 1 ELSE 0) = n - 2
  BY <1>1, <1>2
<1> QED BY <1>1, <1>2, <1>4, <1>5

\* A group that is lowered is a parameter, or the capture of a rest.
LEMMA GroupRead ==
  ASSUME NEW s \in Seq(Byte), NEW n \in Nat, n = Len(s), n >= 2, s[1] = OpenBrace,
         ~(1 < n /\ s[2] = s[1]),
         {k \in 2..n : s[k] = CloseBrace} = {n},
         NEW inner, inner = SubSeq(s, 2, n - 1), inner # << >>
  PROVE  /\ IsGroup(s) /\ CaptureOf(s) = inner /\ inner \in Seq(Byte) /\ Len(inner) = n - 2 /\ n >= 3
<1>1. inner \in Seq(Byte) /\ Len(inner) = n - 2
  BY InnerTyped, Zenon
<1>2. n >= 3
  BY <1>1, EmptySeq
<1>3. {k \in DOMAIN s : s[k] = CloseBrace} = {n}
  <2>1. DOMAIN s = 1..n
    OBVIOUS
  <2>2. \A k \in 1..n : k = 1 \/ k \in 2..n
    OBVIOUS
  <2>3. s[1] # CloseBrace
    BY BracesAreBytes
  <2>4. \A k \in 2..n : k \in 1..n
    OBVIOUS
  <2> QED BY <2>1, <2>2, <2>3, <2>4
<1>4. IsGroup(s)
  BY <1>2, <1>3 DEF IsGroup
<1> QED BY <1>1, <1>2, <1>4 DEF CaptureOf

LEMMA GroupLowered ==
  ASSUME IInv, Lowering, NEW inner, LowerGroup(inner), IsGroup(Segment), CaptureOf(Segment) = inner,
         inner \in Seq(Byte), Len(inner) = Len(Segment) - 2
  PROVE  IInv'
<1>1. PICK catch_all \in BOOLEAN : catch_all = (inner # << >> /\ inner[1] = Asterisk)
  OBVIOUS
<1>2. PICK name : name = IF catch_all THEN Tail(inner) ELSE inner
  OBVIOUS
<1>3. \/ \E reason : Fail(reason)
      \/ /\ name # << >> /\ Asterisk \notin Range(name)
         /\ \/ ~catch_all /\ Push(Wildcard)
            \/ /\ catch_all /\ Len(segments) + 1 = Len(parts) /\ ~trailing_slash
               /\ Push(CatchAll)
  BY <1>1, <1>2 DEF LowerGroup
<1>4. CASE \E reason : Fail(reason)
  BY <1>4, FailKeeps DEF Lowering
<1>5. CASE Asterisk \notin Range(name) /\ ~catch_all /\ Push(Wildcard)
  <2>1. IsParameter(Segment)
    BY <1>2, <1>5 DEF IsParameter
  <2>2. Wildcard \in LoweredSegments /\ Wildcard.kind = "wildcard"
    BY DEF LoweredSegments, Wildcard
  <2>3. Stands(Wildcard, Segment)
    BY <2>1, <2>2 DEF Stands
  <2> QED BY <1>5, <2>2, <2>3, PushKeeps
<1>6. CASE /\ name # << >> /\ Asterisk \notin Range(name) /\ catch_all
           /\ Len(segments) + 1 = Len(parts) /\ ~trailing_slash /\ Push(CatchAll)
  <2>1. PICK m \in Nat : m = Len(inner)
    OBVIOUS
  <2>2. inner # << >> /\ inner[1] = Asterisk /\ name = Tail(inner)
    BY <1>1, <1>2, <1>6
  <2>3. name \in Seq(Byte) /\ Len(name) = m - 1 /\ \A k \in 1..(m - 1) : name[k] = inner[k + 1]
    BY <2>1, <2>2, HeadTailProperties
  <2>4. m >= 2
    BY <1>6, <2>1, <2>3, EmptySeq
  <2>5. {k \in DOMAIN inner : inner[k] = Asterisk} = {1}
    <3>1. DOMAIN inner = 1..m
      BY <2>1
    <3>2. ASSUME NEW k \in 1..m, k # 1 PROVE inner[k] # Asterisk
      <4>1. PICK j \in 1..(m - 1) : j + 1 = k
        <5>1. k - 1 \in 1..(m - 1) /\ (k - 1) + 1 = k
          BY <2>4, <3>2
        <5> QED BY <5>1
      <4>2. name[j] = inner[k] /\ j \in DOMAIN name
        BY <2>3, <4>1
      <4> QED BY <1>6, <4>2 DEF Range
    <3>3. 1 \in 1..m
      BY <2>4
    <3> QED BY <2>2, <3>1, <3>2, <3>3
  <2>6. Len(Segment) >= 4
    <3>1. Segment \in Seq(Byte)
      BY SegmentTyped
    <3> QED BY <2>1, <2>4, <3>1
  <2>7. IsRest(Segment)
    BY <2>5, <2>6 DEF IsRest
  <2>8. CatchAll \in LoweredSegments /\ CatchAll.kind = "catchall"
    BY DEF LoweredSegments, CatchAll
  <2>9. Stands(CatchAll, Segment)
    BY <2>7, <2>8 DEF Stands
  <2> QED BY <1>6, <2>8, <2>9, PushKeeps
<1> QED BY <1>3, <1>4, <1>5, <1>6

LEMMA ReadGroupKeeps ==
  ASSUME IInv, ReadGroup
  PROVE  IInv'
<1>1. Lowering /\ i <= Len(Segment) /\ Segment[i] = OpenBrace /\ ~Paired
  BY DEF ReadGroup, AtByte
<1>2. Segment \in Seq(Byte) /\ Len(Segment) \in Nat /\ i \in 1..(Len(Segment) + 1)
  BY <1>1, SegmentTyped
<1>3. PICK closing : closing = {k \in (i + 1)..Len(Segment) : Segment[k] = CloseBrace}
  OBVIOUS
<1>4. PICK inner : inner = SubSeq(Segment, 2, Len(Segment) - 1)
  OBVIOUS
<1>5. \/ \E reason : Fail(reason)
      \/ i = 1 /\ closing = {Len(Segment)} /\ LowerGroup(inner)
  BY <1>3, <1>4 DEF ReadGroup
<1>6. CASE \E reason : Fail(reason)
  BY <1>1, <1>6, FailKeeps DEF Lowering
<1>7. CASE i = 1 /\ closing = {Len(Segment)} /\ LowerGroup(inner)
  <2>1. CASE inner = << >>
    <3>1. LowerGroup(<< >>)
      BY <1>7, <2>1
    <3>2. Fail("InvalidParam")
      BY <3>1, Zenon DEF LowerGroup
    <3> QED BY <1>1, <3>2, FailKeeps DEF Lowering
  <2>2. CASE inner # << >>
    <3>0. PICK s : s = Segment
      OBVIOUS
    <3>1. PICK n \in Nat : s = Segment /\ n = Len(s)
      BY <1>2, <3>0
    <3>2. /\ s[1] = OpenBrace /\ ~(1 < n /\ s[2] = s[1])
      <4>1. ~(i < Len(Segment) /\ Segment[i + 1] = Segment[i])
        BY <1>1 DEF Paired
      <4>2. 1 + 1 = 2
        OBVIOUS
      <4> QED BY <1>1, <1>7, <3>1, <4>1, <4>2
    <3>3. {k \in 2..n : s[k] = CloseBrace} = {n}
      <4>1. i + 1 = 2
        BY <1>7
      <4> QED BY <1>3, <1>7, <3>1, <4>1
    <3>4. n >= 2
      <4>1. n \in 2..n
        BY <3>3
      <4> QED BY <4>1
    <3>5. IsGroup(s) /\ CaptureOf(s) = inner /\ inner \in Seq(Byte) /\ Len(inner) = n - 2
      <4>1. s \in Seq(Byte) /\ inner = SubSeq(s, 2, n - 1)
        BY <1>2, <1>4, <3>1
      <4> QED BY <2>2, <3>1, <3>2, <3>3, <3>4, <4>1, GroupRead
    <3> QED BY <1>1, <1>7, <3>1, <3>5, GroupLowered
  <2> QED BY <2>1, <2>2
<1> QED BY <1>5, <1>6, <1>7

LEMMA StrayCloseKeeps ==
  ASSUME IInv, StrayClose
  PROVE  IInv'
BY FailKeeps DEF StrayClose, AtByte, Lowering

LEMMA FinishLoweringKeeps ==
  ASSUME IInv, FinishLowering
  PROVE  IInv'
<1>1. /\ stage = "lower" /\ Len(segments) = Len(parts) /\ stage' = "validate"
      /\ UNCHANGED <<asked, accepted, parts, trailing_slash, segments>>
  BY DEF FinishLowering, arguments
<1>2. AcceptedSoFar' /\ Pattern' = Pattern
  BY <1>1, AcceptedKept
<1>3. LoweredSoFar'
  BY <1>1, <1>2 DEF IInv, LoweredSoFar
<1> QED BY <1>1, <1>2, <1>3 DEF IInv

LEMMA ValidateSegmentKeeps ==
  ASSUME IInv, ValidateSegment
  PROVE  IInv'
<1>1. stage = "validate" /\ ((\E reason : Fail(reason)) \/ Skip(1))
  BY DEF ValidateSegment, Validating
<1>2. CASE \E reason : Fail(reason)
  BY <1>1, <1>2, FailKeeps
<1>3. CASE Skip(1)
  <2>1. UNCHANGED <<asked, accepted, stage, parts, trailing_slash, segments>>
    BY <1>3 DEF Skip, arguments
  <2>2. AcceptedSoFar' /\ Pattern' = Pattern
    BY <1>1, <2>1, AcceptedKept
  <2>3. LoweredSoFar'
    BY <1>1, <2>1, <2>2 DEF IInv, LoweredSoFar
  <2> QED BY <1>1, <2>1, <2>2, <2>3 DEF IInv
<1> QED BY <1>1, <1>2, <1>3

LEMMA FinishPatternKeeps ==
  ASSUME IInv, FinishPattern
  PROVE  IInv'
<1>1. PICK t : t = TerminalOf(segments, trailing_slash)
  OBVIOUS
<1>2. /\ stage = "validate" /\ accepted' = Append(accepted, t)
      /\ stage' = IF Len(accepted') = Len(Patterns) THEN "accepted" ELSE "split"
      /\ UNCHANGED asked
  BY <1>1 DEF FinishPattern, arguments
<1>3. /\ LoweredSoFar /\ trailing_slash \in BOOLEAN /\ Len(segments) = Len(parts)
      /\ AcceptedSoFar /\ accepted \in Seq(LoweredTerminals) /\ Len(accepted) < Len(Patterns)
      /\ asked.text \in Seq(Byte)
  BY <1>2 DEF IInv, AcceptedSoFar
<1>4. PICK text : text = Pattern
  OBVIOUS
<1>5. text \in Seq(Byte)
  BY <1>3, <1>4, PatternTyped
<1>6. t \in LoweredTerminals /\ WrittenAs(t, text) /\ Rooted(text)
  <2>1. IsSplit(parts, trailing_slash, text)
    BY <1>3, <1>4 DEF LoweredSoFar
  <2>2. segments \in Seq(LoweredSegments)
    BY <1>3 DEF LoweredSoFar
  <2>3. \A k \in 1..Len(segments) :
          /\ Stands(segments[k], parts[k])
          /\ segments[k].kind = "catchall" => k = Len(parts) /\ ~trailing_slash
    BY <1>3 DEF LoweredSoFar
  <2>4. Rooted(text)
    BY <2>1 DEF IsSplit
  <2> QED BY <1>1, <1>3, <1>5, <2>1, <2>2, <2>3, <2>4, TerminalWritten
<1>7. PICK n, m \in Nat : n = Len(accepted) /\ m = Len(Patterns)
  <2>1. Patterns \in Seq(Seq(Byte))
    BY <1>3, PatternsTyped
  <2> QED BY <1>3, <2>1
<1>8. /\ accepted' \in Seq(LoweredTerminals) /\ Len(accepted') = n + 1 /\ accepted'[n + 1] = t
      /\ \A k \in 1..n : accepted'[k] = accepted[k]
  BY <1>2, <1>3, <1>6, <1>7
<1>9. Patterns' = Patterns
  BY <1>2, PatternsKept
<1>10. ASSUME NEW k \in 1..(n + 1) PROVE Rooted(Patterns[k]) /\ WrittenAs(accepted'[k], Patterns[k])
  <2>1. CASE k = n + 1
    <3>1. Patterns[k] = text
      BY <1>4, <1>7, <2>1 DEF Pattern
    <3>2. accepted'[k] = t
      BY <1>8, <2>1
    <3> QED BY <1>6, <3>1, <3>2
  <2>2. CASE k # n + 1
    <3>1. k \in 1..n
      BY <1>7, <2>2
    <3> QED BY <1>3, <1>7, <1>8, <3>1 DEF AcceptedSoFar
  <2> QED BY <2>1, <2>2
<1>11. n < m
  BY <1>3, <1>7
<1>12. stage' \in {"split", "accepted"} /\ (stage' = "split" => n + 1 < m) /\ (stage' = "accepted" => n + 1 = m)
  BY <1>2, <1>7, <1>8, <1>11
<1>13. AcceptedSoFar'
  <2>1. \A k \in 1..Len(accepted') : Rooted(Patterns'[k]) /\ WrittenAs(accepted'[k], Patterns'[k])
    BY <1>8, <1>9, <1>10
  <2>2. Len(Patterns') = m
    BY <1>7, <1>9
  <2> QED BY <1>8, <1>12, <2>1, <2>2 DEF AcceptedSoFar
<1> QED BY <1>2, <1>3, <1>12, <1>13 DEF IInv

-----------------------------------------------------------------------------
(***************************************************************************)
(* The theorems.                                                           *)
(***************************************************************************)
LEMMA InitInvariant == Init => IInv
<1>1. SUFFICES ASSUME Init PROVE IInv
  OBVIOUS
<1>2. asked.text \in Seq(Byte) /\ asked.kind \in {"path", "subtree"}
  BY <1>1, TextsAssumption DEF Init
<1>3. accepted = << >> /\ stage = "split"
  BY <1>1 DEF Init
<1>4. accepted \in Seq(LoweredTerminals) /\ Len(accepted) = 0
  BY <1>3, EmptySeq
<1>5. Len(Patterns) > 0
  <2>1. CASE asked.kind = "subtree"
    <3>1. PICK x, y, z : /\ x = asked.text \o RestGroup /\ y = asked.text \o <<Slash>>
                         /\ z = asked.text \o <<Slash>> \o RestGroup
      OBVIOUS
    <3>2. Patterns \in {<<asked.text, x>>, <<asked.text, y, z>>}
      BY <2>1, <3>1 DEF Patterns, SubtreePatterns
    <3> QED BY <3>2
  <2>2. CASE asked.kind # "subtree"
    BY <2>2 DEF Patterns
  <2> QED BY <2>1, <2>2
<1>6. AcceptedSoFar
  BY <1>3, <1>4, <1>5 DEF AcceptedSoFar
<1> QED BY <1>2, <1>3, <1>6 DEF IInv

LEMMA NextInvariant == IInv /\ [Next]_vars => IInv'
<1> SUFFICES ASSUME IInv, [Next]_vars PROVE IInv'
  OBVIOUS
<1>1. CASE SplitBody
  BY <1>1, SplitKeeps
<1>2. CASE ReadPair
  BY <1>2, ReadPairKeeps
<1>3. CASE ReadPlain
  BY <1>3, ReadPlainKeeps
<1>4. CASE StrayClose
  BY <1>4, StrayCloseKeeps
<1>5. CASE EndLiteral
  BY <1>5, EndLiteralKeeps
<1>6. CASE ReadGroup
  BY <1>6, ReadGroupKeeps
<1>7. CASE FinishLowering
  BY <1>7, FinishLoweringKeeps
<1>8. CASE ValidateSegment
  BY <1>8, ValidateSegmentKeeps
<1>9. CASE FinishPattern
  BY <1>9, FinishPatternKeeps
<1>10. CASE UNCHANGED vars
  <2>1. UNCHANGED <<asked, accepted, stage, parts, trailing_slash, segments, i>>
    BY <1>10 DEF vars
  <2>2. Patterns' = Patterns /\ Pattern' = Pattern /\ Segment' = Segment
    BY <2>1, PatternsKept DEF Pattern, Segment
  <2>3. AcceptedSoFar <=> AcceptedSoFar'
    BY <2>1, <2>2 DEF AcceptedSoFar
  <2>4. LoweredSoFar <=> LoweredSoFar'
    BY <2>1, <2>2 DEF LoweredSoFar
  <2>5. ReadSoFar <=> ReadSoFar'
    BY <2>1, <2>2 DEF ReadSoFar
  <2> QED BY <2>1, <2>3, <2>4, <2>5 DEF IInv
<1> QED BY <1>1, <1>2, <1>3, <1>4, <1>5, <1>6, <1>7, <1>8, <1>9, <1>10 DEF Next, Read

\* What the cursor has passed over is tidy, and what is accepted is written as its text.
THEOREM LoweringInvariant == Spec => []IInv
BY InitInvariant, NextInvariant, PTL DEF Spec

\* Lowering loses nothing but the names of captures: every terminal accepted determines
\* the text it was lowered from (lower_segment, unescape_braces, Pattern::terminal).
THEOREM LoweringAlwaysInverts == Spec => []LoweringInverts
<1>1. IInv => LoweringInverts
  <2>1. SUFFICES ASSUME IInv PROVE LoweringInverts
    OBVIOUS
  <2>2. AcceptedSoFar
    BY <2>1 DEF IInv
  <2>3. DOMAIN accepted = 1..Len(accepted)
    BY <2>2 DEF AcceptedSoFar
  <2> QED BY <2>2, <2>3 DEF AcceptedSoFar, LoweringInverts
<1> QED BY <1>1, LoweringInvariant, PTL

-----------------------------------------------------------------------------
(***************************************************************************)
(* What the terminals of a subtree claim.                                  *)
(***************************************************************************)
LEMMA EmptyIsNothing == Empty \in Seq(Byte) /\ Len(Empty) = 0 /\ Empty = << >>
BY EmptyAssumption, EmptySeq

\* Nothing stands for the empty segment but nothing.
LEMMA NotEmptyStandsForSome ==
  ASSUME NEW part, part # Empty
  PROVE  ~StandsFor(part, Empty)
<1>1. Doubled(Empty) = Empty
  BY EmptyPairs, EmptyIsNothing
<1> QED BY <1>1 DEF StandsFor

LEMMA EdgeTakes ==
  ASSUME NEW edge \in Edges, NEW part, EdgeFrom(edge, part)
  PROVE  /\ part # Empty /\ ~IsRest(part)
         /\ \A segment \in Seq(Byte) : Takes(edge, segment) <=> StandsFor(part, segment)
<1>1. CASE edge = Star
  <2>1. IsParameter(part)
    BY <1>1 DEF EdgeFrom
  <2>2. part # Empty
    BY <2>1, EmptyIsNothing DEF IsParameter, IsGroup
  <2>3. ~IsRest(part)
    <3>1. SUFFICES ASSUME IsRest(part) PROVE FALSE
      OBVIOUS
    <3>2. 1 \in {k \in DOMAIN CaptureOf(part) : CaptureOf(part)[k] = Asterisk}
      BY <3>1 DEF IsRest
    <3>3. Asterisk \in Range(CaptureOf(part))
      BY <3>2 DEF Range
    <3> QED BY <2>1, <3>3 DEF IsParameter
  <2>4. \A segment \in Seq(Byte) : segment # Star
    BY StarAssumption
  <2> QED BY <1>1, <2>1, <2>2, <2>3, <2>4 DEF Takes, StandsFor
<1>2. CASE edge # Star
  <2>1. edge \in Seq(Byte) /\ edge # Empty /\ part = Doubled(edge)
    BY <1>2 DEF EdgeFrom, Edges
  <2>2. ~IsGroup(part)
    BY <2>1, GroupNotDoubled
  <2>3. part # Empty
    <3>1. Doubled(Empty) = Empty
      BY EmptyPairs, EmptyIsNothing
    <3> QED BY <2>1, <3>1, EmptyIsNothing, DoubledInjective
  <2>4. \A segment \in Seq(Byte) : edge = segment <=> Doubled(segment) = part
    BY <2>1, DoubledInjective
  <2> QED BY <1>2, <2>2, <2>3, <2>4 DEF Takes, StandsFor, IsRest, IsParameter
<1> QED BY <1>1, <1>2

LEMMA RestGroupIsRest ==
  /\ IsRest(RestGroup) /\ RestGroup # Empty
  /\ \A k \in 1..Len(RestGroup) : RestGroup[k] # Slash
<1>1. PICK r : r = RestGroup
  OBVIOUS
<1>2. /\ r \in Seq(Byte) /\ Len(r) = 7 /\ r[1] = OpenBrace /\ r[2] = Asterisk /\ r[7] = CloseBrace
      /\ \A k \in 3..6 : r[k] # Asterisk /\ r[k] # Slash /\ r[k] # OpenBrace /\ r[k] # CloseBrace
  BY <1>1, RestGroupIs
<1>3. OpenBrace # CloseBrace /\ Asterisk # OpenBrace /\ Asterisk # CloseBrace
      /\ Slash # OpenBrace /\ Slash # CloseBrace /\ Slash # Asterisk
  BY DEF OpenBrace, CloseBrace, Asterisk, Slash
<1>4. \A k \in 1..7 : k = 1 \/ k = 2 \/ k \in 3..6 \/ k = 7
  OBVIOUS
<1>5. \A k \in 1..7 : r[k] # Slash /\ (r[k] = CloseBrace <=> k = 7)
  BY <1>2, <1>3, <1>4
<1>6. IsGroup(r)
  <2>1. DOMAIN r = 1..7
    BY <1>2
  <2>2. {k \in 1..7 : r[k] = CloseBrace} = {7}
    BY <1>5
  <2> QED BY <1>2, <1>3, <2>1, <2>2 DEF IsGroup
<1>7. PICK inner : inner = CaptureOf(r)
  OBVIOUS
<1>8. Len(inner) = 5 /\ inner \in Seq(Byte) /\ \A k \in 1..5 : inner[k] = r[k + 1]
  <2>1. PICK lo \in Int : lo = 2
    OBVIOUS
  <2>2. PICK hi \in Int : hi = 6
    OBVIOUS
  <2>3. \A k \in lo..hi : r[k] \in Byte
    <3>1. r \in Seq(Byte)
      BY <1>2
    <3>2. PICK m \in Nat : m = Len(r)
      BY <3>1
    <3>3. \A k \in 1..m : r[k] \in Byte
      BY <3>1, <3>2
    <3>4. \A k \in lo..hi : k \in 1..m
      BY <1>2, <2>1, <2>2, <3>2
    <3> QED BY <3>3, <3>4
  <2>4. /\ SubSeq(r, lo, hi) \in Seq(Byte)
        /\ Len(SubSeq(r, lo, hi)) = IF lo <= hi THEN hi - lo + 1 ELSE 0
        /\ \A k \in 1..(hi - lo + 1) : SubSeq(r, lo, hi)[k] = r[lo + k - 1]
    BY <2>3, SubSeqProperties
  <2>5. inner = SubSeq(r, lo, hi)
    <3>1. 7 - 1 = 6
      OBVIOUS
    <3> QED BY <1>2, <1>7, <2>1, <2>2, <3>1 DEF CaptureOf
  <2>6. hi - lo + 1 = 5 /\ lo <= hi /\ \A k \in 1..5 : lo + k - 1 = k + 1
    BY <2>1, <2>2
  <2> QED BY <2>4, <2>5, <2>6
<1>9. {k \in DOMAIN inner : inner[k] = Asterisk} = {1}
  <2>1. DOMAIN inner = 1..5
    BY <1>8
  <2>2. ASSUME NEW k \in 1..5 PROVE inner[k] = Asterisk <=> k = 1
    <3>1. k + 1 = 2 \/ k + 1 \in 3..6
      OBVIOUS
    <3>2. k = 1 <=> k + 1 = 2
      OBVIOUS
    <3> QED BY <1>2, <1>8, <3>1, <3>2
  <2>3. 1 \in 1..5
    OBVIOUS
  <2> QED BY <2>1, <2>2, <2>3
<1>10. IsRest(r)
  BY <1>2, <1>6, <1>7, <1>9 DEF IsRest
<1>11. r # Empty
  BY <1>2, EmptyIsNothing
<1> QED BY <1>1, <1>2, <1>5, <1>10, <1>11

LEMMA Appended ==
  ASSUME NEW T, NEW s \in Seq(T), NEW x \in T
  PROVE  /\ Len(Append(s, x)) = Len(s) + 1 /\ Append(s, x)[Len(s) + 1] = x
         /\ \A k \in 1..Len(s) : Append(s, x)[k] = s[k]
OBVIOUS

LEMMA TwoEmpty ==
  Len(PathOf(TwoSlashes)) = 2 /\ PathOf(TwoSlashes)[1] = Empty /\ PathOf(TwoSlashes)[2] = Empty
<1>1. <<Slash>> \in Seq(Byte)
  BY DEF Slash, Byte
<1>2. PICK path : path = PathOf(TwoSlashes)
  OBVIOUS
<1>3. path = Append(Bare, Empty)
  BY <1>1, <1>2, SlashSegment, RootSegments, TwoSlashesAre
<1>4. PICK b : b = Bare
  OBVIOUS
<1>5. b \in Seq(Seq(Byte)) /\ Len(b) = 1 /\ b[1] = Empty
  BY <1>4, EmptyIsNothing DEF Bare
<1>6. PICK n \in Nat : n = Len(b)
  BY <1>5
<1>7. Len(path) = n + 1 /\ path[n + 1] = Empty /\ \A k \in 1..n : path[k] = b[k]
  <2>1. b \in Seq(Seq(Byte)) /\ Empty \in Seq(Byte)
    BY <1>5, EmptyIsNothing
  <2> QED BY <1>3, <1>4, <1>6, <2>1, Appended
<1>8. n = 1 /\ n + 1 = 2 /\ 1 \in 1..n
  BY <1>5, <1>6
<1>9. path[1] = Empty
  BY <1>5, <1>7, <1>8
<1> QED BY <1>2, <1>7, <1>8, <1>9

\* A terminal with the edges of a path.
EdgesFrom(t, path) == Len(t.node) = Len(path) /\ \A k \in 1..Len(path) : EdgeFrom(t.node[k], path[k])

\* Parts that are segments of a path and no more.
Literals(path) == \A k \in 1..Len(path) : path[k] # Empty /\ ~IsRest(path[k])

LEMMA EdgesAreLiterals ==
  ASSUME NEW t \in LoweredTerminals, NEW path, EdgesFrom(t, path)
  PROVE  Literals(path)
<1>1. t.node \in Seq(Edges)
  BY DEF LoweredTerminals
<1>2. \A k \in 1..Len(path) : t.node[k] \in Edges /\ EdgeFrom(t.node[k], path[k])
  BY <1>1 DEF EdgesFrom
<1> QED BY <1>2, EdgeTakes DEF Literals

LEMMA WrittenEdges ==
  ASSUME NEW t \in LoweredTerminals, NEW text, WrittenAs(t, text)
  PROVE  /\ t.node \in Seq(Edges) /\ Len(t.node) \in Nat
         /\ \A k \in 1..Len(t.node) : EdgeFrom(t.node[k], PathOf(text)[k])
         /\ \A k \in 1..Len(t.node) : PathOf(text)[k] # Empty /\ ~IsRest(PathOf(text)[k])
<1>1. t.node \in Seq(Edges)
  BY DEF LoweredTerminals
<1>2. \A k \in 1..Len(t.node) : EdgeFrom(t.node[k], PathOf(text)[k])
  BY DEF WrittenAs, EdgeFrom
<1>3. \A k \in 1..Len(t.node) : t.node[k] \in Edges
  BY <1>1
<1> QED BY <1>1, <1>2, <1>3, EdgeTakes

\* Where the three slots can be, path being the segments of the text.
LEMMA WrittenSlots ==
  ASSUME NEW t \in LoweredTerminals, NEW text, WrittenAs(t, text), NEW path, path = PathOf(text)
  PROVE  \/ t.slot = "catchall" /\ Len(path) = Len(t.node) + 1 /\ IsRest(path[Len(t.node) + 1])
         \/ t.slot = "leaf_slash" /\ Len(t.node) = 0 /\ text = TwoSlashes
         \/ /\ t.slot = "leaf_slash" /\ Len(t.node) # 0
            /\ Len(path) = Len(t.node) + 1 /\ path[Len(t.node) + 1] = Empty
         \/ t.slot = "leaf" /\ Len(t.node) = 0 /\ path = Bare
         \/ t.slot = "leaf" /\ Len(t.node) # 0 /\ Len(path) = Len(t.node)
<1>1. t.slot \in {"leaf", "leaf_slash", "catchall"}
  BY DEF LoweredTerminals, Slots
<1>2. CASE t.slot = "catchall"
  BY <1>2 DEF WrittenAs
<1>3. CASE t.slot = "leaf_slash"
  BY <1>3 DEF WrittenAs
<1>4. CASE t.slot = "leaf"
  BY <1>4 DEF WrittenAs
<1> QED BY <1>1, <1>2, <1>3, <1>4

LEMMA RestTerminal ==
  ASSUME NEW t \in LoweredTerminals, NEW base \in Seq(Byte),
         WrittenAs(t, Append(base, Slash) \o RestGroup)
  PROVE  t.slot = "catchall" /\ EdgesFrom(t, PathOf(base))
<1>1. PICK text : text = Append(base, Slash) \o RestGroup
  OBVIOUS
<1>2. PICK p, path : p = PathOf(base) /\ path = PathOf(text)
  OBVIOUS
<1>3. path = Append(p, RestGroup)
  BY <1>1, <1>2, NextSegment, RestGroupIs, RestGroupIsRest
<1>4. p \in Seq(Seq(Byte)) /\ RestGroup \in Seq(Byte)
  BY <1>2, PathOfTyped, RestGroupIs
<1>5. PICK n \in Nat : n = Len(p)
  BY <1>4
<1>6. /\ Len(path) = n + 1 /\ path[n + 1] = RestGroup
      /\ \A k \in 1..n : path[k] = p[k]
  BY <1>3, <1>4, <1>5
<1>7. PICK d \in Nat : d = Len(t.node)
  BY <1>1, WrittenEdges
<1>8. /\ \A k \in 1..d : EdgeFrom(t.node[k], path[k])
      /\ \A k \in 1..d : path[k] # Empty /\ ~IsRest(path[k])
  BY <1>1, <1>2, <1>7, WrittenEdges
<1>9. d # n + 1
  BY <1>6, <1>8, RestGroupIsRest
<1>10. CASE t.slot = "catchall" /\ Len(path) = d + 1
  <2>1. d = n
    BY <1>5, <1>6, <1>7, <1>10
  <2> QED BY <1>1, <1>2, <1>5, <1>6, <1>7, <1>8, <1>10, <2>1 DEF EdgesFrom
<1>11. CASE text = TwoSlashes
  <2>1. path[2] = Empty /\ Len(path) = 2
    BY <1>2, <1>11, TwoEmpty
  <2>2. n + 1 = 2
    BY <1>6, <2>1
  <2> QED BY <1>6, <2>1, <2>2, RestGroupIsRest
<1>12. CASE Len(path) = d + 1 /\ path[d + 1] = Empty
  <2>1. d = n
    BY <1>5, <1>6, <1>7, <1>12
  <2> QED BY <1>6, <1>12, <2>1, RestGroupIsRest
<1>13. CASE path = Bare
  <2>1. path[1] = Empty /\ Len(path) = 1
    BY <1>13 DEF Bare
  <2>2. n + 1 = 1
    BY <1>6, <2>1
  <2> QED BY <1>6, <2>1, <2>2, RestGroupIsRest
<1>14. CASE d # 0 /\ Len(path) = d
  BY <1>6, <1>9, <1>14
<1> QED BY <1>1, <1>2, <1>7, <1>10, <1>11, <1>12, <1>13, <1>14, WrittenSlots

LEMMA LeafTerminal ==
  ASSUME NEW t \in LoweredTerminals, NEW text \in Seq(Byte), WrittenAs(t, text),
         Literals(PathOf(text)), PathOf(text) # << >>
  PROVE  t.slot = "leaf" /\ EdgesFrom(t, PathOf(text))
<1>1. PICK path : path = PathOf(text)
  OBVIOUS
<1>2. path \in Seq(Seq(Byte)) /\ path # << >>
  BY <1>1, PathOfTyped
<1>3. PICK n \in Nat : n = Len(path) /\ n # 0
  BY <1>2, EmptySeq
<1>4. PICK d \in Nat : d = Len(t.node)
  BY WrittenEdges
<1>5. \A k \in 1..d : EdgeFrom(t.node[k], path[k])
  BY <1>1, <1>4, WrittenEdges
<1>6. \A k \in 1..n : path[k] # Empty /\ ~IsRest(path[k])
  BY <1>1, <1>3 DEF Literals
<1>7. path[1] # Empty /\ path[n] # Empty /\ ~IsRest(path[n])
  BY <1>3, <1>6
<1>8. ~(Len(path) = d + 1 /\ IsRest(path[d + 1]))
  BY <1>3, <1>7
<1>9. text # TwoSlashes
  <2>1. SUFFICES ASSUME text = TwoSlashes PROVE FALSE
    OBVIOUS
  <2>2. path[1] = Empty
    BY <1>1, <2>1, TwoEmpty
  <2> QED BY <1>7, <2>2
<1>10. ~(Len(path) = d + 1 /\ path[d + 1] = Empty)
  BY <1>3, <1>7
<1>11. path # Bare
  BY <1>7 DEF Bare
<1>12. t.slot = "leaf" /\ Len(path) = d
  BY <1>1, <1>4, <1>8, <1>9, <1>10, <1>11, WrittenSlots
<1> QED BY <1>1, <1>4, <1>5, <1>12 DEF EdgesFrom

LEMMA SlashTerminal ==
  ASSUME NEW t \in LoweredTerminals, NEW base \in Seq(Byte), WrittenAs(t, Append(base, Slash)),
         Literals(PathOf(base)), PathOf(base) # << >>
  PROVE  t.slot = "leaf_slash" /\ EdgesFrom(t, PathOf(base))
<1>1. PICK text : text = Append(base, Slash)
  OBVIOUS
<1>2. PICK p, path : p = PathOf(base) /\ path = PathOf(text)
  OBVIOUS
<1>3. path = Append(p, Empty)
  BY <1>1, <1>2, SlashSegment
<1>4. p \in Seq(Seq(Byte)) /\ p # << >>
  BY <1>2, PathOfTyped
<1>5. PICK n \in Nat : n = Len(p) /\ n # 0
  BY <1>4, EmptySeq
<1>6. /\ Len(path) = n + 1 /\ path[n + 1] = Empty
      /\ \A k \in 1..n : path[k] = p[k]
  BY <1>3, <1>4, <1>5, EmptyIsNothing
<1>7. PICK d \in Nat : d = Len(t.node)
  BY <1>1, WrittenEdges
<1>8. /\ \A k \in 1..d : EdgeFrom(t.node[k], path[k])
      /\ \A k \in 1..d : path[k] # Empty
  BY <1>1, <1>2, <1>7, WrittenEdges
<1>9. d # n + 1
  BY <1>6, <1>8
<1>10. path[1] # Empty
  BY <1>2, <1>5, <1>6 DEF Literals
<1>11. ~(Len(path) = d + 1 /\ IsRest(path[d + 1]))
  <2>1. SUFFICES ASSUME Len(path) = d + 1, IsRest(path[d + 1]) PROVE FALSE
    OBVIOUS
  <2>2. d = n
    BY <1>6, <2>1
  <2>3. IsRest(Empty)
    BY <1>6, <2>1, <2>2
  <2> QED BY <2>3, EmptyIsNothing DEF IsRest
<1>12. text # TwoSlashes
  <2>1. SUFFICES ASSUME text = TwoSlashes PROVE FALSE
    OBVIOUS
  <2>2. path[1] = Empty
    BY <1>2, <2>1, TwoEmpty
  <2> QED BY <1>10, <2>2
<1>13. path # Bare
  BY <1>10 DEF Bare
<1>14. ~(Len(path) = d)
  BY <1>6, <1>9
<1>15. t.slot = "leaf_slash" /\ Len(path) = d + 1
  BY <1>1, <1>2, <1>7, <1>11, <1>12, <1>13, <1>14, WrittenSlots
<1>16. d = n
  BY <1>6, <1>15
<1> QED BY <1>2, <1>5, <1>6, <1>7, <1>8, <1>15, <1>16 DEF EdgesFrom

\* The root has no trailing slash of its own.
LEMMA RootTerminal ==
  ASSUME NEW t \in LoweredTerminals, NEW text, WrittenAs(t, text), PathOf(text) = Bare
  PROVE  t.slot = "leaf" /\ Len(t.node) = 0
<1>1. PICK d \in Nat : d = Len(t.node)
  BY WrittenEdges
<1>2. \A k \in 1..d : Bare[k] # Empty
  BY <1>1, WrittenEdges
<1>3. Bare[1] = Empty /\ Len(Bare) = 1
  BY DEF Bare
<1>4. d # 1
  BY <1>2, <1>3
<1>5. ~(Len(Bare) = d + 1 /\ IsRest(Bare[d + 1]))
  <2>1. SUFFICES ASSUME Len(Bare) = d + 1, IsRest(Bare[d + 1]) PROVE FALSE
    OBVIOUS
  <2>2. d + 1 = 1
    BY <1>3, <2>1
  <2>3. IsRest(Empty)
    BY <1>3, <2>1, <2>2
  <2> QED BY <2>3, EmptyIsNothing DEF IsRest
<1>6. text # TwoSlashes
  <2>1. SUFFICES ASSUME text = TwoSlashes PROVE FALSE
    OBVIOUS
  <2> QED BY <1>3, <2>1, TwoEmpty
<1>7. ~(d # 0 /\ Len(Bare) = d + 1)
  BY <1>1, <1>3
<1>8. ~(Len(Bare) = d)
  BY <1>3, <1>4
<1> QED BY <1>1, <1>5, <1>6, <1>7, <1>8, WrittenSlots

-----------------------------------------------------------------------------
\* A path goes on from the segments that these parts stand for.
StandsBelow(path, q) == Len(path) <= Len(q) /\ \A k \in 1..Len(path) : StandsFor(path[k], q[k])

LEMMA FitsBelow ==
  ASSUME NEW t \in LoweredTerminals, NEW path, EdgesFrom(t, path), NEW q \in Seq(Seq(Byte))
  PROVE  Fits(t.node, q) <=> StandsBelow(path, q)
<1>1. t.node \in Seq(Edges)
  BY DEF LoweredTerminals
<1>2. PICK n \in Nat : n = Len(t.node)
  BY <1>1
<1>3. \A k \in 1..n : t.node[k] \in Edges /\ EdgeFrom(t.node[k], path[k])
  BY <1>1, <1>2 DEF EdgesFrom
<1>4. n = Len(path)
  BY <1>2 DEF EdgesFrom
<1>5. PICK m \in Nat : m = Len(q)
  OBVIOUS
<1>6. ASSUME n <= m, NEW k \in 1..n PROVE Takes(t.node[k], q[k]) <=> StandsFor(path[k], q[k])
  <2>1. k \in 1..m
    BY <1>5, <1>6
  <2>2. q[k] \in Seq(Byte)
    BY <1>5, <2>1
  <2> QED BY <1>3, <2>2, EdgeTakes
<1>7. CASE n <= m
  BY <1>2, <1>4, <1>5, <1>6, <1>7 DEF Fits, StandsBelow
<1>8. CASE ~(n <= m)
  BY <1>2, <1>4, <1>5, <1>8 DEF Fits, StandsBelow
<1> QED BY <1>7, <1>8

\* No literal stands for the bare root.
LEMMA BareIsNotBelow ==
  ASSUME NEW path, Literals(path), 1 \in 1..Len(path)
  PROVE  ~StandsBelow(path, Bare)
<1>1. Bare[1] = Empty
  BY DEF Bare
<1> QED BY <1>1, NotEmptyStandsForSome DEF Literals, StandsBelow

\* The rest of a path of m segments, n of them fitted, is for this slot.
SlotTakes(slot, q, n, m) ==
  \/ slot = "leaf" /\ m = n
  \/ slot = "leaf_slash" /\ m = n + 1 /\ q[n + 1] = Empty
  \/ slot = "catchall" /\ n < m /\ ~(m = n + 1 /\ q[n + 1] = Empty)

\* What a terminal with these edges claims, below the root.
LEMMA ClaimsBelow ==
  ASSUME NEW t \in LoweredTerminals, NEW path \in Seq(Seq(Byte)), EdgesFrom(t, path), path # << >>,
         NEW q \in Seq(Seq(Byte)), NEW n \in Nat, n = Len(path), NEW m \in Nat, m = Len(q)
  PROVE  /\ n # 0
         /\ Claims(t, q) => StandsBelow(path, q)
         /\ StandsBelow(path, q) =>
              /\ n <= m
              /\ Claims(t, q) <=> SlotTakes(t.slot, q, n, m)
<1>1. n # 0
  BY EmptySeq
<1>2. Len(t.node) = n
  BY DEF EdgesFrom
<1>3. Literals(path)
  BY EdgesAreLiterals
<1>4. StandsBelow(path, q) => q # Bare
  <2>1. 1 \in 1..Len(path)
    BY <1>1
  <2> QED BY <1>3, <2>1, BareIsNotBelow
<1>5. Fits(t.node, q) <=> StandsBelow(path, q)
  BY FitsBelow
<1>6. CASE q = Bare
  BY <1>1, <1>2, <1>4, <1>6 DEF Claims
<1>7. CASE q # Bare
  <2>1. Claims(t, q) <=> /\ StandsBelow(path, q)
                         /\ \/ t.slot = "leaf" /\ n = m
                            \/ t.slot = "leaf_slash" /\ n + 1 = m /\ q[n + 1] = Empty
                            \/ t.slot = "catchall" /\ n < m /\ ~(n + 1 = m /\ q[n + 1] = Empty)
    BY <1>1, <1>2, <1>5, <1>7 DEF Claims, EndsAt, SlashAt, MoreAt
  <2>2. StandsBelow(path, q) => n <= m
    BY DEF StandsBelow
  <2> QED BY <1>1, <2>1, <2>2 DEF SlotTakes
<1> QED BY <1>6, <1>7

LEMMA ClaimedOnce ==
  ASSUME NEW C, NEW k, C = {k}
  PROVE  Cardinality(C) = 1
BY FS_Singleton

LEMMA ClaimedByNone ==
  ASSUME NEW C, C = {}
  PROVE  Cardinality(C) = 0
BY FS_EmptySet

\* The path of a subtree, given without a trailing slash.
LEMMA OpenSubtree ==
  ASSUME NEW ts, DOMAIN ts = 1..3, \A k \in 1..3 : ts[k] \in LoweredTerminals,
         NEW path \in Seq(Seq(Byte)), path # << >>, \A k \in 1..3 : EdgesFrom(ts[k], path),
         ts[1].slot = "leaf", ts[2].slot = "leaf_slash", ts[3].slot = "catchall",
         NEW q \in Seq(Seq(Byte))
  PROVE  Cardinality({k \in DOMAIN ts : Claims(ts[k], q)}) = IF StandsBelow(path, q) THEN 1 ELSE 0
<1>1. PICK n \in Nat : n = Len(path)
  OBVIOUS
<1>2. PICK m \in Nat : m = Len(q)
  OBVIOUS
<1>3. PICK C : C = {k \in 1..3 : Claims(ts[k], q)}
  OBVIOUS
<1>4. CASE StandsBelow(path, q)
  <2>1. n <= m /\ \A k \in 1..3 : Claims(ts[k], q) <=> SlotTakes(ts[k].slot, q, n, m)
    <3>1. 1 \in 1..3
      OBVIOUS
    <3> QED BY <1>1, <1>2, <1>4, <3>1, ClaimsBelow
  <2>2. \A k \in 1..3 : k = 1 \/ k = 2 \/ k = 3
    OBVIOUS
  <2>3. 1 \in 1..3 /\ 2 \in 1..3 /\ 3 \in 1..3
    OBVIOUS
  <2>4. /\ Claims(ts[1], q) <=> m = n
        /\ Claims(ts[2], q) <=> m = n + 1 /\ q[n + 1] = Empty
        /\ Claims(ts[3], q) <=> n < m /\ ~(m = n + 1 /\ q[n + 1] = Empty)
    <3>1. Claims(ts[1], q) <=> SlotTakes(ts[1].slot, q, n, m)
      BY <2>1, <2>3, Zenon
    <3>2. Claims(ts[2], q) <=> SlotTakes(ts[2].slot, q, n, m)
      BY <2>1, <2>3, Zenon
    <3>3. Claims(ts[3], q) <=> SlotTakes(ts[3].slot, q, n, m)
      BY <2>1, <2>3, Zenon
    <3> QED BY <3>1, <3>2, <3>3 DEF SlotTakes
  <2>5. \E k \in 1..3 : C = {k}
    <3>1. CASE m = n
      <4>1. Claims(ts[1], q) /\ ~Claims(ts[2], q) /\ ~Claims(ts[3], q)
        BY <2>4, <3>1
      <4> QED BY <1>3, <2>2, <2>3, <4>1
    <3>2. CASE m = n + 1 /\ q[n + 1] = Empty
      <4>1. ~Claims(ts[1], q) /\ Claims(ts[2], q) /\ ~Claims(ts[3], q)
        BY <2>4, <3>2
      <4> QED BY <1>3, <2>2, <2>3, <4>1
    <3>3. CASE n < m /\ ~(m = n + 1 /\ q[n + 1] = Empty)
      <4>1. ~Claims(ts[1], q) /\ ~Claims(ts[2], q) /\ Claims(ts[3], q)
        BY <2>4, <3>3
      <4> QED BY <1>3, <2>2, <2>3, <4>1
    <3> QED BY <2>1, <3>1, <3>2, <3>3
  <2> QED BY <1>3, <1>4, <2>5, ClaimedOnce
<1>5. CASE ~StandsBelow(path, q)
  <2>1. \A k \in 1..3 : ~Claims(ts[k], q)
    BY <1>1, <1>2, <1>5, ClaimsBelow
  <2>2. C = {}
    BY <1>3, <2>1
  <2> QED BY <1>3, <1>5, <2>2, ClaimedByNone
<1> QED BY <1>4, <1>5

\* The same, given with one.
LEMMA SlashSubtree ==
  ASSUME NEW ts, DOMAIN ts = 1..2, \A k \in 1..2 : ts[k] \in LoweredTerminals,
         NEW path \in Seq(Seq(Byte)), path # << >>, \A k \in 1..2 : EdgesFrom(ts[k], path),
         ts[1].slot = "leaf_slash", ts[2].slot = "catchall",
         NEW q \in Seq(Seq(Byte))
  PROVE  Cardinality({k \in DOMAIN ts : Claims(ts[k], q)}) =
           IF StandsBelow(path, q) /\ Len(path) < Len(q) THEN 1 ELSE 0
<1>1. PICK n \in Nat : n = Len(path)
  OBVIOUS
<1>2. PICK m \in Nat : m = Len(q)
  OBVIOUS
<1>3. PICK C : C = {k \in 1..2 : Claims(ts[k], q)}
  OBVIOUS
<1>4. 1 \in 1..2 /\ 2 \in 1..2 /\ \A k \in 1..2 : k = 1 \/ k = 2
  OBVIOUS
<1>5. CASE StandsBelow(path, q)
  <2>1. n <= m /\ \A k \in 1..2 : Claims(ts[k], q) <=> SlotTakes(ts[k].slot, q, n, m)
    <3>1. 1 \in 1..2
      OBVIOUS
    <3>2. ASSUME NEW k \in 1..2
          PROVE  n <= m /\ (Claims(ts[k], q) <=> SlotTakes(ts[k].slot, q, n, m))
      <4>1. PICK t : t = ts[k]
        OBVIOUS
      <4>2. t \in LoweredTerminals /\ EdgesFrom(t, path)
        BY <4>1
      <4> QED BY <1>1, <1>2, <1>5, <4>1, <4>2, ClaimsBelow
    <3> QED BY <3>1, <3>2, Zenon
  <2>2. /\ Claims(ts[1], q) <=> m = n + 1 /\ q[n + 1] = Empty
        /\ Claims(ts[2], q) <=> n < m /\ ~(m = n + 1 /\ q[n + 1] = Empty)
    <3>1. Claims(ts[1], q) <=> SlotTakes(ts[1].slot, q, n, m)
      BY <1>4, <2>1, Zenon
    <3>2. Claims(ts[2], q) <=> SlotTakes(ts[2].slot, q, n, m)
      BY <1>4, <2>1, Zenon
    <3> QED BY <3>1, <3>2 DEF SlotTakes
  <2>3. CASE m = n
    <3>1. C = {}
      BY <1>3, <1>4, <2>2, <2>3
    <3> QED BY <1>1, <1>2, <1>3, <2>3, <3>1, ClaimedByNone
  <2>4. CASE m = n + 1 /\ q[n + 1] = Empty
    <3>1. C = {1}
      BY <1>3, <1>4, <2>2, <2>4
    <3>2. n < m
      BY <2>4
    <3> QED BY <1>1, <1>2, <1>3, <1>5, <3>1, <3>2, ClaimedOnce
  <2>5. CASE n < m /\ ~(m = n + 1 /\ q[n + 1] = Empty)
    <3>1. C = {2}
      BY <1>3, <1>4, <2>2, <2>5
    <3> QED BY <1>1, <1>2, <1>3, <1>5, <2>5, <3>1, ClaimedOnce
  <2> QED BY <2>1, <2>3, <2>4, <2>5
<1>6. CASE ~StandsBelow(path, q)
  <2>1. \A k \in 1..2 : ~Claims(ts[k], q)
    BY <1>1, <1>2, <1>6, ClaimsBelow
  <2>2. C = {}
    BY <1>3, <2>1
  <2> QED BY <1>3, <1>6, <2>2, ClaimedByNone
<1> QED BY <1>5, <1>6

\* The root, and everything below it.
LEMMA RootSubtree ==
  ASSUME NEW ts, DOMAIN ts = 1..2, \A k \in 1..2 : Len(ts[k].node) = 0,
         ts[1].slot = "leaf", ts[2].slot = "catchall",
         NEW q \in Seq(Seq(Byte)), q # << >>
  PROVE  Cardinality({k \in DOMAIN ts : Claims(ts[k], q)}) = 1
<1>1. PICK m \in Nat : m = Len(q) /\ m # 0
  BY EmptySeq
<1>2. PICK C : C = {k \in 1..2 : Claims(ts[k], q)}
  OBVIOUS
<1>3. 1 \in 1..2 /\ 2 \in 1..2 /\ \A k \in 1..2 : k = 1 \/ k = 2
  OBVIOUS
<1>4. CASE q = Bare
  <2>1. Claims(ts[1], q) /\ ~Claims(ts[2], q)
    BY <1>3, <1>4 DEF Claims
  <2>2. C = {1}
    BY <1>2, <1>3, <2>1
  <2> QED BY <1>2, <2>2, ClaimedOnce
<1>5. CASE q # Bare
  <2>1. ~(m = 1 /\ q[1] = Empty)
    <3>1. SUFFICES ASSUME m = 1, q[1] = Empty PROVE FALSE
      OBVIOUS
    <3>2. PICK b : b = Bare
      OBVIOUS
    <3>3. b \in Seq(Seq(Byte)) /\ Len(b) = 1 /\ b[1] = Empty
      BY <3>2, EmptyIsNothing DEF Bare
    <3>4. \A k \in 1..m : q[k] = b[k]
      <4>1. \A k \in 1..m : k = 1
        BY <3>1
      <4> QED BY <3>1, <3>3, <4>1
    <3>5. q = b
      <4>1. b \in Seq(Seq(Byte)) /\ m = Len(b)
        BY <3>1, <3>3
      <4> QED BY <1>1, <3>4, <4>1, SeqEqual
    <3> QED BY <1>5, <3>2, <3>5
  <2>2. ~Claims(ts[1], q)
    BY <1>1, <1>3, <1>5 DEF Claims, EndsAt
  <2>3. Claims(ts[2], q)
    <3>1. Fits(ts[2].node, q)
      BY <1>1, <1>3 DEF Fits
    <3>2. MoreAt(0, q)
      BY <1>1, <2>1 DEF MoreAt, SlashAt
    <3> QED BY <1>3, <1>5, <3>1, <3>2 DEF Claims
  <2>4. C = {2}
    BY <1>2, <1>3, <2>2, <2>3
  <2> QED BY <1>2, <2>4, ClaimedOnce
<1> QED BY <1>4, <1>5

\* The segments a subtree's path covers, the last one empty when it ends in a slash.
LEMMA InsideOpen ==
  ASSUME NEW path \in Seq(Seq(Byte)), Literals(path), NEW q \in Seq(Seq(Byte))
  PROVE  (/\ Len(q) >= Len(path)
          /\ \A k \in DOMAIN path : path[k] # Empty => StandsFor(path[k], q[k])) <=> StandsBelow(path, q)
<1>1. DOMAIN path = 1..Len(path) /\ Len(path) \in Nat /\ Len(q) \in Nat
  OBVIOUS
<1>2. \A k \in 1..Len(path) : path[k] # Empty
  BY DEF Literals
<1> QED BY <1>1, <1>2 DEF StandsBelow

LEMMA InsideSlash ==
  ASSUME NEW path \in Seq(Seq(Byte)), Literals(path), NEW q \in Seq(Seq(Byte)),
         NEW longer, longer = Append(path, Empty)
  PROVE  (/\ Len(q) >= Len(longer)
          /\ \A k \in DOMAIN longer : longer[k] # Empty => StandsFor(longer[k], q[k]))
         <=> (StandsBelow(path, q) /\ Len(path) < Len(q))
<1>1. PICK n, m : n = Len(path) /\ m = Len(q)
  OBVIOUS
<1>2. n \in Nat /\ m \in Nat
  BY <1>1
<1>3. /\ Len(longer) = n + 1 /\ longer[n + 1] = Empty
      /\ \A k \in 1..n : longer[k] = path[k]
  BY <1>1, Appended, EmptyIsNothing
<1>4. DOMAIN longer = 1..(n + 1)
  <2>1. longer \in Seq(Seq(Byte))
    BY EmptyIsNothing
  <2> QED BY <1>3, <2>1
<1>5. \A k \in 1..n : path[k] # Empty
  BY <1>1 DEF Literals
<1>6. (\A k \in DOMAIN longer : longer[k] # Empty => StandsFor(longer[k], q[k]))
      <=> \A k \in 1..n : StandsFor(path[k], q[k])
  <2>1. \A k \in 1..(n + 1) : k \in 1..n \/ k = n + 1
    BY <1>2
  <2>2. \A k \in 1..n : k \in 1..(n + 1)
    BY <1>2
  <2> QED BY <1>3, <1>4, <1>5, <2>1, <2>2
<1>7. m >= n + 1 <=> (n <= m /\ n < m)
  BY <1>2
<1> QED BY <1>1, <1>3, <1>6, <1>7 DEF StandsBelow

\* A text, its last slash taken off.
LEMMA SlashAtEnd ==
  ASSUME NEW text \in Seq(Byte), text # << >>, Last(text) = Slash
  PROVE  \E base \in Seq(Byte) : text = Append(base, Slash)
<1>1. PICK base \in Seq(Byte), x \in Byte : text = Append(base, x)
  BY SequenceEmptyOrAppend
<1>2. Last(text) = x
  <2>1. Len(text) = Len(base) + 1 /\ text[Len(base) + 1] = x
    BY <1>1
  <2> QED BY <2>1 DEF Last
<1> QED BY <1>1, <1>2

\* A path given without a trailing slash.
LEMMA OpenCovers ==
  ASSUME NEW text \in Seq(Byte), Rooted(text), ~(text # << >> /\ Last(text) = Slash),
         NEW ts \in Seq(LoweredTerminals), Len(ts) = Len(SubtreePatterns(text)),
         \A k \in 1..Len(ts) : WrittenAs(ts[k], SubtreePatterns(text)[k]),
         NEW q \in Seq(Seq(Byte))
  PROVE  Cardinality({k \in DOMAIN ts : Claims(ts[k], q)}) =
           IF /\ Len(q) >= Len(PathOf(text))
              /\ \A k \in DOMAIN PathOf(text) :
                   PathOf(text)[k] # Empty => StandsFor(PathOf(text)[k], q[k])
           THEN 1 ELSE 0
<1>1. PICK path : path = PathOf(text)
  OBVIOUS
<1>2. path \in Seq(Seq(Byte)) /\ path # << >>
  BY <1>1, PathOfTyped, RootedSegments
<1>3. PICK a, c : a = Append(text, Slash) /\ c = Append(text, Slash) \o RestGroup
  OBVIOUS
<1>4. SubtreePatterns(text) = <<text, a, c>>
  <2>1. text \o <<Slash>> = Append(text, Slash)
    <3>1. Slash \in Byte
      BY DEF Slash, Byte
    <3> QED BY <3>1, AppendIsConcat
  <2> QED BY <1>3, <2>1 DEF SubtreePatterns
<1>5. DOMAIN ts = 1..3 /\ \A k \in 1..3 : ts[k] \in LoweredTerminals
  <2>1. Len(ts) = 3
    BY <1>4
  <2>2. PICK n \in Nat : n = Len(ts)
    OBVIOUS
  <2>3. DOMAIN ts = 1..n /\ \A k \in 1..n : ts[k] \in LoweredTerminals
    BY <2>2
  <2> QED BY <2>1, <2>2, <2>3
<1>6. WrittenAs(ts[1], text) /\ WrittenAs(ts[2], a) /\ WrittenAs(ts[3], c)
  <2>1. Len(ts) = 3
    BY <1>4
  <2>2. 1 \in 1..3 /\ 2 \in 1..3 /\ 3 \in 1..3
    OBVIOUS
  <2>3. <<text, a, c>>[1] = text /\ <<text, a, c>>[2] = a /\ <<text, a, c>>[3] = c
    OBVIOUS
  <2> QED BY <1>4, <2>1, <2>2, <2>3, Zenon
<1>7. 1 \in 1..3 /\ 2 \in 1..3 /\ 3 \in 1..3 /\ \A k \in 1..3 : k = 1 \/ k = 2 \/ k = 3
  OBVIOUS
<1>8. ts[1] \in LoweredTerminals /\ ts[2] \in LoweredTerminals /\ ts[3] \in LoweredTerminals
  BY <1>5, <1>7, Zenon
<1>9. ts[3].slot = "catchall" /\ EdgesFrom(ts[3], path)
  BY <1>1, <1>3, <1>6, <1>8, RestTerminal
<1>10. Literals(path)
  BY <1>8, <1>9, EdgesAreLiterals
<1>11. ts[1].slot = "leaf" /\ EdgesFrom(ts[1], path)
  BY <1>1, <1>2, <1>6, <1>8, <1>10, LeafTerminal
<1>12. ts[2].slot = "leaf_slash" /\ EdgesFrom(ts[2], path)
  BY <1>1, <1>2, <1>3, <1>6, <1>8, <1>10, SlashTerminal
<1>13. \A k \in 1..3 : EdgesFrom(ts[k], path)
  BY <1>7, <1>9, <1>11, <1>12, Zenon
<1>14. Cardinality({k \in DOMAIN ts : Claims(ts[k], q)}) = IF StandsBelow(path, q) THEN 1 ELSE 0
  BY <1>2, <1>5, <1>9, <1>11, <1>12, <1>13, OpenSubtree
<1>15. (/\ Len(q) >= Len(path)
        /\ \A k \in DOMAIN path : path[k] # Empty => StandsFor(path[k], q[k])) <=> StandsBelow(path, q)
  BY <1>2, <1>10, InsideOpen
<1> QED BY <1>1, <1>14, <1>15, Zenon

\* A path given with one; the root among them.
LEMMA SlashCovers ==
  ASSUME NEW text \in Seq(Byte), Rooted(text), text # << >>, Last(text) = Slash,
         NEW ts \in Seq(LoweredTerminals), Len(ts) = Len(SubtreePatterns(text)),
         \A k \in 1..Len(ts) : WrittenAs(ts[k], SubtreePatterns(text)[k]),
         NEW q \in Seq(Seq(Byte)), q # << >>
  PROVE  Cardinality({k \in DOMAIN ts : Claims(ts[k], q)}) =
           IF /\ Len(q) >= Len(PathOf(text))
              /\ \A k \in DOMAIN PathOf(text) :
                   PathOf(text)[k] # Empty => StandsFor(PathOf(text)[k], q[k])
           THEN 1 ELSE 0
<1>1. PICK base \in Seq(Byte) : text = Append(base, Slash)
  BY SlashAtEnd
<1>2. PICK path : path = PathOf(base)
  OBVIOUS
<1>3. path \in Seq(Seq(Byte))
  BY <1>2, PathOfTyped
<1>4. PICK longer : longer = PathOf(text)
  OBVIOUS
<1>5. longer = Append(path, Empty)
  BY <1>1, <1>2, <1>4, SlashSegment
<1>6. PICK c : c = text \o RestGroup
  OBVIOUS
<1>7. SubtreePatterns(text) = <<text, c>>
  BY <1>6 DEF SubtreePatterns
<1>8. DOMAIN ts = 1..2 /\ \A k \in 1..2 : ts[k] \in LoweredTerminals
  <2>1. Len(ts) = 2
    BY <1>7
  <2>2. PICK n \in Nat : n = Len(ts)
    OBVIOUS
  <2>3. DOMAIN ts = 1..n /\ \A k \in 1..n : ts[k] \in LoweredTerminals
    BY <2>2
  <2> QED BY <2>1, <2>2, <2>3
<1>9. WrittenAs(ts[1], text) /\ WrittenAs(ts[2], c)
  <2>1. Len(ts) = 2
    BY <1>7
  <2>2. 1 \in 1..2 /\ 2 \in 1..2
    OBVIOUS
  <2>3. <<text, c>>[1] = text /\ <<text, c>>[2] = c
    OBVIOUS
  <2> QED BY <1>7, <2>1, <2>2, <2>3, Zenon
<1>10. 1 \in 1..2 /\ 2 \in 1..2 /\ \A k \in 1..2 : k = 1 \/ k = 2
  OBVIOUS
<1>11. ts[1] \in LoweredTerminals /\ ts[2] \in LoweredTerminals
  BY <1>8, <1>10, Zenon
<1>12. ts[2].slot = "catchall" /\ EdgesFrom(ts[2], path)
  BY <1>1, <1>2, <1>6, <1>9, <1>11, RestTerminal
<1>13. Literals(path)
  BY <1>11, <1>12, EdgesAreLiterals
<1>14. (/\ Len(q) >= Len(longer)
        /\ \A k \in DOMAIN longer : longer[k] # Empty => StandsFor(longer[k], q[k]))
       <=> (StandsBelow(path, q) /\ Len(path) < Len(q))
  BY <1>3, <1>5, <1>13, InsideSlash
<1>15. CASE path = << >>
  <2>1. PathOf(text) = Bare
    <3>1. Append(<< >>, Empty) = <<Empty>>
      OBVIOUS
    <3> QED BY <1>4, <1>5, <1>15, <3>1 DEF Bare
  <2>2. ts[1].slot = "leaf" /\ Len(ts[1].node) = 0
    BY <1>9, <1>11, <2>1, RootTerminal
  <2>3. Len(ts[2].node) = 0
    BY <1>12, <1>15, EmptySeq DEF EdgesFrom
  <2>4. \A k \in 1..2 : Len(ts[k].node) = 0
    BY <1>10, <2>2, <2>3, Zenon
  <2>5. Cardinality({k \in DOMAIN ts : Claims(ts[k], q)}) = 1
    BY <1>8, <1>12, <2>2, <2>4, RootSubtree
  <2>6. StandsBelow(path, q) /\ Len(path) < Len(q)
    <3>1. Len(path) = 0 /\ Len(q) \in Nat /\ Len(q) # 0
      BY <1>15, EmptySeq
    <3> QED BY <3>1 DEF StandsBelow
  <2> QED BY <1>4, <1>14, <2>5, <2>6, Zenon
<1>16. CASE path # << >>
  <2>1. ts[1].slot = "leaf_slash" /\ EdgesFrom(ts[1], path)
    BY <1>1, <1>2, <1>9, <1>11, <1>13, <1>16, SlashTerminal
  <2>2. \A k \in 1..2 : EdgesFrom(ts[k], path)
    BY <1>10, <1>12, <2>1, Zenon
  <2>3. Cardinality({k \in DOMAIN ts : Claims(ts[k], q)}) =
          IF StandsBelow(path, q) /\ Len(path) < Len(q) THEN 1 ELSE 0
    BY <1>3, <1>8, <1>12, <1>16, <2>1, <2>2, SlashSubtree
  <2> QED BY <1>4, <1>14, <2>3, Zenon
<1> QED BY <1>15, <1>16

\* Whatever subtree is accepted, its terminals claim its path, the path with a slash and
\* what is below, each once and nothing else (subtree_patterns).
THEOREM SubtreeAlwaysCovers == Spec => []SubtreeCovers
<1>1. IInv => SubtreeCovers
  <2>1. SUFFICES ASSUME IInv, stage = "accepted", asked.kind = "subtree",
                        NEW q \in {PathOf(r) : r \in Requests}
                 PROVE  LET path   == PathOf(asked.text)
                            inside == /\ Len(q) >= Len(path)
                                      /\ \A k \in DOMAIN path : path[k] # Empty => StandsFor(path[k], q[k])
                        IN  Cardinality({k \in DOMAIN accepted : Claims(accepted[k], q)}) = IF inside THEN 1 ELSE 0
    BY DEF SubtreeCovers
  <2>2. PICK text : text = asked.text
    OBVIOUS
  <2>3. Patterns = SubtreePatterns(text) /\ text \in Seq(Byte)
    BY <2>1, <2>2 DEF Patterns, IInv
  <2>4. PICK ts : ts = accepted
    OBVIOUS
  <2>5. /\ ts \in Seq(LoweredTerminals) /\ Len(ts) = Len(SubtreePatterns(text))
        /\ \A k \in 1..Len(ts) : Rooted(SubtreePatterns(text)[k]) /\ WrittenAs(ts[k], SubtreePatterns(text)[k])
    BY <2>1, <2>3, <2>4 DEF IInv, AcceptedSoFar
  <2>6. q \in Seq(Seq(Byte)) /\ q # << >>
    <3>1. PICK r \in Requests : q = PathOf(r)
      OBVIOUS
    <3> QED BY <3>1, RequestsAssumption, PathOfTyped, RootedSegments
  <2>7. Rooted(text)
    <3>1. Len(SubtreePatterns(text)) > 0 /\ SubtreePatterns(text)[1] = text
      <4>1. PICK x, y, z : x = text \o RestGroup /\ y = text \o <<Slash>> /\ z = text \o <<Slash>> \o RestGroup
        OBVIOUS
      <4>2. SubtreePatterns(text) = IF text # << >> /\ Last(text) = Slash THEN <<text, x>> ELSE <<text, y, z>>
        BY <4>1 DEF SubtreePatterns
      <4> QED BY <4>2
    <3>2. 1 \in 1..Len(ts)
      BY <2>5, <3>1
    <3> QED BY <2>5, <3>1, <3>2
  <2>8. CASE text # << >> /\ Last(text) = Slash
    BY <2>2, <2>3, <2>4, <2>5, <2>6, <2>7, <2>8, SlashCovers
  <2>9. CASE ~(text # << >> /\ Last(text) = Slash)
    BY <2>2, <2>3, <2>4, <2>5, <2>6, <2>7, <2>9, OpenCovers
  <2> QED BY <2>8, <2>9
<1> QED BY <1>1, LoweringInvariant, PTL

=============================================================================
