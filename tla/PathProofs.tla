---------------------------- MODULE PathProofs ----------------------------
(***************************************************************************)
(* The definitions the verdict rests on, without the walks that compute    *)
(* them: numbers in order, decoded views and their provenance, the         *)
(* precedence of terminals (a path claims exactly one best match), what    *)
(* lies beyond an anchor (whatever path extends it, the rule it resolves   *)
(* to is one of the anchor's), and when a request is permitted: under a    *)
(* stricter configuration less is, and a plain path always is.             *)
(***************************************************************************)
EXTENDS Permission, FiniteSetTheorems, SequenceTheorems, TLAPS

-----------------------------------------------------------------------------
(***************************************************************************)
(* Natural numbers.                                                        *)
(***************************************************************************)
\* A set of natural numbers has a least element, as the intervals up to its elements
\* have a smallest one.
LEMMA LeastNatural ==
  ASSUME NEW S \in SUBSET Nat, S # {}
  PROVE  \E m \in S : \A k \in S : m <= k
<1> DEFINE T == {1..k : k \in S}
<1>1. T \subseteq FiniteSubsetsOf(Nat) /\ T # {}
  <2>1. \A k \in S : 1..k \in SUBSET Nat /\ IsFiniteSet(1..k)
    BY FS_Interval
  <2> QED BY <2>1 DEF FiniteSubsetsOf
<1>2. PICK x \in T : \A y \in T : <<y, x>> \notin StrictSubsetOrdering(Nat)
  <2> HIDE DEF T
  <2> QED BY <1>1, WFMin, FS_StrictSubsetOrderingWellFounded
<1>3. PICK m \in S : x = 1..m
  OBVIOUS
<1>4. ASSUME NEW k \in S, ~(m <= k) PROVE FALSE
  <2>1. 1..k \subseteq 1..m /\ 1..k \in SUBSET Nat /\ 1..m \in SUBSET Nat
    BY <1>4
  <2>2. m \in 1..m /\ m \notin 1..k
    BY <1>4
  <2>3. <<1..k, x>> \in StrictSubsetOrdering(Nat)
    BY <1>3, <2>1, <2>2 DEF StrictSubsetOrdering
  <2> QED BY <1>2, <2>3
<1> QED BY <1>4

\* Among the numbers up to a bound, the greatest.
LEMMA GreatestNatural ==
  ASSUME NEW n \in Nat, NEW S \in SUBSET (1..n), S # {}
  PROVE  \E m \in S : \A k \in S : k <= m
<1> DEFINE T == {k \in Nat : n - k \in S}
<1>1. T \in SUBSET Nat /\ T # {}
  <2>1. PICK k \in S : TRUE
    OBVIOUS
  <2>2. n - k \in Nat /\ n - (n - k) = k
    BY <2>1
  <2>3. n - k \in T
    BY <2>1, <2>2
  <2> QED BY <2>3
<1>2. PICK t \in T : \A k \in T : t <= k
  <2> HIDE DEF T
  <2> QED BY <1>1, LeastNatural
<1>3. ASSUME NEW k \in S PROVE k <= n - t
  <2>1. n - k \in Nat /\ n - (n - k) = k
    OBVIOUS
  <2>2. n - k \in T
    BY <2>1
  <2> QED BY <1>2, <2>1, <2>2
<1> QED BY <1>2, <1>3

\* Induction, for a set of natural numbers.
LEMMA EveryNatural ==
  ASSUME NEW S \in SUBSET Nat, 0 \in S, \A n \in S : n + 1 \in S
  PROVE  S = Nat
<1> DEFINE missing == Nat \ S
<1> SUFFICES ASSUME missing # {} PROVE FALSE
  OBVIOUS
<1>1. PICK m \in missing : \A k \in missing : m <= k
  BY LeastNatural
<1>2. m # 0 /\ m - 1 \in Nat /\ m - 1 \notin missing
  BY <1>1
<1>3. (m - 1) + 1 \in S
  BY <1>2
<1> QED BY <1>1, <1>2, <1>3

\* The image of a finite set is finite.
LEMMA ImageFinite ==
  ASSUME NEW f, IsFiniteSet(DOMAIN f), NEW T, T \subseteq {f[x] : x \in DOMAIN f}
  PROVE  IsFiniteSet(T)
<1> DEFINE image == {f[x] : x \in DOMAIN f}
           g == [x \in DOMAIN f |-> f[x]]
<1>1. g \in Surjection(DOMAIN f, image)
  BY DEF Surjection
<1> HIDE DEF g, image
<1>2. IsFiniteSet(image)
  BY <1>1, FS_Surjection
<1> QED BY <1>2, FS_Subset DEF image

-----------------------------------------------------------------------------
(***************************************************************************)
(* Sequences: flattened, and gathered without repetition.                  *)
(***************************************************************************)
\* How flattening a sequence of sequences goes, up to n.
IsFlattening(seqs, n, g) == g = [i \in 1..n |-> IF i = 1 THEN seqs[i] ELSE g[i - 1] \o seqs[i]]

\* Sequences over a set flatten to one over it.
LEMMA FlattenTyped ==
  ASSUME NEW T, NEW seqs \in Seq(Seq(T))
  PROVE  FlattenSeq(seqs) \in Seq(T)
<1>1. PICK n \in Nat : n = Len(seqs) /\ DOMAIN seqs = 1..n
  OBVIOUS
<1>2. CASE n = 0
  <2>1. FlattenSeq(seqs) = seqs
    BY <1>1, <1>2 DEF FlattenSeq
  <2>2. seqs = << >>
    BY <1>1, <1>2, EmptySeq
  <2> QED BY <2>1, <2>2, EmptySeq
<1>3. CASE n # 0
  <2> DEFINE f == CHOOSE g : IsFlattening(seqs, n, g)
             G == {k \in Nat : k <= n => \E g : IsFlattening(seqs, k, g)}
  <2>1. FlattenSeq(seqs) = f[n]
    BY <1>1, <1>3, Zenon DEF FlattenSeq, IsFlattening
  <2>2. 0 \in G
    <3>1. IsFlattening(seqs, 0, [i \in 1..0 |-> << >>])
      BY DEF IsFlattening
    <3> QED BY <3>1
  <2>3. ASSUME NEW k \in G PROVE k + 1 \in G
    <3>1. SUFFICES ASSUME k + 1 <= n PROVE \E g : IsFlattening(seqs, k + 1, g)
      BY <2>3
    <3>2. PICK g : k \in Nat /\ IsFlattening(seqs, k, g)
      BY <2>3, <3>1
    <3> DEFINE h == [i \in 1..(k + 1) |-> IF i = k + 1 THEN (IF i = 1 THEN seqs[i] ELSE g[i - 1] \o seqs[i]) ELSE g[i]]
    <3>3. \A i \in 1..k : g[i] = IF i = 1 THEN seqs[i] ELSE g[i - 1] \o seqs[i]
      BY <3>2 DEF IsFlattening
    <3>4. \A i \in 1..(k + 1) : h[i] = IF i = 1 THEN seqs[i] ELSE h[i - 1] \o seqs[i]
      BY <3>2, <3>3
    <3>5. h = [i \in 1..(k + 1) |-> h[i]]
      OBVIOUS
    <3> HIDE DEF h
    <3>6. IsFlattening(seqs, k + 1, h)
      BY <3>4, <3>5 DEF IsFlattening
    <3> QED BY <3>6
  <2>4. G = Nat
    <3>1. G \in SUBSET Nat
      OBVIOUS
    <3> HIDE DEF G
    <3> QED BY <2>2, <2>3, <3>1, EveryNatural
  <2>5. IsFlattening(seqs, n, f)
    <3>1. n \in G
      <4> HIDE DEF G
      <4> QED BY <2>4
    <3>2. \E g : IsFlattening(seqs, n, g)
      BY <3>1
    <3> QED BY <3>2
  <2> HIDE DEF f, G
  <2>6. \A i \in 1..n : f[i] = IF i = 1 THEN seqs[i] ELSE f[i - 1] \o seqs[i]
    BY <2>5 DEF IsFlattening
  <2> DEFINE H == {k \in Nat : k \in 1..n => f[k] \in Seq(T)}
  <2>7. 0 \in H
    OBVIOUS
  <2>8. ASSUME NEW k \in H PROVE k + 1 \in H
    <3>1. SUFFICES ASSUME k + 1 \in 1..n PROVE f[k + 1] \in Seq(T)
      BY <2>8
    <3>2. seqs[k + 1] \in Seq(T)
      BY <1>1, <3>1
    <3>3. CASE k = 0
      BY <2>6, <3>1, <3>2, <3>3
    <3>4. CASE k # 0
      <4>1. k \in 1..n /\ (k + 1) - 1 = k
        BY <2>8, <3>1, <3>4
      <4>2. f[k] \in Seq(T)
        BY <2>8, <4>1
      <4>3. f[k + 1] = f[k] \o seqs[k + 1]
        <5>1. PICK j \in 1..n : j = k + 1
          BY <3>1
        <5>2. j # 1 /\ j - 1 = k
          BY <3>4, <4>1, <5>1
        <5>3. f[j] = f[j - 1] \o seqs[j]
          BY <2>6, <5>2
        <5> QED BY <5>1, <5>2, <5>3
      <4> QED BY <3>2, <4>2, <4>3
    <3> QED BY <3>3, <3>4
  <2>9. H = Nat
    <3>1. H \in SUBSET Nat
      OBVIOUS
    <3> HIDE DEF H
    <3> QED BY <2>7, <2>8, <3>1, EveryNatural
  <2>10. n \in H
    <3> HIDE DEF H
    <3> QED BY <2>9
  <2> QED BY <1>1, <1>3, <2>1, <2>10
<1> QED BY <1>2, <1>3

\* The folds of a flattening.
FlattensTo(seqs, F) ==
  /\ F[1] = seqs[1]
  /\ \A k \in 1..Len(seqs) : k # 1 => F[k] = F[k - 1] \o seqs[k]

\* A sequence of sequences is flattened to what its folds end in.
LEMMA FlattenIs ==
  ASSUME NEW seqs, Len(seqs) \in Nat \ {0}, NEW F, F = [k \in 1..Len(seqs) |-> F[k]], FlattensTo(seqs, F)
  PROVE  FlattenSeq(seqs) = F[Len(seqs)]
<1>1. PICK n \in Nat : n = Len(seqs) /\ n # 0
  OBVIOUS
<1> DEFINE f == CHOOSE g : g = [i \in 1..n |-> IF i = 1 THEN seqs[i] ELSE g[i - 1] \o seqs[i]]
<1>2. FlattenSeq(seqs) = f[n]
  BY <1>1, Zenon DEF FlattenSeq
<1>3. F = [i \in 1..n |-> IF i = 1 THEN seqs[i] ELSE F[i - 1] \o seqs[i]]
  <2>1. \A i \in 1..n : F[i] = IF i = 1 THEN seqs[i] ELSE F[i - 1] \o seqs[i]
    BY <1>1 DEF FlattensTo
  <2>2. F = [i \in 1..n |-> F[i]]
    BY <1>1
  <2> QED BY <2>1, <2>2
<1>4. f = [i \in 1..n |-> IF i = 1 THEN seqs[i] ELSE f[i - 1] \o seqs[i]]
  BY <1>3
<1> HIDE DEF f
<1>5. \A i \in 1..n : f[i] = IF i = 1 THEN seqs[i] ELSE f[i - 1] \o seqs[i]
  BY <1>4
<1>6. \A i \in 1..n : f[i] = F[i]
  <2> DEFINE P == {i \in 1..n : f[i] # F[i]}
  <2>1. SUFFICES ASSUME P # {} PROVE FALSE
    OBVIOUS
  <2>2. P \in SUBSET Nat
    OBVIOUS
  <2>3. PICK i \in P : \A j \in P : i <= j
    BY <2>1, <2>2, LeastNatural
  <2>4. i \in 1..n /\ f[i] # F[i]
    OBVIOUS
  <2>5. i # 1
    BY <1>1, <1>5, <2>4 DEF FlattensTo
  <2>6. i - 1 \in 1..n /\ ~(i <= i - 1)
    BY <2>4, <2>5
  <2>7. f[i - 1] = F[i - 1]
    BY <2>3, <2>6
  <2>8. f[i] = f[i - 1] \o seqs[i] /\ F[i] = F[i - 1] \o seqs[i]
    BY <1>1, <1>5, <2>4, <2>5 DEF FlattensTo
  <2> QED BY <2>4, <2>7, <2>8
<1> QED BY <1>1, <1>2, <1>6

\* Adding the elements of a sequence, one by one, that are not yet in another.
AddNew(seq, m, skip) == IF m = skip \/ m \in ToSet(seq) THEN seq ELSE Append(seq, m)

IsFolding(base, seq, skip, n, g) ==
  g = [s \in SUBSET (1..n) |-> IF s = {} THEN base ELSE AddNew(g[s \ {Max(s)}], seq[Max(s)], skip)]

Folded(base, seq, skip) ==
  MapThenFoldSet(LAMBDA x, y : AddNew(y, x, skip), base, LAMBDA i : seq[i], LAMBDA S : Max(S), DOMAIN seq)

LEMMA GreatestIn ==
  ASSUME NEW n \in Nat, NEW s \in SUBSET (1..n), s # {}
  PROVE  Max(s) \in s /\ \A y \in s : Max(s) >= y
<1>1. \E x \in s : \A y \in s : x >= y
  <2> DEFINE above == {k \in Nat : \A y \in s : k >= y}
  <2>1. n \in above /\ above \in SUBSET Nat
    OBVIOUS
  <2>2. PICK m \in above : \A k \in above : m <= k
    BY <2>1, LeastNatural
  <2>3. m \in s
    <3> SUFFICES ASSUME m \notin s PROVE FALSE
      OBVIOUS
    <3>1. PICK x \in s : x \in 1..n
      OBVIOUS
    <3>2. m \in Nat /\ \A y \in s : m >= y /\ y # m /\ y \in Nat
      BY <2>2
    <3>3. m # 0
      BY <3>1, <3>2
    <3>4. m - 1 \in above
      BY <3>2, <3>3
    <3>5. ~(m <= m - 1)
      BY <3>2
    <3> QED BY <2>2, <3>4, <3>5
  <2> QED BY <2>3
<1> QED BY <1>1 DEF Max

LEMMA FoldTyped ==
  ASSUME NEW T, NEW base \in Seq(T), NEW seq \in Seq(T), NEW skip
  PROVE  Folded(base, seq, skip) \in Seq(T)
<1>1. PICK n \in Nat : n = Len(seq) /\ DOMAIN seq = 1..n
  OBVIOUS
<1> DEFINE f == CHOOSE g : IsFolding(base, seq, skip, n, g)
           G == {k \in Nat : \E g : IsFolding(base, seq, skip, k, g)}
<1>2. Folded(base, seq, skip) = f[1..n]
  BY <1>1, Zenon DEF Folded, MapThenFoldSet, IsFolding
<1>3. 0 \in G
  <2>1. IsFolding(base, seq, skip, 0, [s \in SUBSET (1..0) |-> base])
    BY DEF IsFolding
  <2> QED BY <2>1
<1>4. ASSUME NEW k \in G PROVE k + 1 \in G
  <2>1. PICK g : k \in Nat /\ IsFolding(base, seq, skip, k, g)
    BY <1>4
  <2> DEFINE next(g0, s) == IF s = {} THEN base ELSE AddNew(g0[s \ {Max(s)}], seq[Max(s)], skip)
             h == [s \in SUBSET (1..(k + 1)) |-> IF s \in SUBSET (1..k) THEN g[s] ELSE next(g, s)]
  <2>2. \A s \in SUBSET (1..k) : g[s] = next(g, s)
    BY <2>1 DEF IsFolding
  <2>3. ASSUME NEW s \in SUBSET (1..(k + 1)) PROVE h[s] = next(h, s)
    <3>1. h[s] = next(g, s)
      BY <2>2
    <3>2. CASE s = {}
      BY <3>1, <3>2
    <3>3. CASE s # {}
      <4>0. k + 1 \in Nat
        BY <2>1
      <4>1. Max(s) \in s /\ \A y \in s : Max(s) >= y
        BY <3>3, <4>0, GreatestIn
      <4>2. s \ {Max(s)} \in SUBSET (1..k)
        <5>1. PICK x : x = Max(s)
          OBVIOUS
        <5>2. x \in 1..(k + 1) /\ \A y \in s : x >= y /\ y \in 1..(k + 1)
          BY <4>1, <5>1
        <5>3. \A y \in s : y # x => y \in 1..k
          BY <2>1, <5>2
        <5> QED BY <5>1, <5>3
      <4>3. s \ {Max(s)} \in SUBSET (1..(k + 1))
        OBVIOUS
      <4>4. h[s \ {Max(s)}] = g[s \ {Max(s)}]
        BY <4>2, <4>3
      <4> HIDE DEF h
      <4> QED BY <3>1, <3>3, <4>4
    <3> QED BY <3>2, <3>3
  <2>4. h = [s \in SUBSET (1..(k + 1)) |-> h[s]]
    OBVIOUS
  <2> HIDE DEF h
  <2>5. IsFolding(base, seq, skip, k + 1, h)
    BY <2>3, <2>4 DEF IsFolding
  <2> QED BY <2>1, <2>5
<1>5. G = Nat
  <2>1. G \in SUBSET Nat
    OBVIOUS
  <2> HIDE DEF G
  <2> QED BY <1>3, <1>4, <2>1, EveryNatural
<1>6. IsFolding(base, seq, skip, n, f)
  BY <1>5
<1> HIDE DEF f, G
<1>7. \A s \in SUBSET (1..n) : f[s] = IF s = {} THEN base ELSE AddNew(f[s \ {Max(s)}], seq[Max(s)], skip)
  BY <1>6 DEF IsFolding
<1> DEFINE H == {k \in Nat : k \in 0..n => \A s \in SUBSET (1..k) : f[s] \in Seq(T)}
<1>8. 0 \in H
  <2>1. \A s \in SUBSET (1..0) : s = {} /\ s \in SUBSET (1..n)
    OBVIOUS
  <2> QED BY <1>7, <2>1
<1>9. ASSUME NEW k \in H PROVE k + 1 \in H
  <2>1. SUFFICES ASSUME k + 1 \in 0..n, NEW s \in SUBSET (1..(k + 1)) PROVE f[s] \in Seq(T)
    BY <1>9
  <2>2. k \in Nat /\ s \in SUBSET (1..n) /\ \A x \in SUBSET (1..k) : f[x] \in Seq(T)
    BY <1>9, <2>1
  <2>3. CASE s = {}
    BY <1>7, <2>2, <2>3
  <2>4. CASE s # {}
    <3>1. Max(s) \in s /\ \A y \in s : Max(s) >= y
      BY <2>2, <2>4, GreatestIn
    <3>2. s \ {Max(s)} \in SUBSET (1..k)
      <4>1. PICK x : x = Max(s)
        OBVIOUS
      <4>2. x \in 1..(k + 1) /\ \A y \in s : x >= y /\ y \in 1..(k + 1)
        BY <3>1, <4>1
      <4>3. \A y \in s : y # x => y \in 1..k
        BY <2>2, <4>2
      <4> QED BY <4>1, <4>3
    <3>3. f[s \ {Max(s)}] \in Seq(T)
      BY <2>2, <3>2
    <3>4. seq[Max(s)] \in T
      <4>1. Max(s) \in 1..n
        BY <2>2, <3>1
      <4> QED BY <1>1, <4>1
    <3>5. f[s] = AddNew(f[s \ {Max(s)}], seq[Max(s)], skip)
      BY <1>7, <2>2, <2>4
    <3> QED BY <3>3, <3>4, <3>5 DEF AddNew
  <2> QED BY <2>3, <2>4
<1>10. H = Nat
  <2>1. H \in SUBSET Nat
    OBVIOUS
  <2> HIDE DEF H
  <2> QED BY <1>8, <1>9, <2>1, EveryNatural
<1>11. n \in H /\ n \in 0..n
  <2> HIDE DEF H
  <2> QED BY <1>10
<1> QED BY <1>2, <1>11

-----------------------------------------------------------------------------
(***************************************************************************)
(* The numbers of a set, in order.                                         *)
(***************************************************************************)
Step(S, f, i) == IF i = 0 THEN << >> ELSE IF i \in S THEN Append(f[i - 1], i) ELSE f[i - 1]

\* f lists the numbers of S up to every i of 0..n.
IsListing(S, n, f) == f = [i \in 0..n |-> Step(S, f, i)]

LEMMA ListsExists ==
  ASSUME NEW S, NEW n \in Nat
  PROVE  \E f : IsListing(S, n, f)
<1> DEFINE G == {k \in Nat : \E f : IsListing(S, k, f)}
<1>1. 0 \in G
  <2>1. IsListing(S, 0, [i \in 0..0 |-> << >>])
    BY DEF IsListing, Step
  <2> QED BY <2>1
<1>2. ASSUME NEW k \in G PROVE k + 1 \in G
  <2>1. PICK f : k \in Nat /\ IsListing(S, k, f)
    BY <1>2
  <2> DEFINE g == [i \in 0..(k + 1) |-> IF i = k + 1 THEN Step(S, f, i) ELSE f[i]]
  <2>2. \A i \in 0..(k + 1) : Step(S, g, i) = Step(S, f, i)
    BY <2>1 DEF Step
  <2>3. \A i \in 0..k : f[i] = Step(S, f, i)
    BY <2>1 DEF IsListing
  <2>4. \A i \in 0..(k + 1) : g[i] = Step(S, g, i)
    BY <2>1, <2>2, <2>3
  <2>5. IsListing(S, k + 1, g)
    <3> HIDE DEF g
    <3>1. g = [i \in 0..(k + 1) |-> g[i]]
      BY DEF g
    <3> QED BY <2>4, <3>1 DEF IsListing
  <2> QED BY <2>1, <2>5
<1>3. G = Nat
  <2>1. G \in SUBSET Nat
    OBVIOUS
  <2> HIDE DEF G
  <2> QED BY <1>1, <1>2, <2>1, EveryNatural
<1> QED BY <1>3

LEMMA ListsAgree ==
  ASSUME NEW S, NEW m \in Nat, NEW n \in Nat, NEW f, NEW g, IsListing(S, m, f), IsListing(S, n, g)
  PROVE  \A i \in 0..m : i \in 0..n => f[i] = g[i]
<1> DEFINE G == {k \in Nat : k \in 0..m /\ k \in 0..n => f[k] = g[k]}
<1>1. 0 \in G
  <2>1. f[0] = Step(S, f, 0) /\ g[0] = Step(S, g, 0)
    BY DEF IsListing
  <2> QED BY <2>1 DEF Step
<1>2. ASSUME NEW k \in G PROVE k + 1 \in G
  <2>1. CASE k + 1 \in 0..m /\ k + 1 \in 0..n
    <3>1. f[k + 1] = Step(S, f, k + 1) /\ g[k + 1] = Step(S, g, k + 1)
      BY <2>1 DEF IsListing
    <3>2. f[k] = g[k] /\ k \in Nat /\ (k + 1) - 1 = k
      BY <1>2, <2>1
    <3>3. f[k + 1] = g[k + 1]
      BY <3>1, <3>2 DEF Step
    <3> QED BY <3>2, <3>3
  <2> QED BY <1>2, <2>1
<1>3. G = Nat
  <2>1. G \in SUBSET Nat
    OBVIOUS
  <2> HIDE DEF G
  <2> QED BY <1>1, <1>2, <2>1, EveryNatural
<1> QED BY <1>3

LEMMA InOrderListed ==
  ASSUME NEW S, NEW n \in Nat
  PROVE  \E f : IsListing(S, n, f) /\ InOrder(S, n) = f[n]
<1> DEFINE f == CHOOSE g : IsListing(S, n, g)
<1>1. IsListing(S, n, f)
  BY ListsExists
<1>2. InOrder(S, n) = f[n]
  BY DEF InOrder, IsListing, Step
<1> HIDE DEF f
<1> QED BY <1>1, <1>2

\* The recursion unfolds.
LEMMA InOrderStep ==
  ASSUME NEW S
  PROVE  /\ InOrder(S, 0) = << >>
         /\ \A n \in Nat : InOrder(S, n + 1) =
              IF n + 1 \in S THEN Append(InOrder(S, n), n + 1) ELSE InOrder(S, n)
<1>1. InOrder(S, 0) = << >>
  <2>1. PICK f : IsListing(S, 0, f) /\ InOrder(S, 0) = f[0]
    BY InOrderListed
  <2>2. f[0] = Step(S, f, 0)
    BY <2>1 DEF IsListing
  <2> QED BY <2>1, <2>2 DEF Step
<1>2. ASSUME NEW n \in Nat
      PROVE  InOrder(S, n + 1) =
               IF n + 1 \in S THEN Append(InOrder(S, n), n + 1) ELSE InOrder(S, n)
  <2>1. PICK f : IsListing(S, n, f) /\ InOrder(S, n) = f[n]
    BY InOrderListed
  <2>2. PICK g : IsListing(S, n + 1, g) /\ InOrder(S, n + 1) = g[n + 1]
    BY InOrderListed
  <2>3. f[n] = g[n]
    BY <2>1, <2>2, ListsAgree
  <2>4. g[n + 1] = Step(S, g, n + 1)
    BY <2>2 DEF IsListing
  <2> QED BY <2>1, <2>2, <2>3, <2>4 DEF Step
<1> QED BY <1>1, <1>2

\* What the list holds: the numbers of the set up to n, each once, in order.
IsInOrder(s, S, n) ==
  /\ s \in Seq(Nat)
  /\ \A k \in 1..Len(s) : s[k] \in S /\ s[k] \in 1..n
  /\ \A i, j \in 1..Len(s) : i < j => s[i] < s[j]
  /\ \A x \in S : x \in 1..n => \E k \in 1..Len(s) : s[k] = x

LEMMA InOrderIs ==
  ASSUME NEW S, NEW n \in Nat
  PROVE  IsInOrder(InOrder(S, n), S, n)
<1> DEFINE G == {k \in Nat : IsInOrder(InOrder(S, k), S, k)}
<1>1. 0 \in G
  <2>1. InOrder(S, 0) = << >>
    BY InOrderStep
  <2>2. IsInOrder(<< >>, S, 0)
    BY DEF IsInOrder
  <2> QED BY <2>1, <2>2
<1>2. ASSUME NEW k \in G PROVE k + 1 \in G
  <2>1. PICK s : s = InOrder(S, k)
    OBVIOUS
  <2>2. PICK t : t = InOrder(S, k + 1)
    OBVIOUS
  <2>3. k \in Nat /\ IsInOrder(s, S, k)
    BY <1>2, <2>1
  <2>4. CASE k + 1 \notin S
    <3>1. t = s
      BY <2>1, <2>2, <2>3, <2>4, InOrderStep
    <3>2. \A i \in 1..Len(s) : s[i] \in S /\ s[i] \in 1..(k + 1)
      BY <2>3 DEF IsInOrder
    <3>3. \A x \in S : x \in 1..(k + 1) => x \in 1..k
      BY <2>3, <2>4
    <3>4. IsInOrder(t, S, k + 1)
      BY <2>3, <3>1, <3>2, <3>3 DEF IsInOrder
    <3> QED BY <2>2, <2>3, <3>4
  <2>5. CASE k + 1 \in S
    <3>1. t = Append(s, k + 1)
      BY <2>1, <2>2, <2>3, <2>5, InOrderStep
    <3>2. s \in Seq(Nat) /\ Len(s) \in Nat /\ k + 1 \in Nat
      BY <2>3 DEF IsInOrder
    <3>3. /\ t \in Seq(Nat) /\ Len(t) = Len(s) + 1 /\ t[Len(s) + 1] = k + 1
          /\ \A i \in 1..Len(s) : t[i] = s[i]
      BY <3>1, <3>2, AppendProperties
    <3>4. \A i \in 1..Len(t) : i \in 1..Len(s) \/ i = Len(s) + 1
      BY <3>2, <3>3
    <3>5. \A i \in 1..Len(t) : t[i] \in S /\ t[i] \in 1..(k + 1)
      <4>1. \A i \in 1..Len(s) : s[i] \in S /\ s[i] \in 1..(k + 1)
        BY <2>3 DEF IsInOrder
      <4>2. k + 1 \in 1..(k + 1)
        BY <2>3
      <4> QED BY <2>5, <3>3, <3>4, <4>1, <4>2
    <3>6. ASSUME NEW i \in 1..Len(t), NEW j \in 1..Len(t), i < j PROVE t[i] < t[j]
      <4>1. i \in 1..Len(s)
        BY <3>2, <3>3, <3>6
      <4>2. t[i] = s[i] /\ s[i] \in 1..k
        BY <2>3, <3>3, <4>1 DEF IsInOrder
      <4>3. CASE j \in 1..Len(s)
        BY <2>3, <3>3, <3>6, <4>1, <4>3 DEF IsInOrder
      <4>4. CASE j = Len(s) + 1
        BY <2>3, <3>3, <4>2, <4>4
      <4> QED BY <3>4, <4>3, <4>4
    <3>7. ASSUME NEW x \in S, x \in 1..(k + 1) PROVE \E i \in 1..Len(t) : t[i] = x
      <4>1. CASE x \in 1..k
        <5>1. PICK i \in 1..Len(s) : s[i] = x
          BY <2>3, <4>1 DEF IsInOrder
        <5>2. i \in 1..Len(t) /\ t[i] = x
          BY <3>2, <3>3, <5>1
        <5> QED BY <5>2
      <4>2. CASE x = k + 1
        BY <3>2, <3>3, <4>2
      <4> QED BY <2>3, <3>7, <4>1, <4>2
    <3>8. IsInOrder(t, S, k + 1)
      BY <3>3, <3>5, <3>6, <3>7 DEF IsInOrder
    <3> QED BY <2>2, <2>3, <3>8
  <2> QED BY <2>4, <2>5
<1>3. G = Nat
  <2>1. G \in SUBSET Nat
    OBVIOUS
  <2> HIDE DEF G
  <2> QED BY <1>1, <1>2, <2>1, EveryNatural
<1> QED BY <1>3

-----------------------------------------------------------------------------
(***************************************************************************)
(* Interpretations of a path.                                              *)
(***************************************************************************)
LEMMA ByteAtIsByte ==
  ASSUME NEW b \in Seq(Byte), NEW i \in Nat, EscapeAt(b, i)
  PROVE  ByteAt(b, i) \in Byte
<1>1. \A d \in HexDigit : HexVal(d) \in 0..15
  BY DEF HexDigit, HexVal
<1>2. b[i + 1] \in HexDigit /\ b[i + 2] \in HexDigit
  BY DEF EscapeAt
<1>3. HexVal(b[i + 1]) \in 0..15 /\ HexVal(b[i + 2]) \in 0..15
  BY <1>1, <1>2
<1>4. \A x, y \in 0..15 : 16 * x + y \in 0..255
  OBVIOUS
<1>5. 16 * HexVal(b[i + 1]) + HexVal(b[i + 2]) \in 0..255
  BY <1>3, <1>4
<1> QED BY <1>5 DEF ByteAt, Byte

\* The offsets of a sound view are positions of the request, in order.
LEMMA OffsetsOrdered ==
  ASSUME NEW view, WellFormed(view)
  PROVE  /\ \A i \in DOMAIN view.bytes : SourceOffset(view, i) \in 1..Len(view.original)
         /\ \A i, j \in DOMAIN view.bytes : i < j => SourceOffset(view, i) < SourceOffset(view, j)
<1>1. CASE ~view.decoded
  BY <1>1 DEF WellFormed, SourceOffset
<1>2. CASE view.decoded
  BY <1>2 DEF WellFormed, SourceOffset
<1> QED BY <1>1, <1>2

KeptOf(b) == {i \in 1..Len(b) : ~EscapeAt(b, i - 1) /\ ~EscapeAt(b, i - 2)}

LEMMA KeptIs ==
  ASSUME NEW b \in Seq(Byte)
  PROVE  IsInOrder(Kept(b), KeptOf(b), Len(b))
<1>1. Len(b) \in Nat
  OBVIOUS
<1> QED BY <1>1, InOrderIs DEF Kept, KeptOf

LEMMA DecodedByteIsByte ==
  ASSUME NEW b \in Seq(Byte), NEW i \in 1..Len(b)
  PROVE  DecodedByte(b, i) \in Byte
BY ByteAtIsByte DEF DecodedByte

\* Decoding keeps provenance: one origin per byte, inside the request and in order.
LEMMA DecodeSound ==
  ASSUME NEW v, WellFormed(v)
  PROVE  WellFormed(Decode(v)) /\ Decode(v).original = v.original /\ Decode(v).decoded = TRUE
<1>0. v.bytes \in Seq(Byte) /\ v.original \in Seq(Byte)
  BY DEF WellFormed
<1>1. PICK kept : kept = Kept(v.bytes)
  OBVIOUS
<1>2. /\ kept \in Seq(Nat) /\ Len(kept) \in Nat
      /\ \A k \in 1..Len(kept) : kept[k] \in 1..Len(v.bytes)
      /\ \A i, j \in 1..Len(kept) : i < j => kept[i] < kept[j]
  BY <1>0, <1>1, KeptIs DEF IsInOrder
<1>3. PICK d : d = Decode(v)
  OBVIOUS
<1>4. /\ d.bytes = [k \in 1..Len(kept) |-> DecodedByte(v.bytes, kept[k])]
      /\ d.origins = [k \in 1..Len(kept) |-> SourceOffset(v, kept[k])]
      /\ d.decoded = TRUE /\ d.original = v.original
  BY <1>1, <1>3 DEF Decode
<1>5. \A k \in 1..Len(kept) : DecodedByte(v.bytes, kept[k]) \in Byte
  BY <1>0, <1>2, DecodedByteIsByte
<1>6. \A k \in 1..Len(kept) : SourceOffset(v, kept[k]) \in 1..Len(v.original)
  BY <1>0, <1>2, OffsetsOrdered
<1>7. d.bytes \in Seq(Byte) /\ Len(d.bytes) = Len(kept)
  BY <1>2, <1>4, <1>5
<1>8. d.origins \in Seq(1..Len(v.original)) /\ Len(d.origins) = Len(kept)
  BY <1>2, <1>4, <1>6
<1>9. ASSUME NEW i \in DOMAIN d.origins, NEW j \in DOMAIN d.origins, i < j
      PROVE  d.origins[i] < d.origins[j]
  <2>1. i \in 1..Len(kept) /\ j \in 1..Len(kept)
    BY <1>4
  <2>2. kept[i] \in 1..Len(v.bytes) /\ kept[j] \in 1..Len(v.bytes) /\ kept[i] < kept[j]
    BY <1>2, <1>9, <2>1
  <2>3. SourceOffset(v, kept[i]) < SourceOffset(v, kept[j])
    BY <1>0, <2>2, OffsetsOrdered
  <2> QED BY <1>4, <2>1, <2>3
<1> QED BY <1>0, <1>3, <1>4, <1>7, <1>8, <1>9 DEF WellFormed

\* Decoding keeps where a view begins: no escape ends at its first byte.
LEMMA DecodeStarts ==
  ASSUME NEW v, WellFormed(v), SourceOffset(v, 1) = 1
  PROVE  SourceOffset(Decode(v), 1) = 1
<1>1. PICK kept : kept = Kept(v.bytes)
  OBVIOUS
<1>2. PICK d : d = Decode(v)
  OBVIOUS
<1>3. /\ d.origins = [k \in 1..Len(kept) |-> SourceOffset(v, kept[k])]
      /\ d.decoded = TRUE
  BY <1>1, <1>2 DEF Decode
<1>4. v.bytes \in Seq(Byte)
  BY DEF WellFormed
<1>5. IsInOrder(kept, KeptOf(v.bytes), Len(v.bytes))
  BY <1>1, <1>4, KeptIs
<1>6. kept \in Seq(Nat) /\ Len(kept) \in Nat
  BY <1>5 DEF IsInOrder
<1>7. CASE 1 \in 1..Len(kept)
  <2>1. kept[1] \in 1..Len(v.bytes)
    BY <1>5, <1>7 DEF IsInOrder
  <2>2. 1 \in KeptOf(v.bytes) /\ 1 \in 1..Len(v.bytes)
    BY <1>4, <2>1 DEF KeptOf, EscapeAt
  <2>3. PICK k \in 1..Len(kept) : kept[k] = 1
    BY <1>5, <2>2 DEF IsInOrder
  <2>4. k = 1
    <3>1. 1 < k => kept[1] < kept[k]
      BY <1>5, <1>7 DEF IsInOrder
    <3> QED BY <1>6, <2>1, <2>3, <3>1
  <2>5. SourceOffset(v, kept[1]) = 1
    BY <2>3, <2>4
  <2>6. 1 \in DOMAIN d.origins /\ d.origins[1] = 1
    BY <1>3, <1>7, <2>5
  <2> QED BY <1>2, <1>3, <2>6 DEF SourceOffset
<1>8. CASE 1 \notin 1..Len(kept)
  <2>1. 1 \notin DOMAIN d.origins
    BY <1>3, <1>8
  <2> QED BY <1>2, <1>3, <2>1 DEF SourceOffset
<1> QED BY <1>7, <1>8

\* So every interpretation of a request is sound.
LEMMA InterpretationsSound ==
  ASSUME NEW b \in Seq(Byte), NEW two
  PROVE  \A k \in 1..Len(Interpretations(b, two)) :
           WellFormed(Interpretations(b, two)[k]) /\ Interpretations(b, two)[k].original = b
<1>1. PICK raw : raw = Original(b)
  OBVIOUS
<1>2. PICK once : once = Decode(raw)
  OBVIOUS
<1>3. PICK twice : twice = Decode(once)
  OBVIOUS
<1>4. WellFormed(raw) /\ raw.original = b
  BY <1>1 DEF Original, WellFormed
<1>5. WellFormed(once) /\ once.original = b
  BY <1>2, <1>4, DecodeSound
<1>6. WellFormed(twice) /\ twice.original = b
  BY <1>3, <1>5, DecodeSound
<1>7. Interpretations(b, two) \in {<<raw>>, <<raw, once>>, <<raw, once, twice>>}
  BY <1>1, <1>2, <1>3 DEF Interpretations
<1>8. PICK s \in {<<raw>>, <<raw, once>>, <<raw, once, twice>>} : s = Interpretations(b, two)
  BY <1>7
<1>9. \A k \in 1..Len(s) : s[k] \in {raw, once, twice}
  OBVIOUS
<1> QED BY <1>4, <1>5, <1>6, <1>8, <1>9

\* And every interpretation begins where the request does.
LEMMA InterpretationsStart ==
  ASSUME NEW b \in Seq(Byte), NEW two
  PROVE  \A k \in 1..Len(Interpretations(b, two)) : SourceOffset(Interpretations(b, two)[k], 1) = 1
<1>1. PICK raw : raw = Original(b)
  OBVIOUS
<1>2. PICK once : once = Decode(raw)
  OBVIOUS
<1>3. PICK twice : twice = Decode(once)
  OBVIOUS
<1>4. WellFormed(raw) /\ SourceOffset(raw, 1) = 1
  BY <1>1 DEF Original, WellFormed, SourceOffset
<1>5. WellFormed(once) /\ SourceOffset(once, 1) = 1
  BY <1>2, <1>4, DecodeSound, DecodeStarts
<1>6. SourceOffset(twice, 1) = 1
  BY <1>3, <1>5, DecodeStarts
<1>7. PICK s \in {<<raw>>, <<raw, once>>, <<raw, once, twice>>} : s = Interpretations(b, two)
  BY <1>1, <1>2, <1>3 DEF Interpretations
<1>8. \A k \in 1..Len(s) : s[k] \in {raw, once, twice}
  OBVIOUS
<1> QED BY <1>4, <1>5, <1>6, <1>7, <1>8

-----------------------------------------------------------------------------
(***************************************************************************)
(* Scans of an interpretation.                                             *)
(***************************************************************************)
\* A unit is one to four bytes wide.
LEMMA UnitShape ==
  ASSUME NEW v, WellFormed(v), NEW e \in Encodings, NEW i \in 1..Len(v.bytes)
  PROVE  Unit(v, i, e).width \in 1..4 /\ Unit(v, i, e).encoded \in BOOLEAN
<1> DEFINE b == v.bytes
           u == Unit(v, i, e)
<1>1. CASE e.unicode /\ FullwidthAt(b, i)
  <2>1. u = [byte |-> FullwidthFold(b[i + 2]), width |-> 3, encoded |-> TRUE]
    BY <1>1 DEF Unit
  <2> QED BY <2>1
<1>2. CASE ~(e.unicode /\ FullwidthAt(b, i)) /\ Overlong(b, i, e)
  <2>1. u = [byte |-> CodePoint(b, i, OverlongLen(b[i])), width |-> OverlongLen(b[i]),
             encoded |-> TRUE]
    BY <1>2 DEF Unit
  <2>2. OverlongLen(b[i]) # 0
    BY <1>2 DEF Overlong, OverlongAt
  <2>3. OverlongLen(b[i]) \in {0, 2, 3, 4}
    BY DEF OverlongLen
  <2> QED BY <2>1, <2>2, <2>3
<1>3. CASE ~(e.unicode /\ FullwidthAt(b, i)) /\ ~Overlong(b, i, e)
  <2>1. u = [byte |-> b[i], width |-> 1, encoded |-> Escaped(v, i)]
    BY <1>3 DEF Unit
  <2>2. Escaped(v, i) \in BOOLEAN
    BY DEF Escaped, WellFormed
  <2> QED BY <2>1, <2>2
<1> QED BY <1>1, <1>2, <1>3

\* A byte inside an alternate spelling starts no spelling of its own.
LEMMA InsideUnit ==
  ASSUME NEW v, WellFormed(v), NEW e \in Encodings, NEW i \in DOMAIN v.bytes, NEW j \in DOMAIN v.bytes,
         i < j, j < i + Unit(v, i, e).width
  PROVE  /\ v.bytes[j] \in 128..191
         /\ Unit(v, j, e) = [byte |-> v.bytes[j], width |-> 1, encoded |-> Escaped(v, j)]
<1> DEFINE b == v.bytes
<1>1. i \in Nat /\ j \in Nat
  BY DEF WellFormed
<1>2. b[j] \in 128..191
  <2>1. CASE e.unicode /\ FullwidthAt(b, i)
    <3>1. Unit(v, i, e).width = 3
      BY <2>1 DEF Unit
    <3>2. j = i + 1 \/ j = i + 2
      BY <1>1, <3>1
    <3>3. b[i + 1] = 188 /\ b[i + 2] \in {143, 142, 155, 188}
      BY <2>1 DEF FullwidthAt, FullwidthThird
    <3> QED BY <3>2, <3>3
  <2>2. CASE ~(e.unicode /\ FullwidthAt(b, i)) /\ Overlong(b, i, e)
    <3>1. Unit(v, i, e).width = OverlongLen(b[i])
      BY <2>2 DEF Unit
    <3>2. \A k \in 1..(OverlongLen(b[i]) - 1) : b[i + k] \in 128..191
      BY <2>2 DEF Overlong, OverlongAt, Continuation
    <3>3. OverlongLen(b[i]) \in {0, 2, 3, 4}
      BY DEF OverlongLen
    <3>4. j - i \in 1..(OverlongLen(b[i]) - 1) /\ i + (j - i) = j
      BY <1>1, <3>1, <3>3
    <3> QED BY <3>2, <3>4
  <2>3. CASE ~(e.unicode /\ FullwidthAt(b, i)) /\ ~Overlong(b, i, e)
    <3>1. Unit(v, i, e).width = 1
      BY <2>3 DEF Unit
    <3> QED BY <1>1, <3>1
  <2> QED BY <2>1, <2>2, <2>3
<1>3. ~FullwidthAt(b, j)
  <2>1. b[j] # 239
    BY <1>2
  <2> QED BY <2>1 DEF FullwidthAt
<1>4. ~Overlong(b, j, e)
  <2>1. OverlongLen(b[j]) = 0
    BY <1>2 DEF OverlongLen
  <2> QED BY <2>1 DEF Overlong, OverlongAt
<1> QED BY <1>2, <1>3, <1>4 DEF Unit

\* A unit of its own is a byte standing for itself, or a spelling with a lead byte.
LEMMA UnitRead ==
  ASSUME NEW v, WellFormed(v), NEW e \in Encodings, NEW i \in DOMAIN v.bytes
  PROVE  \/ Unit(v, i, e) = [byte |-> v.bytes[i], width |-> 1, encoded |-> Escaped(v, i)]
         \/ v.bytes[i] \in 192..255 /\ Unit(v, i, e).byte \in 0..127
<1> DEFINE b == v.bytes
<1>1. CASE e.unicode /\ FullwidthAt(b, i)
  <2>1. b[i] = 239 /\ b[i + 2] \in {143, 142, 155, 188}
    BY <1>1 DEF FullwidthAt, FullwidthThird
  <2>2. FullwidthFold(b[i + 2]) \in 0..127
    BY <2>1 DEF FullwidthFold, Slash, Dot, Semicolon, Backslash
  <2> QED BY <1>1, <2>1, <2>2 DEF Unit
<1>2. CASE ~(e.unicode /\ FullwidthAt(b, i)) /\ Overlong(b, i, e)
  <2>1. OverlongLen(b[i]) # 0 /\ CodePoint(b, i, OverlongLen(b[i])) \in 0..127
    BY <1>2 DEF Overlong, OverlongAt, Slash, Dot
  <2>2. b[i] \in 192..247
    <3>1. PICK lead : lead = b[i]
      OBVIOUS
    <3>2. OverlongLen(lead) # 0
      BY <2>1, <3>1
    <3>3. lead \in 192..223 \/ lead \in 224..239 \/ lead \in 240..247
      BY <3>2 DEF OverlongLen
    <3> QED BY <3>1, <3>3
  <2> QED BY <1>2, <2>1, <2>2 DEF Unit
<1>3. CASE ~(e.unicode /\ FullwidthAt(b, i)) /\ ~Overlong(b, i, e)
  BY <1>3 DEF Unit
<1> QED BY <1>1, <1>2, <1>3

\* More spellings recognised.
Widens(d, e) == \A x \in DOMAIN d : d[x] => e[x]

\* A lead byte of the fullwidth block starts no overlong spelling.
LEMMA FullwidthIsNotOverlong ==
  ASSUME NEW b \in Seq(Byte), NEW i \in DOMAIN b, FullwidthAt(b, i)
  PROVE  ~OverlongAt(b, i)
<1>1. b[i] = 239 /\ b[i + 1] = 188 /\ b[i + 2] \in {143, 142, 155, 188}
  BY DEF FullwidthAt, FullwidthThird
<1>2. OverlongLen(b[i]) = 3
  BY <1>1 DEF OverlongLen
<1>3. CodePoint(b, i, 3) = 4096 * (b[i] % 16) + 64 * Payload(b[i + 1]) + Payload(b[i + 2])
  BY DEF CodePoint
<1>4. b[i] % 16 = 15 /\ Payload(b[i + 1]) = 60 /\ Payload(b[i + 2]) \in {15, 14, 27, 60}
  BY <1>1 DEF Payload
<1>5. CodePoint(b, i, 3) > 61440
  BY <1>3, <1>4
<1> QED BY <1>2, <1>5 DEF OverlongAt, Slash, Dot

\* With more spellings recognised a unit stays what it is, or was a bare lead byte.
LEMMA WiderUnit ==
  ASSUME NEW v, WellFormed(v), NEW d \in Encodings, NEW e \in Encodings, Widens(d, e),
         NEW i \in DOMAIN v.bytes
  PROVE  \/ Unit(v, i, d) = Unit(v, i, e)
         \/ /\ Unit(v, i, d) = [byte |-> v.bytes[i], width |-> 1, encoded |-> Escaped(v, i)]
            /\ v.bytes[i] \in 192..255
<1> DEFINE b == v.bytes
<1>1. b \in Seq(Byte)
  BY DEF WellFormed
<1>2. /\ d.unicode => e.unicode
      /\ d.overlong_slash => e.overlong_slash
      /\ d.overlong_dot => e.overlong_dot
  BY DEF Widens, Encodings
<1>3. CASE d.unicode /\ FullwidthAt(b, i)
  BY <1>2, <1>3 DEF Unit
<1>4. CASE ~(d.unicode /\ FullwidthAt(b, i)) /\ Overlong(b, i, d)
  <2>1. ~FullwidthAt(b, i)
    BY <1>1, <1>4, FullwidthIsNotOverlong DEF Overlong
  <2>2. Overlong(b, i, e)
    BY <1>2, <1>4 DEF Overlong
  <2> QED BY <1>4, <2>1, <2>2 DEF Unit
<1>5. CASE ~(d.unicode /\ FullwidthAt(b, i)) /\ ~Overlong(b, i, d)
  <2>1. Unit(v, i, d) = [byte |-> b[i], width |-> 1, encoded |-> Escaped(v, i)]
    BY <1>5 DEF Unit
  <2>2. CASE Unit(v, i, e) = [byte |-> b[i], width |-> 1, encoded |-> Escaped(v, i)]
    BY <2>1, <2>2
  <2> QED BY <2>1, <2>2, UnitRead
<1> QED BY <1>3, <1>4, <1>5

\* Units are where they say, and one ends before the next begins.
Spaced(u, n) ==
  /\ \A p \in u : p.at \in 1..n /\ p.unit.width \in 1..4
  /\ \A p, q \in u : p.at < q.at => p.at + p.unit.width <= q.at
  /\ \A p, q \in u : p.at = q.at => p = q

LEMMA UnitsSpaced ==
  ASSUME NEW v, WellFormed(v), NEW e \in Encodings
  PROVE  Len(v.bytes) \in Nat /\ Spaced(Units(v, e), Len(v.bytes))
<1>1. Len(v.bytes) \in Nat /\ DOMAIN v.bytes = 1..Len(v.bytes)
  BY DEF WellFormed
<1>2. ASSUME NEW p \in Units(v, e)
      PROVE  /\ p.at \in 1..Len(v.bytes) /\ p = [at |-> p.at, unit |-> Unit(v, p.at, e)]
             /\ p.unit.width \in 1..4
  <2>1. PICK i \in DOMAIN v.bytes : p = [at |-> i, unit |-> Unit(v, i, e)]
    BY DEF Units
  <2> QED BY <1>1, <2>1, UnitShape
<1>3. ASSUME NEW p \in Units(v, e), NEW q \in Units(v, e), p.at < q.at
      PROVE  p.at + p.unit.width <= q.at
  <2>1. p \in {[at |-> i, unit |-> Unit(v, i, e)] : i \in DOMAIN v.bytes}
    BY DEF Units
  <2>2. ~(p.at < q.at /\ q.at < p.at + p.unit.width)
    BY <2>1 DEF Units
  <2> QED BY <1>1, <1>2, <1>3, <2>2
<1> QED BY <1>1, <1>2, <1>3 DEF Spaced

\* Bytes past ASCII: they have no class, and neither separate nor delimit.
Neutral(p) == p.unit.byte \in 128..255

\* What two ways of reading the same bytes have to do with each other: only neutral
\* units of the narrower one are read otherwise by the wider one.
Refines(u, w) ==
  /\ \A p \in u : Neutral(p) \/ p \in w
  /\ \A p \in w : \E q \in u : q.at = p.at /\ (q = p \/ Neutral(q))

LEMMA UnitsWiden ==
  ASSUME NEW v, WellFormed(v), NEW d \in Encodings, NEW e \in Encodings, Widens(d, e)
  PROVE  Refines(Units(v, d), Units(v, e))
<1> DEFINE Read(x) == {[at |-> i, unit |-> Unit(v, i, x)] : i \in DOMAIN v.bytes}
           Covered(i, x) == \E q \in Read(x) : q.at < i /\ i < q.at + q.unit.width
<1>1. ASSUME NEW x \in Encodings, NEW i \in DOMAIN v.bytes, Covered(i, x)
      PROVE  /\ v.bytes[i] \in 128..191
             /\ \E j \in DOMAIN v.bytes : j < i /\ i < j + Unit(v, j, x).width
  <2>1. PICK j \in DOMAIN v.bytes : j < i /\ i < j + Unit(v, j, x).width
    BY <1>1
  <2> QED BY <2>1, InsideUnit
<1>2. ASSUME NEW x, NEW p PROVE p \in Units(v, x) <=> (p \in Read(x) /\ ~Covered(p.at, x))
  BY DEF Units
<1>3. DOMAIN v.bytes \subseteq Nat
  BY DEF WellFormed
<1>4. ASSUME NEW i \in DOMAIN v.bytes, Covered(i, d) PROVE Covered(i, e)
  <2>1. PICK j \in DOMAIN v.bytes : j < i /\ i < j + Unit(v, j, d).width
    BY <1>1, <1>4
  <2>2. Unit(v, j, d) = Unit(v, j, e)
    <3>1. Unit(v, j, d).width # 1
      BY <1>3, <2>1
    <3> QED BY <3>1, WiderUnit
  <2>3. [at |-> j, unit |-> Unit(v, j, e)] \in Read(e)
    OBVIOUS
  <2> QED BY <2>1, <2>2, <2>3
<1> HIDE DEF Covered
<1>5. ASSUME NEW p \in Units(v, d), ~Neutral(p) PROVE p \in Units(v, e)
  <2>1. p \in Read(d) /\ ~Covered(p.at, d)
    BY <1>2
  <2>2. PICK i \in DOMAIN v.bytes : p = [at |-> i, unit |-> Unit(v, i, d)]
    BY <2>1
  <2>3. Unit(v, i, d) = Unit(v, i, e)
    <3>1. CASE Unit(v, i, d) = [byte |-> v.bytes[i], width |-> 1, encoded |-> Escaped(v, i)]
               /\ v.bytes[i] \in 192..255
      BY <1>5, <2>2, <3>1 DEF Neutral
    <3> QED BY <3>1, WiderUnit
  <2>4. ~Covered(i, e)
    <3>1. SUFFICES ASSUME Covered(i, e) PROVE FALSE
      OBVIOUS
    <3>2. v.bytes[i] \in 128..191
      BY <1>1, <3>1
    <3>3. Unit(v, i, d).byte = v.bytes[i]
      BY <3>2, UnitRead
    <3> QED BY <1>5, <2>2, <3>2, <3>3 DEF Neutral
  <2> QED BY <1>2, <2>2, <2>3, <2>4
<1>6. ASSUME NEW p \in Units(v, e) PROVE \E q \in Units(v, d) : q.at = p.at /\ (q = p \/ Neutral(q))
  <2>1. p \in Read(e) /\ ~Covered(p.at, e)
    BY <1>2
  <2>2. PICK i \in DOMAIN v.bytes : p = [at |-> i, unit |-> Unit(v, i, e)]
    BY <2>1
  <2>3. PICK q : q = [at |-> i, unit |-> Unit(v, i, d)]
    OBVIOUS
  <2>4. q \in Units(v, d)
    BY <1>2, <1>4, <2>1, <2>2, <2>3
  <2>5. q = p \/ Neutral(q)
    BY <2>2, <2>3, WiderUnit DEF Neutral
  <2> QED BY <2>2, <2>3, <2>4, <2>5
<1> QED BY <1>5, <1>6 DEF Refines

-----------------------------------------------------------------------------
(***************************************************************************)
(* What a scan reports, in terms of units and segments.                    *)
(***************************************************************************)
ClassAt(u, p) == ClassOf(p.unit, AfterSlash(u, p.at))
DelimitersOf(u, enabled) == {p \in u : Delimits(p.unit, enabled)}
Separators(u, enabled) == {p \in u : Separates(p.unit, enabled)}
Dots(u) == {p \in u : p.unit.byte = Dot}
Alternates(u) == {p \in Dots(u) : p.unit.encoded}

AllSegments(u, enabled) == SegmentsOf(u, Separators(u, enabled))
BareUnits(u, g, enabled) == BareContent(g.content, DelimitersOf(u, enabled))
IsLiteral(u, g, enabled) ==
  BareUnits(u, g, enabled) \subseteq Dots(u) /\ Cardinality(BareUnits(u, g, enabled)) \in 1..2
Climbs(u, g, enabled) == IsLiteral(u, g, enabled) \/ g.content \cap Alternates(u) # {}

\* The positions of what the units R and the segments G hold.
Hits(v, u, R, G, enabled) ==
  {SourceOffset(v, p.at) : p \in {q \in R : ClassAt(u, q) \cap enabled # {}}}
  \cup {SourceOffset(v, g.start) : g \in {h \in G : IsLiteral(u, h, enabled) /\ "DotSegment" \in enabled}}

\* A result tells what the units R and the segments G hold, and nothing else.
Tallies(res, v, u, R, G, enabled) ==
  /\ res.classes = (UNION {ClassAt(u, p) : p \in R})
                   \cup (IF \E g \in G : IsLiteral(u, g, enabled) THEN {"DotSegment"} ELSE {})
  /\ res.earliest \in Hits(v, u, R, G, enabled) \cup {NoOffset}
  /\ \A o \in Hits(v, u, R, G, enabled) \cup {NoOffset} : res.earliest <= o
  /\ IsFiniteSet({g \in G : Climbs(u, g, enabled)})
  /\ res.dot_pops = Cardinality({g \in G : Climbs(u, g, enabled)})

\* Segments, by their starts.
StartsOf(u, enabled) == {1} \cup {q.at + q.unit.width : q \in Separators(u, enabled)}
ContentFrom(u, enabled, s) ==
  {p \in u : p.at >= s /\ ~\E q \in Separators(u, enabled) : s <= q.at /\ q.at <= p.at}

LEMMA SegmentStart ==
  ASSUME NEW u, NEW enabled
  PROVE  /\ \A s \in StartsOf(u, enabled) :
              [start |-> s, content |-> ContentFrom(u, enabled, s)] \in AllSegments(u, enabled)
         /\ \A g \in AllSegments(u, enabled) :
              /\ g.start \in StartsOf(u, enabled) /\ g.content = ContentFrom(u, enabled, g.start)
              /\ g = [start |-> g.start, content |-> ContentFrom(u, enabled, g.start)]
<1>1. AllSegments(u, enabled) =
        {[start |-> s, content |-> ContentFrom(u, enabled, s)] : s \in StartsOf(u, enabled)}
  BY DEF AllSegments, SegmentsOf, StartsOf, ContentFrom
<1> QED BY <1>1

LEMMA StartsPositive ==
  ASSUME NEW u, NEW n \in Nat, Spaced(u, n), NEW enabled
  PROVE  \A s \in StartsOf(u, enabled) : s \in Nat \ {0}
BY DEF StartsOf, Separators, Spaced

\* There are finitely many units and segments.
LEMMA SegmentsFinite ==
  ASSUME NEW v, WellFormed(v), NEW enc, NEW enabled
  PROVE  IsFiniteSet(Units(v, enc)) /\ IsFiniteSet(AllSegments(Units(v, enc), enabled))
<1>1. PICK u : u = Units(v, enc)
  OBVIOUS
<1>2. IsFiniteSet(u)
  <2>1. Len(v.bytes) \in Nat /\ DOMAIN v.bytes = 1..Len(v.bytes)
    BY DEF WellFormed
  <2> DEFINE f == [i \in 1..Len(v.bytes) |-> [at |-> i, unit |-> Unit(v, i, enc)]]
  <2>2. u \subseteq {f[i] : i \in 1..Len(v.bytes)}
    BY <1>1, <2>1 DEF Units
  <2>3. IsFiniteSet(1..Len(v.bytes))
    BY <2>1, FS_Interval
  <2>4. DOMAIN f = 1..Len(v.bytes)
    OBVIOUS
  <2> HIDE DEF f
  <2> QED BY <2>2, <2>3, <2>4, ImageFinite
<1>3. PICK separators : separators = Separators(u, enabled)
  OBVIOUS
<1>4. IsFiniteSet(separators)
  BY <1>2, <1>3, FS_Subset DEF Separators
<1>5. IsFiniteSet(StartsOf(u, enabled))
  <2> DEFINE f == [q \in separators |-> q.at + q.unit.width]
             ends == {f[q] : q \in separators}
  <2>1. StartsOf(u, enabled) = {1} \cup ends
    BY <1>3 DEF StartsOf
  <2>2. DOMAIN f = separators
    OBVIOUS
  <2>3. IsFiniteSet(ends)
    <3>1. ends \subseteq {f[q] : q \in DOMAIN f}
      BY <2>2
    <3> HIDE DEF f, ends
    <3> QED BY <1>4, <2>2, <3>1, ImageFinite
  <2> HIDE DEF f, ends
  <2>4. IsFiniteSet({1})
    BY FS_Singleton
  <2> QED BY <2>1, <2>3, <2>4, FS_Union
<1>6. IsFiniteSet(AllSegments(u, enabled))
  <2> DEFINE f == [s \in StartsOf(u, enabled) |-> [start |-> s, content |-> ContentFrom(u, enabled, s)]]
  <2>1. AllSegments(u, enabled) \subseteq {f[s] : s \in StartsOf(u, enabled)}
    <3>1. ASSUME NEW g \in AllSegments(u, enabled) PROVE \E s \in StartsOf(u, enabled) : g = f[s]
      BY SegmentStart
    <3> HIDE DEF f
    <3> QED BY <3>1
  <2>2. DOMAIN f = StartsOf(u, enabled)
    OBVIOUS
  <2> HIDE DEF f
  <2> QED BY <1>5, <2>1, <2>2, ImageFinite
<1> QED BY <1>1, <1>2, <1>6

\* A literal dot-segment starts inside the view.
LEMMA LiteralInside ==
  ASSUME NEW u, NEW n \in Nat, Spaced(u, n), NEW enabled,
         NEW g \in AllSegments(u, enabled), IsLiteral(u, g, enabled)
  PROVE  g.start \in 1..n
<1>1. PICK bare : bare = BareUnits(u, g, enabled)
  OBVIOUS
<1>2. Cardinality(bare) \in 1..2
  BY <1>1, Zenon DEF IsLiteral
<1>3. bare # {}
  <2>1. Cardinality({}) = 0 /\ 0 \notin 1..2
    BY FS_EmptySet
  <2> QED BY <1>2, <2>1, Zenon
<1>4. PICK p \in g.content : TRUE
  BY <1>1, <1>3 DEF BareUnits, BareContent
<1>5. p \in u /\ p.at >= g.start
  BY SegmentStart DEF ContentFrom
<1>6. g.start \in Nat \ {0}
  BY SegmentStart, StartsPositive
<1> QED BY <1>5, <1>6 DEF Spaced

\* Whatever is recorded of a whole view lies inside the request.
LEMMA HitsInside ==
  ASSUME NEW v, WellFormed(v), NEW e \in Encodings, NEW enabled, NEW u, u = Units(v, e)
  PROVE  Hits(v, u, u, AllSegments(u, enabled), enabled) \subseteq 1..Len(v.original)
<1>1. Len(v.bytes) \in Nat /\ Spaced(u, Len(v.bytes)) /\ DOMAIN v.bytes = 1..Len(v.bytes)
  BY UnitsSpaced DEF WellFormed
<1>2. \A i \in 1..Len(v.bytes) : SourceOffset(v, i) \in 1..Len(v.original)
  BY <1>1, OffsetsOrdered
<1>3. ASSUME NEW g \in AllSegments(u, enabled), IsLiteral(u, g, enabled) PROVE g.start \in 1..Len(v.bytes)
  BY <1>1, <1>3, LiteralInside
<1>4. \A q \in u : q.at \in 1..Len(v.bytes)
  BY <1>1 DEF Spaced
<1> QED BY <1>2, <1>3, <1>4 DEF Hits

\* The definition of a scan, in these terms.
LEMMA ScanShape ==
  ASSUME NEW v, NEW enabled, NEW enc, NEW u, u = Units(v, enc),
         NEW G, G = AllSegments(u, enabled)
  PROVE  ScanOf(v, enabled, enc) =
           [classes  |-> (UNION {ClassAt(u, p) : p \in u})
                         \cup (IF \E g \in G : IsLiteral(u, g, enabled) THEN {"DotSegment"} ELSE {}),
            earliest |-> CHOOSE e \in Hits(v, u, u, G, enabled) \cup {NoOffset} :
                           \A o \in Hits(v, u, u, G, enabled) : e <= o,
            dot_pops |-> Cardinality({g \in G : Climbs(u, g, enabled)})]
<1> DEFINE classified == {[at |-> p.at, class |-> ClassOf(p.unit, AfterSlash(u, p.at))] : p \in u}
           delimiters == {p \in u : Delimits(p.unit, enabled)}
           dots       == {p \in u : p.unit.byte = Dot}
           alternates == {p \in dots : p.unit.encoded}
           segments   == SegmentsOf(u, {p \in u : Separates(p.unit, enabled)})
           literal    == {g \in segments :
                            LET bare == BareContent(g.content, delimiters)
                            IN  bare \subseteq dots /\ Cardinality(bare) \in 1..2}
           climbing   == {g \in segments : g \in literal \/ g.content \cap alternates # {}}
           hits       == {SourceOffset(v, c.at) : c \in {d \in classified : d.class \cap enabled # {}}}
                         \cup {SourceOffset(v, g.start) : g \in {h \in literal : "DotSegment" \in enabled}}
           scan       == ScanOf(v, enabled, enc)
<1>1. scan = [classes  |-> (UNION {c.class : c \in classified}) \cup (IF literal = {} THEN {} ELSE {"DotSegment"}),
              earliest |-> CHOOSE e \in hits \cup {NoOffset} : \A o \in hits : e <= o,
              dot_pops |-> Cardinality(climbing)]
  <2>1. scan = Findings(v, u, enabled)
    BY DEF ScanOf
  <2> QED BY <2>1, Zenon DEF Findings
<1>2. segments = G
  BY DEF Separators, AllSegments
<1>3. literal = {g \in segments : IsLiteral(u, g, enabled)}
  BY Zenon DEF IsLiteral, BareUnits, DelimitersOf, Dots
<1>4. climbing = {g \in segments : Climbs(u, g, enabled)}
  <2> HIDE DEF segments, literal
  <2> QED BY <1>3 DEF Climbs, Alternates, Dots
<1>5. /\ \A p \in u : \E c \in classified : c.at = p.at /\ c.class = ClassAt(u, p)
      /\ \A c \in classified : \E p \in u : c.at = p.at /\ c.class = ClassAt(u, p)
  <2>1. ASSUME NEW p \in u PROVE \E c \in classified : c.at = p.at /\ c.class = ClassAt(u, p)
    <3>1. [at |-> p.at, class |-> ClassOf(p.unit, AfterSlash(u, p.at))] \in classified
      OBVIOUS
    <3> HIDE DEF classified
    <3> QED BY <3>1 DEF ClassAt
  <2>2. ASSUME NEW c \in classified PROVE \E p \in u : c.at = p.at /\ c.class = ClassAt(u, p)
    <3>1. PICK p \in u : c = [at |-> p.at, class |-> ClassOf(p.unit, AfterSlash(u, p.at))]
      OBVIOUS
    <3> HIDE DEF classified
    <3> QED BY <3>1 DEF ClassAt
  <2> HIDE DEF classified
  <2> QED BY <2>1, <2>2
<1>6. (UNION {c.class : c \in classified}) = UNION {ClassAt(u, p) : p \in u}
  <2> HIDE DEF classified
  <2> QED BY <1>5
<1>7. hits = Hits(v, u, u, segments, enabled)
  <2>1. {SourceOffset(v, c.at) : c \in {d \in classified : d.class \cap enabled # {}}} =
          {SourceOffset(v, p.at) : p \in {q \in u : ClassAt(u, q) \cap enabled # {}}}
    <3> HIDE DEF classified
    <3> QED BY <1>5
  <2> HIDE DEF segments, literal, classified
  <2>2. {h \in literal : "DotSegment" \in enabled} = {h \in segments : IsLiteral(u, h, enabled) /\ "DotSegment" \in enabled}
    BY <1>3
  <2> QED BY <2>1, <2>2 DEF Hits
<1>8. literal = {} <=> ~\E g \in segments : IsLiteral(u, g, enabled)
  <2> HIDE DEF segments, literal
  <2> QED BY <1>3
<1> HIDE DEF classified, segments, literal, climbing, hits, scan
<1>9. scan = [classes  |-> (UNION {ClassAt(u, p) : p \in u})
                           \cup (IF \E g \in G : IsLiteral(u, g, enabled) THEN {"DotSegment"} ELSE {}),
              earliest |-> CHOOSE e \in hits \cup {NoOffset} : \A o \in hits : e <= o,
              dot_pops |-> Cardinality({g \in G : Climbs(u, g, enabled)})]
  BY <1>1, <1>2, <1>4, <1>6, <1>8
<1>10. hits = Hits(v, u, u, G, enabled)
  BY <1>2, <1>7
<1> QED BY <1>9, <1>10 DEF scan

\* A scan tells everything about its view.
LEMMA ScanTallies ==
  ASSUME NEW v, WellFormed(v), Len(v.original) < NoOffset, NEW enabled, NEW enc \in Encodings,
         NEW u, u = Units(v, enc)
  PROVE  Tallies(ScanOf(v, enabled, enc), v, u, u, AllSegments(u, enabled), enabled)
<1>1. PICK G : G = AllSegments(u, enabled)
  OBVIOUS
<1>2. PICK hits : hits = Hits(v, u, u, G, enabled)
  OBVIOUS
<1>3. PICK scan : scan = ScanOf(v, enabled, enc)
  OBVIOUS
<1>4. /\ scan.classes = (UNION {ClassAt(u, p) : p \in u})
                         \cup (IF \E g \in G : IsLiteral(u, g, enabled) THEN {"DotSegment"} ELSE {})
      /\ scan.earliest = CHOOSE e \in hits \cup {NoOffset} : \A o \in hits : e <= o
      /\ scan.dot_pops = Cardinality({g \in G : Climbs(u, g, enabled)})
  <2>1. scan = [classes  |-> (UNION {ClassAt(u, p) : p \in u})
                             \cup (IF \E g \in G : IsLiteral(u, g, enabled) THEN {"DotSegment"} ELSE {}),
                earliest |-> CHOOSE e \in Hits(v, u, u, G, enabled) \cup {NoOffset} :
                               \A o \in Hits(v, u, u, G, enabled) : e <= o,
                dot_pops |-> Cardinality({g \in G : Climbs(u, g, enabled)})]
    BY <1>1, <1>3, ScanShape
  <2> QED BY <1>2, <2>1
<1>5. \A o \in hits : o \in Nat /\ o < NoOffset
  <2>1. hits \subseteq 1..Len(v.original)
    BY <1>1, <1>2, HitsInside
  <2>2. Len(v.original) \in Nat
    BY DEF WellFormed
  <2> QED BY <2>1, <2>2, NoOffsetAssumption
<1>6. \E e \in hits \cup {NoOffset} : \A o \in hits : e <= o
  <2>1. hits \cup {NoOffset} \in SUBSET Nat /\ hits \cup {NoOffset} # {}
    BY <1>5, NoOffsetAssumption
  <2> QED BY <2>1, LeastNatural
<1>7. scan.earliest \in hits \cup {NoOffset} /\ \A o \in hits : scan.earliest <= o
  BY <1>4, <1>6
<1>8. scan.earliest <= NoOffset
  BY <1>5, <1>7, NoOffsetAssumption
<1>9. IsFiniteSet({g \in G : Climbs(u, g, enabled)})
  BY <1>1, SegmentsFinite, FS_Subset
<1> QED BY <1>1, <1>2, <1>3, <1>4, <1>7, <1>8, <1>9 DEF Tallies

\* Where a scan found an enabled class it reports a position of the request.
Locates(r, enabled) ==
  r.earliest \in 0..NoOffset /\ r.dot_pops \in Nat /\ (r.classes \cap enabled # {} => r.earliest # NoOffset)

LEMMA ScanLocates ==
  ASSUME NEW v, WellFormed(v), Len(v.original) < NoOffset, NEW enabled, NEW enc \in Encodings
  PROVE  Locates(ScanOf(v, enabled, enc), enabled)
<1>1. PICK u : u = Units(v, enc)
  OBVIOUS
<1>2. PICK G : G = AllSegments(u, enabled)
  OBVIOUS
<1>3. PICK hits : hits = Hits(v, u, u, G, enabled)
  OBVIOUS
<1>4. PICK r : r = ScanOf(v, enabled, enc)
  OBVIOUS
<1>5. Tallies(r, v, u, u, G, enabled)
  BY <1>1, <1>2, <1>4, ScanTallies
<1>6. \A o \in hits : o \in Nat /\ o < NoOffset
  <2>1. hits \subseteq 1..Len(v.original)
    BY <1>1, <1>2, <1>3, HitsInside
  <2>2. Len(v.original) \in Nat
    BY DEF WellFormed
  <2> QED BY <2>1, <2>2, NoOffsetAssumption
<1>7. r.earliest \in hits \cup {NoOffset} /\ \A o \in hits : r.earliest <= o
  BY <1>3, <1>5 DEF Tallies
<1>8. r.dot_pops \in Nat
  BY <1>5, FS_CardinalityType DEF Tallies
<1>9. r.classes \cap enabled # {} => hits # {}
  <2>1. SUFFICES ASSUME NEW x \in r.classes, x \in enabled PROVE hits # {}
    OBVIOUS
  <2>2. CASE x \in UNION {ClassAt(u, p) : p \in u}
    <3>1. PICK p \in u : x \in ClassAt(u, p)
      BY <2>2
    <3>2. p \in {q \in u : ClassAt(u, q) \cap enabled # {}}
      BY <2>1, <3>1
    <3> QED BY <1>3, <3>2 DEF Hits
  <2>3. CASE x = "DotSegment" /\ \E g \in G : IsLiteral(u, g, enabled)
    BY <1>3, <2>1, <2>3 DEF Hits
  <2> QED BY <1>5, <2>2, <2>3 DEF Tallies
<1>10. r.earliest \in 0..NoOffset
  BY <1>6, <1>7, NoOffsetAssumption
<1>11. hits # {} => r.earliest # NoOffset
  BY <1>6, <1>7, NoOffsetAssumption
<1> QED BY <1>4, <1>8, <1>9, <1>10, <1>11 DEF Locates

-----------------------------------------------------------------------------
(***************************************************************************)
(* A wider scan finds at least as much.                                    *)
(***************************************************************************)
\* The units at which the bare content of a segment ends.
IsStop(p, enabled) == Separates(p.unit, enabled) \/ Delimits(p.unit, enabled)

LEMMA NeutralIsNothing ==
  ASSUME NEW p, Neutral(p), NEW enabled, NEW after
  PROVE  ~IsStop(p, enabled) /\ ClassOf(p.unit, after) = {} /\ p.unit.byte # Dot /\ p.unit.byte # Slash
BY DEF Neutral, IsStop, Separates, Delimits, ClassOf, Slash, Dot, Semicolon, Hash, Question, Backslash,
       Nul, Uppercase

LEMMA DotsAreContent ==
  ASSUME NEW p, p.unit.byte = Dot, NEW enabled
  PROVE  ~IsStop(p, enabled) /\ ~Neutral(p)
BY DEF Neutral, IsStop, Separates, Delimits, Slash, Dot, Semicolon, Hash, Question, Backslash

LEMMA StopsWiden ==
  ASSUME NEW p, NEW A, NEW B, A \subseteq B
  PROVE  /\ IsStop(p, A) => IsStop(p, B)
         /\ Separates(p.unit, A) => Separates(p.unit, B)
BY DEF IsStop, Separates, Delimits

\* What two readings of the same bytes find: u recognises less than w, A less than B.
Widened(u, w, n, A, B) == Spaced(u, n) /\ Spaced(w, n) /\ Refines(u, w) /\ A \subseteq B

LEMMA ClassesWiden ==
  ASSUME NEW u, NEW w, NEW n \in Nat, NEW A, NEW B, Widened(u, w, n, A, B), NEW p \in u
  PROVE  ClassAt(u, p) # {} => p \in w /\ ClassAt(u, p) \subseteq ClassAt(w, p)
<1>1. CASE Neutral(p)
  BY <1>1, NeutralIsNothing DEF ClassAt
<1>2. CASE ~Neutral(p)
  <2>1. p \in w
    BY <1>2 DEF Widened, Refines
  <2>2. AfterSlash(u, p.at) => AfterSlash(w, p.at)
    <3>1. SUFFICES ASSUME NEW q \in u, q.at + q.unit.width = p.at, q.unit.byte = Slash
                   PROVE  AfterSlash(w, p.at)
      BY DEF AfterSlash
    <3>2. q \in w
      BY <3>1, NeutralIsNothing DEF Widened, Refines
    <3> QED BY <3>1, <3>2 DEF AfterSlash
  <2>3. ASSUME NEW one, NEW two, one => two, one \in BOOLEAN, two \in BOOLEAN
        PROVE  ClassOf(p.unit, one) \subseteq ClassOf(p.unit, two)
    BY <2>3 DEF ClassOf
  <2>4. AfterSlash(u, p.at) \in BOOLEAN /\ AfterSlash(w, p.at) \in BOOLEAN
    BY DEF AfterSlash
  <2> QED BY <2>1, <2>2, <2>3, <2>4 DEF ClassAt
<1> QED BY <1>1, <1>2

LEMMA StartsWiden ==
  ASSUME NEW u, NEW w, NEW n \in Nat, NEW A, NEW B, Widened(u, w, n, A, B)
  PROVE  StartsOf(u, A) \subseteq StartsOf(w, B)
<1>1. ASSUME NEW q \in Separators(u, A) PROVE q \in Separators(w, B)
  <2>1. q \in u /\ Separates(q.unit, A)
    BY DEF Separators
  <2>2. ~Neutral(q)
    BY <2>1, NeutralIsNothing DEF IsStop
  <2>3. q \in w
    BY <2>1, <2>2 DEF Widened, Refines
  <2>4. Separates(q.unit, B)
    BY <2>1, StopsWiden DEF Widened
  <2> QED BY <2>3, <2>4 DEF Separators
<1> QED BY <1>1 DEF StartsOf

\* The bare content of a segment: its units up to the first stop.
BareFrom(u, enabled, s) == {p \in u : p.at >= s /\ ~\E q \in u : IsStop(q, enabled) /\ s <= q.at /\ q.at <= p.at}

LEMMA BareIs ==
  ASSUME NEW u, NEW n \in Nat, Spaced(u, n), NEW enabled, NEW g \in AllSegments(u, enabled)
  PROVE  BareUnits(u, g, enabled) = BareFrom(u, enabled, g.start)
<1>1. PICK s : s = g.start
  OBVIOUS
<1>2. g.content = ContentFrom(u, enabled, s) /\ s \in Nat
  BY <1>1, SegmentStart, StartsPositive
<1>3. \A p \in u : p.at \in Nat
  BY DEF Spaced
<1>4. ASSUME NEW p \in BareUnits(u, g, enabled) PROVE p \in BareFrom(u, enabled, s)
  <2>1. p \in g.content /\ ~\E q \in g.content \cap DelimitersOf(u, enabled) : q.at <= p.at
    BY DEF BareUnits, BareContent
  <2>2. p \in u /\ p.at >= s /\ ~\E q \in Separators(u, enabled) : s <= q.at /\ q.at <= p.at
    BY <1>2, <2>1 DEF ContentFrom
  <2>3. ASSUME NEW q \in u, IsStop(q, enabled), s <= q.at, q.at <= p.at PROVE FALSE
    <3>1. q \notin Separators(u, enabled)
      BY <2>2, <2>3
    <3>2. q \in DelimitersOf(u, enabled)
      BY <2>3, <3>1 DEF IsStop, Separators, DelimitersOf
    <3>3. ~\E r \in Separators(u, enabled) : s <= r.at /\ r.at <= q.at
      BY <1>3, <2>2, <2>3 DEF Separators
    <3>4. q \in g.content
      BY <1>2, <1>3, <2>3, <3>3 DEF ContentFrom
    <3> QED BY <2>1, <2>3, <3>2, <3>4
  <2> QED BY <2>2, <2>3 DEF BareFrom
<1>5. ASSUME NEW p \in BareFrom(u, enabled, s) PROVE p \in BareUnits(u, g, enabled)
  <2>1. p \in u /\ p.at >= s /\ ~\E q \in u : IsStop(q, enabled) /\ s <= q.at /\ q.at <= p.at
    BY DEF BareFrom
  <2>2. p \in g.content
    BY <1>2, <2>1 DEF ContentFrom, Separators, IsStop
  <2>3. ASSUME NEW q \in g.content \cap DelimitersOf(u, enabled), q.at <= p.at PROVE FALSE
    <3>1. q \in u /\ q.at >= s /\ IsStop(q, enabled)
      BY <1>2, <2>3 DEF ContentFrom, DelimitersOf, IsStop
    <3> QED BY <1>2, <1>3, <2>1, <2>3, <3>1
  <2> QED BY <2>2, <2>3 DEF BareUnits, BareContent
<1> QED BY <1>1, <1>4, <1>5

\* A literal dot-segment of the narrower reading is one of the wider.
LEMMA LiteralsWiden ==
  ASSUME NEW u, NEW w, NEW n \in Nat, NEW A, NEW B, Widened(u, w, n, A, B),
         NEW g \in AllSegments(u, A), IsLiteral(u, g, A)
  PROVE  \E h \in AllSegments(w, B) : h.start = g.start /\ IsLiteral(w, h, B)
<1>1. PICK s : s = g.start
  OBVIOUS
<1>2. s \in StartsOf(w, B)
  BY <1>1, SegmentStart, StartsWiden
<1>3. PICK h \in AllSegments(w, B) : h.start = s
  <2>1. [start |-> s, content |-> ContentFrom(w, B, s)] \in AllSegments(w, B)
    BY <1>2, SegmentStart
  <2> QED BY <2>1
<1>4. PICK bare : bare = BareUnits(u, g, A)
  OBVIOUS
<1>5. bare = BareFrom(u, A, s) /\ BareUnits(w, h, B) = BareFrom(w, B, s)
  BY <1>1, <1>3, <1>4, BareIs DEF Widened
<1>6. bare \subseteq Dots(u) /\ Cardinality(bare) \in 1..2
  BY <1>4, Zenon DEF IsLiteral
<1>7. /\ \A p \in u : p.at \in Nat
      /\ \A p \in w : p.at \in Nat
      /\ s \in Nat
  BY <1>1, SegmentStart, StartsPositive DEF Spaced, Widened
<1>8. ASSUME NEW p \in bare PROVE p \in BareFrom(w, B, s) /\ p \in Dots(w)
  <2>1. p \in u /\ p.unit.byte = Dot /\ p.at >= s
    BY <1>5, <1>6 DEF Dots, BareFrom
  <2>2. p \in w
    BY <2>1, DotsAreContent DEF Widened, Refines
  <2>3. ASSUME NEW q \in w, IsStop(q, B), s <= q.at, q.at <= p.at PROVE FALSE
    <3>1. PICK r \in u : r.at = q.at /\ (r = q \/ Neutral(r))
      BY DEF Widened, Refines
    <3>2. r \in bare
      BY <1>5, <1>7, <2>1, <2>3, <3>1 DEF BareFrom
    <3>3. r.unit.byte = Dot
      BY <1>6, <3>2 DEF Dots
    <3> QED BY <2>3, <3>1, <3>3, DotsAreContent
  <2> QED BY <2>1, <2>2, <2>3 DEF BareFrom, Dots
<1>9. ASSUME NEW p \in BareFrom(w, B, s) PROVE p \in bare
  <2>1. p \in w /\ p.at >= s /\ ~\E q \in w : IsStop(q, B) /\ s <= q.at /\ q.at <= p.at
    BY DEF BareFrom
  <2>2. PICK r \in u : r.at = p.at /\ (r = p \/ Neutral(r))
    BY <2>1 DEF Widened, Refines
  <2>3. ASSUME NEW q \in u, IsStop(q, A), s <= q.at, q.at <= r.at PROVE FALSE
    <3>1. q \in w
      BY <2>3, NeutralIsNothing DEF Widened, Refines
    <3>2. IsStop(q, B)
      BY <2>3, StopsWiden DEF Widened
    <3> QED BY <2>1, <2>2, <2>3, <3>1, <3>2
  <2>4. r \in bare
    BY <1>5, <2>1, <2>2, <2>3 DEF BareFrom
  <2>5. r = p
    BY <1>6, <2>2, <2>4, DotsAreContent DEF Dots
  <2> QED BY <2>4, <2>5
<1>10. BareUnits(w, h, B) = bare /\ bare \subseteq Dots(w)
  BY <1>5, <1>8, <1>9
<1> QED BY <1>1, <1>3, <1>6, <1>10, Zenon DEF IsLiteral

\* A climb of the narrower reading is one of the wider, before the next segment of the
\* narrower begins.
Answers(u, A, g, h) ==
  g.start <= h.start /\ \A f \in AllSegments(u, A) : g.start < f.start => h.start < f.start

LEMMA ClimbsWiden ==
  ASSUME NEW u, NEW w, NEW n \in Nat, NEW A, NEW B, Widened(u, w, n, A, B),
         NEW g \in AllSegments(u, A), Climbs(u, g, A)
  PROVE  \E h \in AllSegments(w, B) : Climbs(w, h, B) /\ Answers(u, A, g, h)
<1>1. /\ \A f \in AllSegments(u, A) : f.start \in Nat /\ f.start \in StartsOf(u, A)
      /\ \A f \in AllSegments(w, B) : f.start \in Nat
  BY SegmentStart, StartsPositive DEF Widened
<1>2. CASE IsLiteral(u, g, A)
  <2>1. PICK h \in AllSegments(w, B) : h.start = g.start /\ IsLiteral(w, h, B)
    BY <1>2, LiteralsWiden
  <2>2. Climbs(w, h, B)
    BY <2>1, Zenon DEF Climbs
  <2> QED BY <1>1, <2>1, <2>2 DEF Answers
<1>3. CASE g.content \cap Alternates(u) # {}
  <2>1. PICK p \in g.content : p \in u /\ p.unit.byte = Dot /\ p.unit.encoded
    BY <1>3 DEF Alternates, Dots
  <2>2. PICK s : s = g.start
    OBVIOUS
  <2>3. p.at >= s /\ ~\E q \in Separators(u, A) : s <= q.at /\ q.at <= p.at
    BY <2>1, <2>2, SegmentStart DEF ContentFrom
  <2>4. p \in w /\ p \in Alternates(w)
    BY <2>1, DotsAreContent DEF Widened, Refines, Alternates, Dots
  <2>5. /\ \A q \in u : q.at \in Nat /\ q.unit.width \in 1..4
        /\ \A q \in w : q.at \in Nat /\ q.unit.width \in 1..4
    BY DEF Widened, Spaced
  <2> DEFINE below == {t \in StartsOf(w, B) : t <= p.at}
  <2>6. PICK t \in below : \A k \in below : k <= t
    <3>1. p.at \in Nat /\ below \in SUBSET (1..p.at)
      BY <2>1, <2>5, StartsPositive DEF Widened
    <3>2. s \in below
      BY <1>1, <2>2, <2>3, StartsWiden
    <3> HIDE DEF below
    <3> QED BY <3>1, <3>2, GreatestNatural
  <2>7. PICK h \in AllSegments(w, B) : h.start = t /\ h.content = ContentFrom(w, B, t)
    <3>1. [start |-> t, content |-> ContentFrom(w, B, t)] \in AllSegments(w, B)
      BY SegmentStart
    <3> QED BY <3>1
  <2>8. s <= t /\ t <= p.at /\ s \in Nat /\ t \in Nat
    <3>1. s \in below
      BY <1>1, <2>2, <2>3, StartsWiden
    <3> QED BY <1>1, <2>2, <2>6, <2>7, <3>1
  <2>9. p \in h.content
    <3>1. ASSUME NEW q \in Separators(w, B), t <= q.at, q.at <= p.at PROVE FALSE
      <4>1. q \in w /\ Separates(q.unit, B)
        BY <3>1 DEF Separators
      <4>2. q # p
        BY <2>1, <4>1, DotsAreContent DEF IsStop
      <4>3. q.at # p.at
        BY <2>4, <4>1, <4>2 DEF Widened, Spaced
      <4>4. q.at < p.at
        BY <2>4, <2>5, <3>1, <4>1, <4>3
      <4>5. q.at + q.unit.width <= p.at
        BY <2>4, <4>1, <4>4 DEF Widened, Spaced
      <4>6. q.at + q.unit.width \in below
        BY <3>1, <4>5 DEF StartsOf
      <4> HIDE DEF below
      <4>7. q.at + q.unit.width <= t
        BY <2>6, <4>6
      <4> QED BY <2>5, <2>8, <3>1, <4>1, <4>7
    <3> QED BY <2>4, <2>7, <2>8, <3>1 DEF ContentFrom
  <2>10. ASSUME NEW f \in AllSegments(u, A), s < f.start PROVE t < f.start
    <3>1. f.start # 1
      BY <1>1, <2>2, <2>10, StartsPositive DEF Widened
    <3>2. PICK q \in Separators(u, A) : f.start = q.at + q.unit.width
      BY <1>1, <3>1 DEF StartsOf
    <3>3. q \in u
      BY DEF Separators
    <3>4. s <= q.at
      <4>1. CASE s = 1
        BY <3>3, <4>1 DEF Widened, Spaced
      <4>2. CASE s # 1
        <5>1. PICK r \in Separators(u, A) : s = r.at + r.unit.width
          BY <1>1, <2>2, <4>2 DEF StartsOf
        <5>2. r \in u
          BY DEF Separators
        <5>3. CASE q.at = r.at
          <6>1. q = r
            BY <3>3, <5>2, <5>3 DEF Widened, Spaced
          <6> QED BY <2>8, <2>10, <3>2, <5>1, <6>1
        <5>4. CASE q.at < r.at
          <6>1. q.at + q.unit.width <= r.at
            BY <3>3, <5>2, <5>4 DEF Widened, Spaced
          <6> QED BY <2>5, <2>10, <3>2, <3>3, <5>1, <5>2, <6>1
        <5>5. CASE q.at > r.at
          <6>1. r.at + r.unit.width <= q.at
            BY <2>5, <3>3, <5>2, <5>5 DEF Widened, Spaced
          <6> QED BY <5>1, <6>1
        <5> QED BY <2>5, <3>3, <5>2, <5>3, <5>4, <5>5
      <4> QED BY <4>1, <4>2
    <3>5. ~(q.at <= p.at)
      BY <2>3, <3>4
    <3> QED BY <2>1, <2>5, <2>8, <3>2, <3>3, <3>5
  <2>11. Climbs(w, h, B)
    <3>1. h.content \cap Alternates(w) # {}
      BY <2>4, <2>9
    <3> QED BY <3>1, Zenon DEF Climbs
  <2> QED BY <2>2, <2>7, <2>8, <2>10, <2>11 DEF Answers
<1> QED BY <1>2, <1>3, Zenon DEF Climbs

\* So the wider reading has at least as many climbs.
LEMMA ClimbsCounted ==
  ASSUME NEW u, NEW w, NEW n \in Nat, NEW A, NEW B, Widened(u, w, n, A, B),
         NEW narrow, narrow = {g \in AllSegments(u, A) : Climbs(u, g, A)},
         NEW wide, wide = {h \in AllSegments(w, B) : Climbs(w, h, B)}, IsFiniteSet(wide)
  PROVE  Cardinality(narrow) <= Cardinality(wide)
<1> DEFINE f == [g \in narrow |-> CHOOSE h \in wide : Answers(u, A, g, h)]
<1>1. ASSUME NEW g \in narrow PROVE f[g] \in wide /\ Answers(u, A, g, f[g])
  <2>1. \E h \in wide : Answers(u, A, g, h)
    BY ClimbsWiden, Zenon
  <2> QED BY <2>1
<1>2. ASSUME NEW g \in AllSegments(u, A), NEW h \in AllSegments(u, A), g.start = h.start PROVE g = h
  <2>1. /\ g = [start |-> g.start, content |-> ContentFrom(u, A, g.start)]
        /\ h = [start |-> h.start, content |-> ContentFrom(u, A, h.start)]
    BY SegmentStart
  <2> QED BY <1>2, <2>1
<1>3. /\ \A g \in narrow : g \in AllSegments(u, A) /\ g.start \in Nat
      /\ \A h \in wide : h.start \in Nat
  BY SegmentStart, StartsPositive DEF Widened
<1>4. ASSUME NEW g \in narrow, NEW h \in narrow, g.start < h.start PROVE f[g] # f[h]
  <2>1. f[g].start < h.start /\ h.start <= f[h].start
    <3> HIDE DEF f
    <3> QED BY <1>1, <1>3, <1>4 DEF Answers
  <2>2. f[g].start \in Nat /\ f[h].start \in Nat /\ h.start \in Nat
    BY <1>1, <1>3
  <2> HIDE DEF f
  <2> QED BY <2>1, <2>2
<1> HIDE DEF f
<1>5. ASSUME NEW g \in narrow, NEW h \in narrow, f[g] = f[h] PROVE g = h
  <2>1. g.start \in Nat /\ h.start \in Nat
    BY <1>3
  <2>2. ~(g.start < h.start) /\ ~(h.start < g.start)
    BY <1>4, <1>5
  <2> QED BY <1>2, <1>3, <2>1, <2>2
<1>6. f \in [narrow -> wide]
  <2>1. f = [g \in narrow |-> f[g]]
    BY DEF f
  <2> QED BY <1>1, <2>1
<1>7. f \in Injection(narrow, wide)
  BY <1>5, <1>6 DEF Injection, IsInjective
<1> QED BY <1>7, FS_Injection

\* What a configuration recognises, one that recognises more also finds: no class is
\* lost, the first position does not move back, and no climb is missed.
LEMMA ScanMonotone ==
  ASSUME NEW v, WellFormed(v), Len(v.original) < NoOffset,
         NEW d \in Encodings, NEW e \in Encodings, Widens(d, e), NEW A, NEW B, A \subseteq B
  PROVE  FindsAtLeast(ScanOf(v, B, e), ScanOf(v, A, d))
<1>1. PICK u : u = Units(v, d)
  OBVIOUS
<1>2. PICK w : w = Units(v, e)
  OBVIOUS
<1>3. PICK n \in Nat : n = Len(v.bytes)
  BY DEF WellFormed
<1>4. Widened(u, w, n, A, B)
  BY <1>1, <1>2, <1>3, UnitsSpaced, UnitsWiden DEF Widened
<1>5. PICK less : less = ScanOf(v, A, d)
  OBVIOUS
<1>6. PICK more : more = ScanOf(v, B, e)
  OBVIOUS
<1>7. Tallies(less, v, u, u, AllSegments(u, A), A) /\ Tallies(more, v, w, w, AllSegments(w, B), B)
  BY <1>1, <1>2, <1>5, <1>6, ScanTallies
<1>8. less.classes \subseteq more.classes
  <2>1. SUFFICES ASSUME NEW x \in less.classes PROVE x \in more.classes
    OBVIOUS
  <2>2. CASE x \in UNION {ClassAt(u, p) : p \in u}
    <3>1. PICK p \in u : x \in ClassAt(u, p)
      BY <2>2
    <3>2. p \in w /\ x \in ClassAt(w, p)
      BY <1>4, <3>1, ClassesWiden
    <3> QED BY <1>7, <3>2 DEF Tallies
  <2>3. CASE x = "DotSegment" /\ \E g \in AllSegments(u, A) : IsLiteral(u, g, A)
    <3>1. \E h \in AllSegments(w, B) : IsLiteral(w, h, B)
      BY <1>4, <2>3, LiteralsWiden
    <3> QED BY <1>7, <2>3, <3>1 DEF Tallies
  <2> QED BY <1>7, <2>1, <2>2, <2>3 DEF Tallies
<1>9. Hits(v, u, u, AllSegments(u, A), A) \subseteq Hits(v, w, w, AllSegments(w, B), B)
  <2>1. SUFFICES ASSUME NEW o \in Hits(v, u, u, AllSegments(u, A), A)
                 PROVE  o \in Hits(v, w, w, AllSegments(w, B), B)
    OBVIOUS
  <2>2. CASE \E p \in u : ClassAt(u, p) \cap A # {} /\ o = SourceOffset(v, p.at)
    <3>1. PICK p \in u : ClassAt(u, p) \cap A # {} /\ o = SourceOffset(v, p.at)
      BY <2>2
    <3>2. p \in w /\ ClassAt(u, p) \subseteq ClassAt(w, p) /\ A \subseteq B
      BY <1>4, <3>1, ClassesWiden DEF Widened
    <3>3. ClassAt(w, p) \cap B # {}
      BY <3>1, <3>2
    <3> QED BY <3>1, <3>2, <3>3 DEF Hits
  <2>3. CASE \E g \in AllSegments(u, A) : IsLiteral(u, g, A) /\ "DotSegment" \in A /\ o = SourceOffset(v, g.start)
    <3>1. PICK g \in AllSegments(u, A) : IsLiteral(u, g, A) /\ "DotSegment" \in A /\ o = SourceOffset(v, g.start)
      BY <2>3
    <3>2. PICK h \in AllSegments(w, B) : h.start = g.start /\ IsLiteral(w, h, B)
      BY <1>4, <3>1, LiteralsWiden
    <3> QED BY <3>1, <3>2 DEF Hits
  <2> QED BY <2>1, <2>2, <2>3 DEF Hits
<1>10. more.earliest <= less.earliest
  BY <1>7, <1>9 DEF Tallies
<1>11. less.dot_pops <= more.dot_pops
  BY <1>4, <1>7, ClimbsCounted DEF Tallies
<1> QED BY <1>5, <1>6, <1>8, <1>10, <1>11 DEF FindsAtLeast

\* Joining scans keeps what each of them locates.
LEMMA IncludeLocates ==
  ASSUME NEW r, NEW s, NEW enabled, Locates(r, enabled), Locates(s, enabled)
  PROVE  Locates(Include(r, s), enabled)
BY NoOffsetAssumption DEF Locates, Include, Lesser, Greater

-----------------------------------------------------------------------------
(***************************************************************************)
(* Precedence.                                                             *)
(***************************************************************************)
\* Node m precedes node n by its k-th edge.
PrecedesAt(m, n, k) ==
  /\ k <= Len(m)
  /\ Len(n) >= k - 1
  /\ \A j \in 1..(k - 1) : m[j] = n[j]
  /\ \/ Len(n) = k - 1
     \/ Len(n) >= k /\ m[k] # Star /\ n[k] = Star

\* Among terminals of bounded depth some are best.
LEMMA BestExists ==
  ASSUME NEW S, S # {}, NEW N \in Nat,
         \A t \in S : t.node \in Addresses /\ Len(t.node) <= N
  PROVE  \E t \in S : IsBest(t, S)
<1> DEFINE Unbeaten(t, k) == \A c \in S : \A j \in 1..k : ~PrecedesAt(c.node, t.node, j)
           G == {k \in Nat : \E t \in S : Unbeaten(t, k)}
<1>1. 0 \in G
  OBVIOUS
<1>2. ASSUME NEW k \in G PROVE k + 1 \in G
  <2>0. k \in Nat
    BY <1>2
  <2>1. PICK t \in S : Unbeaten(t, k)
    BY <1>2
  <2> DEFINE Beats == {c \in S : PrecedesAt(c.node, t.node, k + 1)}
             Literal == {c \in Beats : c.node[k + 1] # Star}
  <2>2. CASE Beats = {}
    <3>1. \A c \in S : ~PrecedesAt(c.node, t.node, k + 1)
      BY <2>2
    <3>2. \A j \in 1..(k + 1) : j \in 1..k \/ j = k + 1
      BY <2>0
    <3>3. Unbeaten(t, k + 1)
      BY <2>1, <3>1, <3>2
    <3> QED BY <2>0, <3>3
  <2>3. CASE Beats # {}
    <3> HIDE DEF G
    <3>1. PICK c \in Beats : Literal # {} => c \in Literal
      BY <2>3
    <3>2. /\ c \in S /\ Len(c.node) \in Nat /\ Len(c.node) >= k + 1
          /\ Len(t.node) \in Nat /\ Len(t.node) >= k
          /\ \A j \in 1..k : c.node[j] = t.node[j]
          /\ Len(t.node) = k \/ (Len(t.node) >= k + 1 /\ c.node[k + 1] # Star)
      <4>1. c \in S /\ PrecedesAt(c.node, t.node, k + 1)
        BY <3>1
      <4>2. Len(c.node) \in Nat /\ Len(t.node) \in Nat
        BY <2>1, <4>1 DEF Addresses
      <4> QED BY <2>0, <4>1, <4>2 DEF PrecedesAt
    <3>3. ASSUME NEW e \in S, NEW j \in 1..(k + 1), PrecedesAt(e.node, c.node, j) PROVE FALSE
      <4>1. /\ j <= Len(e.node) /\ Len(e.node) \in Nat
            /\ e.node[j] # Star /\ c.node[j] = Star
            /\ \A i \in 1..(j - 1) : e.node[i] = c.node[i]
        <5>1. Len(e.node) \in Nat
          BY DEF Addresses
        <5> QED BY <2>0, <3>2, <3>3, <5>1 DEF PrecedesAt
      <4>2. \A i \in 1..(j - 1) : e.node[i] = t.node[i]
        BY <2>0, <3>2, <4>1
      <4>3. CASE j <= k
        <5>1. PrecedesAt(e.node, t.node, j)
          BY <2>0, <3>2, <4>1, <4>2, <4>3 DEF PrecedesAt
        <5> QED BY <2>0, <2>1, <4>3, <5>1
      <4>4. CASE j = k + 1
        <5>1. PrecedesAt(e.node, t.node, k + 1)
          BY <2>0, <3>2, <4>1, <4>2, <4>4 DEF PrecedesAt
        <5>2. e \in Literal
          BY <4>1, <4>4, <5>1
        <5> QED BY <3>1, <4>1, <4>4, <5>2
      <4> QED BY <2>0, <4>3, <4>4
    <3>4. Unbeaten(c, k + 1)
      BY <3>3
    <3> QED BY <2>0, <3>2, <3>4 DEF G
  <2> QED BY <2>2, <2>3
<1>3. N \in G
  <2> HIDE DEF G
  <2>1. G \in SUBSET Nat
    BY DEF G
  <2> QED BY <1>1, <1>2, <2>1, EveryNatural
<1>4. PICK t \in S : Unbeaten(t, N)
  BY <1>3
<1>5. ASSUME NEW c \in S, Precedes(c.node, t.node) PROVE FALSE
  <2>1. PICK k \in 1..Len(c.node) : PrecedesAt(c.node, t.node, k)
    BY <1>5 DEF Precedes, PrecedesAt, Addresses
  <2>2. k \in 1..N
    BY <2>1 DEF Addresses
  <2> QED BY <1>4, <2>1, <2>2
<1> QED BY <1>4, <1>5 DEF IsBest

LEMMA PrecedesTransitive ==
  ASSUME NEW m \in Addresses, NEW n \in Addresses, NEW p \in Addresses,
         Precedes(m, n), Precedes(n, p)
  PROVE  Precedes(m, p)
<1>1. Len(m) \in Nat /\ Len(n) \in Nat /\ Len(p) \in Nat
  BY DEF Addresses
<1>2. PICK k \in 1..Len(m) : PrecedesAt(m, n, k)
  BY <1>1 DEF Precedes, PrecedesAt
<1>3. PICK l \in 1..Len(n) : PrecedesAt(n, p, l)
  BY <1>1 DEF Precedes, PrecedesAt
<1>4. CASE k < l
  <2>1. PrecedesAt(m, p, k)
    BY <1>1, <1>2, <1>3, <1>4 DEF PrecedesAt
  <2> QED BY <1>1, <2>1 DEF Precedes, PrecedesAt
<1>5. CASE k >= l
  <2>1. PrecedesAt(m, p, l)
    BY <1>1, <1>2, <1>3, <1>5 DEF PrecedesAt
  <2> QED BY <1>1, <1>5, <2>1 DEF Precedes, PrecedesAt
<1> QED BY <1>1, <1>4, <1>5

\* Of two nodes that fit the same path one precedes the other.
LEMMA PrecedesTotal ==
  ASSUME NEW q \in Seq(Segments \cup {Empty}), NEW m \in Addresses, NEW n \in Addresses,
         Fits(m, q), Fits(n, q), m # n
  PROVE  Precedes(m, n) \/ Precedes(n, m)
<1>1. Len(m) \in Nat /\ Len(n) \in Nat /\ Len(q) \in Nat
  BY DEF Addresses
<1> DEFINE Agree(k) == k \in 1..Len(m) /\ k \in 1..Len(n) /\ m[k] = n[k]
           Apart == {k \in Nat \ {0} : ~Agree(k)}
<1>2. Apart \in SUBSET Nat /\ Apart # {}
  <2>1. Len(m) + 1 \in Apart
    BY <1>1
  <2> QED BY <2>1
<1>3. PICK k \in Apart : \A j \in Apart : k <= j
  <2> HIDE DEF Apart
  <2> QED BY <1>2, LeastNatural
<1>4. k \in Nat \ {0} /\ ~Agree(k) /\ \A j \in 1..(k - 1) : Agree(j)
  <2>1. \A j \in 1..(k - 1) : j \in Nat \ {0} /\ ~(k <= j)
    BY <1>3
  <2> QED BY <1>3, <2>1
<1>5. Len(m) >= k - 1 /\ Len(n) >= k - 1 /\ \A j \in 1..(k - 1) : m[j] = n[j]
  <2>1. k = 1 \/ k - 1 \in 1..(k - 1)
    BY <1>4
  <2> QED BY <1>1, <1>4, <2>1
<1>6. CASE Len(m) = k - 1
  <2>1. Len(n) # k - 1
    BY <1>1, <1>5, <1>6, SeqEqual DEF Addresses
  <2>2. PrecedesAt(n, m, k)
    BY <1>1, <1>4, <1>5, <1>6, <2>1 DEF PrecedesAt
  <2> QED BY <1>1, <1>4, <2>2 DEF Precedes, PrecedesAt
<1>7. CASE Len(n) = k - 1 /\ Len(m) # k - 1
  <2>1. PrecedesAt(m, n, k)
    BY <1>1, <1>4, <1>5, <1>7 DEF PrecedesAt
  <2> QED BY <1>1, <1>4, <2>1 DEF Precedes, PrecedesAt
<1>8. CASE Len(m) >= k /\ Len(n) >= k
  <2>1. m[k] # n[k]
    BY <1>1, <1>4, <1>8
  <2>2. Takes(m[k], q[k]) /\ Takes(n[k], q[k])
    BY <1>1, <1>4, <1>8 DEF Fits
  <2>3. (m[k] # Star /\ n[k] = Star) \/ (m[k] = Star /\ n[k] # Star)
    BY <2>1, <2>2 DEF Takes
  <2>4. PrecedesAt(m, n, k) \/ PrecedesAt(n, m, k)
    BY <1>1, <1>5, <1>8, <2>3 DEF PrecedesAt
  <2> QED BY <1>1, <1>4, <2>4 DEF Precedes, PrecedesAt
<1> QED BY <1>1, <1>4, <1>5, <1>6, <1>7, <1>8

\* A path has at most one best match.
LEMMA BestUnique ==
  ASSUME NEW p \in Paths, NEW S, \A t \in S : t \in Terminals /\ Claims(t, p),
         NEW t, NEW u, IsBest(t, S), IsBest(u, S)
  PROVE  t = u
<1>1. /\ t \in Terminals /\ u \in Terminals /\ Claims(t, p) /\ Claims(u, p)
      /\ ~Precedes(t.node, u.node) /\ ~Precedes(u.node, t.node)
  BY DEF IsBest
<1>2. /\ t = [node |-> t.node, slot |-> t.slot] /\ u = [node |-> u.node, slot |-> u.slot]
      /\ t.node \in Addresses /\ u.node \in Addresses
      /\ Len(t.node) \in Nat /\ Len(u.node) \in Nat /\ Len(p) \in Nat
      /\ p \in Seq(Segments \cup {Empty})
  BY <1>1 DEF Terminals, Addresses, Paths
<1>3. CASE p = Bare
  <2>1. /\ Len(t.node) = 0 /\ Len(u.node) = 0 /\ t.slot = "leaf" /\ u.slot = "leaf"
    BY <1>1, <1>3 DEF Claims
  <2>2. t.node = << >> /\ u.node = << >>
    BY <1>2, <2>1, EmptySeq DEF Addresses
  <2> QED BY <1>2, <2>1, <2>2
<1>4. CASE p # Bare
  <2>1. Fits(t.node, p) /\ Fits(u.node, p)
    BY <1>1, <1>4 DEF Claims
  <2>2. t.node = u.node
    BY <1>1, <1>2, <2>1, PrecedesTotal
  <2>3. t.slot = u.slot
    BY <1>1, <1>2, <1>4, <2>2 DEF Claims, EndsAt, SlashAt, MoreAt
  <2> QED BY <1>2, <2>2, <2>3
<1> QED BY <1>3, <1>4

-----------------------------------------------------------------------------
(***************************************************************************)
(* A path that extends an anchor.                                          *)
(***************************************************************************)
Extended(q, s) == q \o s

\* The anchor's segments come first, and something follows them.
LEMMA ExtendedPath ==
  ASSUME NEW q \in Seq(Segments), NEW s \in Paths
  PROVE  /\ Len(q) \in Nat /\ Len(Extended(q, s)) \in Nat /\ Len(q) < Len(Extended(q, s))
         /\ \A i \in 1..Len(q) : Extended(q, s)[i] = q[i]
         /\ q = << >> => Extended(q, s) = s
         /\ q # << >> => Extended(q, s) # Bare
         /\ Extended(q, s) = Bare => q = << >>
         /\ Extended(q, s) # Bare => ~SlashAt(0, Extended(q, s))
<1> DEFINE T == Segments \cup {Empty}
<1>1. q \in Seq(T) /\ s \in Seq(T) /\ Len(q) \in Nat /\ Len(s) \in Nat \ {0}
  BY EmptySeq DEF Paths
<1>2. /\ q \o s \in Seq(T) /\ Len(q \o s) = Len(q) + Len(s)
      /\ \A i \in 1..Len(q) : (q \o s)[i] = q[i]
  BY <1>1, ConcatProperties
<1>3. q = << >> => q \o s = s
  BY <1>1, ConcatEmptySeq
<1>4. ASSUME q # << >>, q \o s = Bare PROVE FALSE
  <2>1. Len(q) >= 1 /\ Len(q \o s) = 1
    BY <1>1, <1>4, EmptySeq DEF Bare
  <2> QED BY <1>1, <1>2, <2>1
<1>5. ASSUME q \o s # Bare, SlashAt(0, q \o s) PROVE FALSE
  <2>1. Len(q \o s) = 1 /\ (q \o s)[1] = Empty
    BY <1>5 DEF SlashAt
  <2>2. Bare \in Seq(T) /\ Len(Bare) = 1 /\ Bare[1] = Empty
    BY DEF Bare
  <2>3. q \o s = Bare
    BY <1>2, <2>1, <2>2, SeqEqual
  <2> QED BY <1>5, <2>3
<1> QED BY <1>1, <1>2, <1>3, <1>4, <1>5 DEF Extended

\* A node no deeper than the anchor fits the path exactly when it fits the anchor.
LEMMA FitsExtended ==
  ASSUME NEW q \in Seq(Segments), NEW s \in Paths, NEW n \in Addresses, Len(n) <= Len(q)
  PROVE  Fits(n, Extended(q, s)) <=> Fits(n, q)
<1>1. Len(n) \in Nat
  BY DEF Addresses
<1> QED BY <1>1, ExtendedPath DEF Fits

\* A node nothing gets past has a terminal every extension can claim.
LEMMA CompletingClaims ==
  ASSUME NEW v, IsView(v), NEW q \in Seq(Segments), NEW s \in Paths,
         NEW c \in v.nodes, Completes(v, c, q)
  PROVE  \E t \in Candidates(v, Extended(q, s), {}) : t.node = c
<1> DEFINE p == Extended(q, s)
           At(slot) == [node |-> c, slot |-> slot]
<1>1. c \in Addresses /\ Len(c) \in Nat
  BY DEF IsView, Addresses
<1>2. /\ Len(q) \in Nat /\ Len(p) \in Nat /\ Len(q) < Len(p)
      /\ q # << >> => p # Bare /\ Len(q) # 0
      /\ p # Bare => ~SlashAt(0, p)
  BY ExtendedPath, EmptySeq
<1> HIDE DEF p
<1>3. SUFFICES \E slot \in Slots : Has(v, c, slot) /\ Claims(At(slot), p)
  <2>1. PICK slot \in Slots : Has(v, c, slot) /\ Claims(At(slot), p)
    BY <1>3
  <2>2. At(slot) \in Candidates(v, p, {}) /\ At(slot).node = c
    BY <2>1 DEF Candidates, Has
  <2> QED BY <2>2 DEF p
<1>4. Len(c) <= Len(q) /\ Fits(c, p)
  <2>1. Len(c) <= Len(q) /\ Fits(c, q)
    BY <1>1, <1>2 DEF Completes, Shallow, Deep
  <2> QED BY <1>1, <2>1, FitsExtended DEF p
<1>5. CASE Shallow(c, q)
  <2>1. MoreAt(Len(c), p) /\ p # Bare
    BY <1>1, <1>2, <1>5, EmptySeq DEF Shallow, MoreAt, SlashAt
  <2> QED BY <1>4, <2>1 DEF Claims, Completes, Slots
<1>6. CASE Deep(c, q) /\ q # << >>
  <2>1. Len(c) = Len(q) /\ Len(c) # 0 /\ p # Bare
    BY <1>2, <1>6 DEF Deep
  <2>2. Has(v, c, "catchall") /\ Has(v, c, "leaf_slash")
    BY <1>1, <1>6, <2>1 DEF Completes, Shallow
  <2>3. CASE SlashAt(Len(c), p)
    BY <1>4, <2>1, <2>2, <2>3 DEF Claims, Slots
  <2>4. CASE ~SlashAt(Len(c), p)
    <3>1. MoreAt(Len(c), p)
      BY <1>1, <1>2, <2>1, <2>4 DEF MoreAt
    <3> QED BY <1>4, <2>1, <2>2, <3>1 DEF Claims, Slots
  <2> QED BY <2>3, <2>4
<1>7. CASE Deep(c, q) /\ q = << >>
  <2>1. Len(c) = 0 /\ Has(v, c, "catchall") /\ Has(v, c, "leaf")
    BY <1>1, <1>7, EmptySeq DEF Completes, Shallow, Deep
  <2>2. CASE p = Bare
    BY <2>1, <2>2 DEF Claims, Slots
  <2>3. CASE p # Bare
    <3>1. MoreAt(0, p)
      BY <1>2, <2>3 DEF MoreAt
    <3> QED BY <1>4, <2>1, <2>3, <3>1 DEF Claims, Slots
  <2> QED BY <2>2, <2>3
<1> QED BY <1>5, <1>6, <1>7 DEF Completes

\* The candidates of a path lie no deeper than the path is long.
LEMMA CandidatesBounded ==
  ASSUME NEW v, IsView(v), NEW p \in Paths, NEW ign, NEW t \in Candidates(v, p, ign)
  PROVE  t.node \in Addresses /\ t.node \in v.nodes /\ Len(t.node) <= Len(p)
         /\ t \in DOMAIN v.rule /\ t.slot \in Slots
         /\ t = [node |-> t.node, slot |-> t.slot]
<1>1. t \in Terminals /\ t.node \in v.nodes /\ t \in DOMAIN v.rule /\ Claims(t, p)
  BY DEF Candidates, IsView
<1>2. Len(p) \in Nat /\ (p = Bare => Len(p) = 1)
  BY DEF Paths, Bare
<1>3. Len(t.node) <= Len(p)
  BY <1>1, <1>2 DEF Claims, Fits
<1> QED BY <1>1, <1>3 DEF Terminals

\* Where anything matches, RuleOf is the rule of a best match.
LEMMA RuleOfBest ==
  ASSUME NEW v, IsView(v), NEW p \in Paths, Candidates(v, p, {}) # {}
  PROVE  \E t \in Candidates(v, p, {}) : /\ IsBest(t, Candidates(v, p, {}))
                                        /\ RuleOf(v, p) = v.rule[t]
<1> DEFINE C == Candidates(v, p, {})
<1>1. Len(p) \in Nat
  BY DEF Paths
<1>2. \A t \in C : t.node \in Addresses /\ Len(t.node) <= Len(p)
  BY CandidatesBounded
<1>3. \E t \in C : IsBest(t, C)
  <2> HIDE DEF C
  <2> QED BY <1>1, <1>2, BestExists DEF C
<1> QED BY <1>3 DEF RuleOf

-----------------------------------------------------------------------------
\* The rule of a best match is one of the anchor's: a match above the anchor is a
\* catch-all, a match below it lies in the subtree of a node at its depth, and no node
\* that completes the walk precedes either.
LEMMA BestIsCovered ==
  ASSUME NEW v, IsView(v), NEW q \in Seq(Segments), NEW s \in Paths,
         NEW t, IsBest(t, Candidates(v, Extended(q, s), {})), Extended(q, s) \in Paths
  PROVE  v.rule[t] \in AnchorIds(v, q)
<1> DEFINE p == Extended(q, s)
           C == Candidates(v, p, {})
<1>1. /\ Len(q) \in Nat /\ Len(p) \in Nat /\ Len(q) < Len(p)
      /\ \A i \in 1..Len(q) : p[i] = q[i]
      /\ q # << >> => p # Bare /\ Len(q) # 0
      /\ q = << >> => Len(q) = 0
  BY ExtendedPath, EmptySeq
<1>2. t \in C /\ \A c \in C : ~Precedes(c.node, t.node)
  BY DEF IsBest
<1>3. /\ t.node \in Addresses /\ t.node \in v.nodes /\ Len(t.node) \in Nat
      /\ t \in DOMAIN v.rule /\ t.slot \in Slots /\ t = [node |-> t.node, slot |-> t.slot]
  BY <1>2, CandidatesBounded DEF Addresses
<1>4. Claims(t, p)
  BY <1>2 DEF Candidates
<1>5. \A c \in v.nodes : Completes(v, c, q) => ~Precedes(c, t.node)
  BY <1>2, CompletingClaims
<1> HIDE DEF p, C
<1>6. CASE Len(t.node) < Len(q)
  <2>1. p # Bare /\ Fits(t.node, p) /\ ~EndsAt(Len(t.node), p) /\ ~SlashAt(Len(t.node), p)
    BY <1>1, <1>3, <1>4, <1>6 DEF Claims, EndsAt, SlashAt
  <2>2. t.slot = "catchall"
    BY <1>4, <2>1 DEF Claims
  <2>3. Shallow(t.node, q)
    BY <1>3, <1>6, <2>1, FitsExtended DEF Shallow, p
  <2>4. Live(v, t.node, q) /\ Has(v, t.node, "catchall")
    BY <1>3, <1>5, <2>2 DEF Live, Has
  <2> QED BY <1>3, <2>2, <2>3, <2>4 DEF AnchorIds
<1>7. CASE Len(t.node) >= Len(q)
  <2> DEFINE n == SubSeq(t.node, 1, Len(q))
  <2>1. n \in v.nodes
    BY <1>1, <1>3, <1>7 DEF IsView
  <2>2. n \in Addresses /\ Len(n) = Len(q) /\ \A i \in 1..Len(q) : n[i] = t.node[i]
    BY <1>1, <1>3, <1>7 DEF Addresses
  <2> HIDE DEF n
  <2>3. Deep(n, q)
    <3>1. CASE q = << >>
      BY <1>1, <2>2, <3>1 DEF Deep, Fits
    <3>2. CASE q # << >>
      <4>1. Fits(t.node, p)
        BY <1>1, <1>4, <3>2 DEF Claims
      <4>2. \A i \in 1..Len(q) : Takes(n[i], q[i])
        BY <1>1, <1>3, <1>7, <2>2, <4>1 DEF Fits
      <4> QED BY <1>1, <2>2, <4>2 DEF Deep, Fits
    <3> QED BY <3>1, <3>2
  <2>4. Live(v, n, q)
    <3>1. SUFFICES ASSUME NEW c \in v.nodes, Completes(v, c, q), Precedes(c, n) PROVE FALSE
      BY DEF Live
    <3>2. c \in Addresses /\ Len(c) \in Nat /\ Len(c) <= Len(q)
      <4>1. c \in Addresses /\ Len(c) \in Nat
        BY DEF IsView, Addresses
      <4> QED BY <1>1, <3>1, <4>1 DEF Completes, Shallow, Deep
    <3>3. PICK k \in 1..Len(c) :
            /\ Len(n) >= k - 1
            /\ \A j \in 1..(k - 1) : c[j] = n[j]
            /\ Len(n) = k - 1 \/ (Len(n) >= k /\ c[k] # Star /\ n[k] = Star)
      BY <3>1 DEF Precedes
    <3>4. k \in 1..Len(q) /\ Len(t.node) >= k
      BY <1>1, <1>3, <1>7, <3>2
    <3>5. Len(n) >= k /\ \A j \in 1..k : n[j] = t.node[j]
      BY <1>1, <2>2, <3>4
    <3>6. /\ Len(t.node) >= k - 1
          /\ \A j \in 1..(k - 1) : c[j] = t.node[j]
          /\ Len(t.node) >= k /\ c[k] # Star /\ t.node[k] = Star
      BY <1>1, <1>3, <2>2, <3>3, <3>4, <3>5
    <3>7. Precedes(c, t.node)
      BY <3>6 DEF Precedes
    <3> QED BY <1>5, <3>1, <3>7
  <2>5. q # << >> => t # [node |-> n, slot |-> "leaf"]
    <3>1. SUFFICES ASSUME q # << >>, t.node = n, t.slot = "leaf" PROVE FALSE
      OBVIOUS
    <3>2. EndsAt(Len(n), p)
      BY <1>1, <1>4, <3>1 DEF Claims
    <3> QED BY <1>1, <2>2, <3>2 DEF EndsAt
  <2>6. v.rule[t] \in Identities(v, n, q = << >>)
    BY <1>3, <1>7, <2>2, <2>5 DEF Identities, n
  <2> QED BY <2>1, <2>3, <2>4, <2>6 DEF AnchorIds
<1> QED BY <1>1, <1>3, <1>6, <1>7

\* Whatever is appended to an anchor, the rule the path resolves to, backtracking and
\* fall-through to the default rule included, is one of the anchor's.
THEOREM ContinuationCovered ==
  ASSUME NEW v, IsView(v), NEW q \in Seq(Segments), NEW s \in Paths
  PROVE  RuleOf(v, q \o s) \in AnchorIds(v, q)
<1> DEFINE p == Extended(q, s)
           C == Candidates(v, p, {})
<1>1. p \in Paths
  <2>1. q \o s \in Seq(Segments \cup {Empty})
    BY ConcatProperties DEF Paths
  <2>2. Len(q \o s) # 0
    BY ExtendedPath DEF Extended
  <2> QED BY <2>1, <2>2, EmptySeq DEF Paths, Extended
<1>2. CASE C = {}
  <2>1. \A n \in v.nodes : ~Completes(v, n, q)
    BY <1>2, CompletingClaims
  <2>2. RuleOf(v, p) = DEFAULT_RULE
    BY <1>2 DEF RuleOf
  <2> QED BY <2>1, <2>2 DEF AnchorIds, Extended
<1>3. CASE C # {}
  <2>1. PICK t \in C : IsBest(t, C) /\ RuleOf(v, p) = v.rule[t]
    BY <1>1, <1>3, RuleOfBest
  <2> QED BY <1>1, <2>1, BestIsCovered DEF Extended
<1> QED BY <1>2, <1>3

\* No anchor is without a rule: of the nodes that complete the walk one is live.
LEMMA AnchorIdsNonempty ==
  ASSUME NEW v, IsView(v), NEW q, Len(q) \in Nat
  PROVE  AnchorIds(v, q) # {}
<1> DEFINE completing == {[node |-> n] : n \in {m \in v.nodes : Completes(v, m, q)}}
<1>1. CASE completing = {}
  BY <1>1 DEF AnchorIds
<1>2. CASE completing # {}
  <2>1. \A t \in completing : /\ t.node \in v.nodes /\ Completes(v, t.node, q)
                              /\ t.node \in Addresses /\ Len(t.node) <= Len(q)
    <3>1. ASSUME NEW n \in v.nodes, Completes(v, n, q)
          PROVE  n \in Addresses /\ Len(n) \in Nat /\ Len(n) <= Len(q)
      <4>1. n \in Addresses /\ Len(n) \in Nat
        BY DEF IsView, Addresses
      <4> QED BY <3>1, <4>1 DEF Completes, Shallow, Deep
    <3> QED BY <3>1
  <2>2. \A n \in v.nodes : Completes(v, n, q) => \E t \in completing : t.node = n
    <3>1. \A n \in v.nodes : Completes(v, n, q) => [node |-> n] \in completing
      OBVIOUS
    <3> HIDE DEF completing
    <3> QED BY <3>1
  <2> HIDE DEF completing
  <2>3. PICK t \in completing : IsBest(t, completing)
    BY <1>2, <2>1, BestExists
  <2>4. PICK n : n = t.node
    OBVIOUS
  <2>5. n \in v.nodes /\ Completes(v, n, q) /\ Len(n) \in Nat
    BY <2>1, <2>4 DEF Addresses
  <2>6. Live(v, n, q)
    BY <2>2, <2>3, <2>4 DEF Live, IsBest
  <2> DEFINE t0 == [node |-> n, slot |-> "catchall"]
  <2>7. t0 \in DOMAIN v.rule
    BY <2>5 DEF Completes, Has
  <2>8. CASE Shallow(n, q)
    <3>1. Has(v, n, "catchall")
      BY <2>7 DEF Has
    <3> DEFINE tails == {v.rule[[node |-> m, slot |-> "catchall"]] :
                           m \in {m \in {k \in v.nodes : Live(v, k, q)} : Shallow(m, q) /\ Has(v, m, "catchall")}}
    <3>2. v.rule[t0] \in tails
      BY <2>5, <2>6, <2>8, <3>1
    <3>3. tails \subseteq AnchorIds(v, q)
      BY DEF AnchorIds
    <3> HIDE DEF tails
    <3> QED BY <3>2, <3>3
  <2>9. CASE Deep(n, q)
    <3>1. SubSeq(n, 1, Len(n)) = n
      <4>1. n \in Seq(Segments \cup {Star})
        <5>1. v.nodes \subseteq Addresses
          BY DEF IsView
        <5> QED BY <2>5, <5>1 DEF Addresses
      <4> QED BY <4>1, SubSeqFull
    <3>2. v.rule[t0] \in Identities(v, n, q = << >>)
      BY <2>5, <2>7, <3>1 DEF Identities
    <3> QED BY <2>5, <2>6, <2>9, <3>2 DEF AnchorIds
  <2> QED BY <2>5, <2>8, <2>9 DEF Completes
<1> QED BY <1>1, <1>2

-----------------------------------------------------------------------------
(***************************************************************************)
(* The rules of an anchor, one node at a time: what a walk along the       *)
(* anchor adds up.                                                         *)
(***************************************************************************)
Along(v, q) == {m \in v.nodes : Fits(m, q)}

\* What a node along the anchor contributes: at the anchor's depth its subtree, above
\* it its catch-all.
Contribution(v, q, m) ==
  IF Len(m) = Len(q) THEN Identities(v, m, q = << >>)
  ELSE IF Has(v, m, "catchall") THEN {v.rule[[node |-> m, slot |-> "catchall"]]} ELSE {}

RulesAt(v, q, S) == UNION {Contribution(v, q, m) : m \in S}

\* The anchor's rules are what its live nodes contribute, and the default rule.
LEMMA AnchorIdsGathered ==
  ASSUME NEW v, IsView(v), NEW q \in Seq(Segments)
  PROVE  AnchorIds(v, q) =
           RulesAt(v, q, {m \in Along(v, q) : Live(v, m, q)})
             \cup (IF \E n \in v.nodes : Completes(v, n, q) THEN {} ELSE {DEFAULT_RULE})
<1> DEFINE live == {m \in Along(v, q) : Live(v, m, q)}
           deep == {n \in {n \in v.nodes : Live(v, n, q)} : Deep(n, q)}
           shallow == {n \in {n \in v.nodes : Live(v, n, q)} :
                         Shallow(n, q) /\ Has(v, n, "catchall")}
           subtrees == UNION {Identities(v, n, q = << >>) : n \in deep}
           catchalls == {v.rule[[node |-> n, slot |-> "catchall"]] : n \in shallow}
<1>1. \A n \in v.nodes : Len(n) \in Nat /\ Len(q) \in Nat
  BY DEF IsView, Addresses
<1>2. ASSUME NEW r \in subtrees PROVE r \in RulesAt(v, q, live)
  <2>1. PICK n \in deep : r \in Identities(v, n, q = << >>)
    OBVIOUS
  <2>2. n \in live /\ r \in Contribution(v, q, n)
    BY <2>1 DEF Along, Deep, Contribution
  <2> HIDE DEF live
  <2> QED BY <2>2 DEF RulesAt
<1>3. ASSUME NEW r \in catchalls PROVE r \in RulesAt(v, q, live)
  <2>1. PICK n \in shallow : r = v.rule[[node |-> n, slot |-> "catchall"]]
    OBVIOUS
  <2>2. n \in live /\ r \in Contribution(v, q, n)
    BY <1>1, <2>1 DEF Along, Shallow, Contribution
  <2> HIDE DEF live
  <2> QED BY <2>2 DEF RulesAt
<1>4. ASSUME NEW r \in RulesAt(v, q, live) PROVE r \in subtrees \cup catchalls
  <2>1. PICK n \in live : r \in Contribution(v, q, n)
    BY <1>4 DEF RulesAt
  <2>2. n \in v.nodes /\ Fits(n, q) /\ Live(v, n, q)
    BY DEF Along
  <2>3. CASE Len(n) = Len(q)
    <3>1. n \in deep /\ r \in Identities(v, n, q = << >>)
      BY <2>1, <2>2, <2>3 DEF Contribution, Deep
    <3> HIDE DEF deep
    <3> QED BY <3>1
  <2>4. CASE Len(n) # Len(q)
    <3>1. n \in shallow /\ r = v.rule[[node |-> n, slot |-> "catchall"]]
      BY <1>1, <2>1, <2>2, <2>4 DEF Contribution, Shallow, Fits
    <3> HIDE DEF shallow
    <3> QED BY <3>1
  <2> QED BY <2>3, <2>4
<1>5. AnchorIds(v, q) =
        (subtrees \cup catchalls)
          \cup (IF \E n \in v.nodes : Completes(v, n, q) THEN {} ELSE {DEFAULT_RULE})
  BY DEF AnchorIds
<1>6. subtrees \cup catchalls = RulesAt(v, q, live)
  <2> HIDE DEF subtrees, catchalls, live
  <2> QED BY <1>2, <1>3, <1>4
<1> QED BY <1>5, <1>6

LEMMA GatherOne ==
  ASSUME NEW v, NEW q, NEW S, NEW c
  PROVE  RulesAt(v, q, S \cup {c}) = RulesAt(v, q, S) \cup Contribution(v, q, c)
BY DEF RulesAt

\* Where a node completes the walk and none before it does, the live nodes are those
\* before it and the node itself.
LEMMA CompleteIds ==
  ASSUME NEW v, IsView(v), NEW q \in Seq(Segments), NEW c \in v.nodes, Completes(v, c, q),
         \A m \in Along(v, q) : Precedes(m, c) => ~Completes(v, m, q)
  PROVE  AnchorIds(v, q) =
           RulesAt(v, q, {m \in Along(v, q) : Precedes(m, c)}) \cup Contribution(v, q, c)
<1> DEFINE before == {m \in Along(v, q) : Precedes(m, c)}
           live == {m \in Along(v, q) : Live(v, m, q)}
<1>1. \A n \in v.nodes : Completes(v, n, q) => n \in Along(v, q)
  BY DEF Completes, Shallow, Deep, Along
<1>2. \A n \in Along(v, q) : n \in Addresses /\ Fits(n, q) /\ n \in v.nodes
  BY DEF Along, IsView
<1>3. ASSUME NEW m \in before \cup {c} PROVE m \in live
  <2>1. m \in Along(v, q)
    BY <1>1
  <2>2. SUFFICES ASSUME NEW d \in v.nodes, Completes(v, d, q), Precedes(d, m) PROVE FALSE
    BY <2>1 DEF Live
  <2>3. Precedes(d, c)
    <3>1. m = c \/ Precedes(m, c)
      OBVIOUS
    <3> QED BY <1>1, <1>2, <2>1, <2>2, <3>1, PrecedesTransitive
  <2> QED BY <1>1, <2>2, <2>3
<1>4. ASSUME NEW m \in live PROVE m \in before \cup {c}
  <2>1. ~Precedes(c, m)
    BY DEF Live
  <2>2. q \in Seq(Segments \cup {Empty})
    OBVIOUS
  <2> QED BY <1>1, <1>2, <2>1, <2>2, PrecedesTotal
<1>5. live = before \cup {c}
  <2> HIDE DEF live, before
  <2> QED BY <1>3, <1>4
<1>6. AnchorIds(v, q) = RulesAt(v, q, live)
  BY AnchorIdsGathered
<1> HIDE DEF live, before
<1>7. RulesAt(v, q, before \cup {c}) = RulesAt(v, q, before) \cup Contribution(v, q, c)
  BY GatherOne
<1> QED BY <1>5, <1>6, <1>7 DEF before

\* Where none does, every node along the anchor is live.
LEMMA OpenIds ==
  ASSUME NEW v, IsView(v), NEW q \in Seq(Segments), \A m \in v.nodes : ~Completes(v, m, q)
  PROVE  AnchorIds(v, q) = RulesAt(v, q, Along(v, q)) \cup {DEFAULT_RULE}
<1>1. {m \in Along(v, q) : Live(v, m, q)} = Along(v, q)
  BY DEF Live
<1> QED BY <1>1, AnchorIdsGathered

-----------------------------------------------------------------------------
\* Joining is a recursion over at most three interpretations, so its equation has a
\* solution, which can be written down.
LEMMA JoinedUnfolds ==
  ASSUME NEW views, NEW enabled, NEW enc, Len(views) \in 1..3
  PROVE  LET joined == Joined(views, enabled, enc)
         IN  joined = [k \in 0..Len(views) |->
               IF k = 0 THEN EmptyResult ELSE Include(joined[k - 1], ScanOf(views[k], enabled, enc))]
<1> DEFINE R(g) == [k \in 0..Len(views) |->
               IF k = 0 THEN EmptyResult ELSE Include(g[k - 1], ScanOf(views[k], enabled, enc))]
           first  == Include(EmptyResult, ScanOf(views[1], enabled, enc))
           second == Include(first, ScanOf(views[2], enabled, enc))
           third  == Include(second, ScanOf(views[3], enabled, enc))
           w == [k \in 0..Len(views) |->
               IF k = 0 THEN EmptyResult ELSE IF k = 1 THEN first ELSE IF k = 2 THEN second ELSE third]
<1> HIDE DEF first, second, third
<1>1. w = R(w)
  BY DEF first, second, third
<1>2. \E g : g = R(g)
  BY <1>1
<1>3. Joined(views, enabled, enc) = CHOOSE g : g = R(g)
  BY DEF Joined
<1> QED BY <1>2, <1>3

LEMMA JoinedStep ==
  ASSUME NEW views, NEW enabled, NEW enc, Len(views) \in 1..3,
         NEW k \in 0..(Len(views) - 1)
  PROVE  Joined(views, enabled, enc)[k + 1] =
           Include(Joined(views, enabled, enc)[k], ScanOf(views[k + 1], enabled, enc))
<1> DEFINE j == Joined(views, enabled, enc)
<1>1. j = [i \in 0..Len(views) |->
            IF i = 0 THEN EmptyResult ELSE Include(j[i - 1], ScanOf(views[i], enabled, enc))]
  BY JoinedUnfolds
<1> HIDE DEF j
<1>2. k + 1 \in 0..Len(views) /\ k + 1 # 0 /\ (k + 1) - 1 = k
  OBVIOUS
<1>3. j[k + 1] = Include(j[(k + 1) - 1], ScanOf(views[k + 1], enabled, enc))
  BY <1>1, <1>2
<1> QED BY <1>2, <1>3 DEF j

\* The first interpretation is the request itself; the others are decoded, and exist
\* only if there is something to decode.
Shaped(views, b) ==
  /\ Len(views) \in 1..3
  /\ DOMAIN views = 1..Len(views)
  /\ views[1] = Original(b)
  /\ \A k \in 2..Len(views) :
       /\ views[k].decoded = TRUE
       /\ HasEscape(b)
       /\ views[k].bytes = [i \in DOMAIN views[k].bytes |-> views[k].bytes[i]]

LEMMA ViewsShape ==
  ASSUME NEW b, NEW two
  PROVE  Shaped(Interpretations(b, two), b)
<1> DEFINE raw   == Original(b)
           once  == Decode(raw)
           twice == Decode(once)
<1>1. \A v : /\ Decode(v).decoded = TRUE
             /\ Decode(v).bytes = [i \in DOMAIN Decode(v).bytes |-> Decode(v).bytes[i]]
  BY DEF Decode
<1>2. /\ once.decoded = TRUE /\ once.bytes = [i \in DOMAIN once.bytes |-> once.bytes[i]]
      /\ twice.decoded = TRUE /\ twice.bytes = [i \in DOMAIN twice.bytes |-> twice.bytes[i]]
  BY <1>1
<1> HIDE DEF raw, once, twice
<1>3. Interpretations(b, two) = IF ~HasEscape(b) THEN <<raw>>
                                ELSE IF ~two \/ ~HasEscape(once.bytes) THEN <<raw, once>>
                                ELSE <<raw, once, twice>>
  BY DEF Interpretations, raw, once, twice
<1>4. CASE ~HasEscape(b)
  <2>1. Interpretations(b, two) = <<raw>>
    BY <1>3, <1>4
  <2> QED BY <2>1 DEF raw, Shaped
<1>5. CASE HasEscape(b) /\ (~two \/ ~HasEscape(once.bytes))
  <2>1. Interpretations(b, two) = <<raw, once>>
    BY <1>3, <1>5
  <2>2. Interpretations(b, two)[2] = once /\ Len(Interpretations(b, two)) = 2
    BY <2>1
  <2> QED BY <1>2, <1>5, <2>1, <2>2 DEF raw, Shaped
<1>6. CASE HasEscape(b) /\ ~(~two \/ ~HasEscape(once.bytes))
  <2>1. Interpretations(b, two) = <<raw, once, twice>>
    BY <1>3, <1>6
  <2>2. /\ Interpretations(b, two)[2] = once /\ Interpretations(b, two)[3] = twice
        /\ Len(Interpretations(b, two)) = 3
    BY <2>1
  <2> QED BY <1>2, <1>6, <2>1, <2>2 DEF raw, Shaped
<1> QED BY <1>4, <1>5, <1>6

LEMMA EscapesHavePercent ==
  ASSUME NEW b \in Seq(Byte), HasEscape(b)
  PROVE  \E i \in DOMAIN b : b[i] = PercentSign
BY DEF HasEscape, EscapeAt

\* Folding leaves a spelling without uppercase as it is.
LEMMA FoldingIsIdle ==
  ASSUME NEW b, b = [i \in DOMAIN b |-> b[i]], ~HasUppercase(b)
  PROVE  Lowered(b) = b
<1>1. \A i \in DOMAIN b : Lower(b[i]) = b[i]
  BY DEF HasUppercase, Lower
<1>2. Lowered(b) = [i \in DOMAIN b |-> b[i]]
  BY <1>1 DEF Lowered
<1> QED BY <1>2

-----------------------------------------------------------------------------
(***************************************************************************)
(* The anchor of a path is a path, whatever was found in it.               *)
(***************************************************************************)
LEMMA StablePrefixIsPath ==
  ASSUME NEW b \in Seq(Byte), NEW o
  PROVE  StablePrefix(b, o) \in Seq(Byte)
<1> DEFINE slashes == {i \in DOMAIN b : i < o /\ b[i] = Slash}
<1>1. <<Slash>> \in Seq(Byte)
  BY DEF Slash, Byte
<1>2. CASE slashes # {}
  <2>1. Len(b) \in Nat /\ slashes \in SUBSET (1..Len(b))
    OBVIOUS
  <2> HIDE DEF slashes
  <2>2. PICK last : last = CHOOSE i \in slashes : \A j \in slashes : j <= i
    OBVIOUS
  <2>3. last \in slashes
    BY <1>2, <2>1, <2>2, GreatestNatural
  <2>4. StablePrefix(b, o) = SubSeq(b, 1, last)
    BY <1>2, <2>2 DEF StablePrefix, slashes
  <2> QED BY <2>1, <2>3, <2>4
<1> QED BY <1>1, <1>2 DEF StablePrefix

LEMMA RaisedIsPath ==
  ASSUME NEW p \in Seq(Byte), NEW k \in Nat
  PROVE  Raise(p, k) \in Seq(Byte)
<1>1. PICK s : s = InOrder({i \in 1..Len(p) : p[i] = Slash}, Len(p))
  OBVIOUS
<1>2. s \in Seq(Nat) /\ Len(p) \in Nat /\ \A i \in 1..Len(s) : s[i] \in 1..Len(p)
  BY <1>1, InOrderIs DEF IsInOrder
<1>3. Raise(p, k) = IF k >= Len(s) THEN <<Slash>> ELSE SubSeq(p, 1, s[Len(s) - k])
  BY <1>1 DEF Raise
<1>4. CASE k >= Len(s)
  <2>1. <<Slash>> \in Seq(Byte)
    BY DEF Slash, Byte
  <2> QED BY <1>3, <1>4, <2>1
<1>5. CASE ~(k >= Len(s))
  <2>1. Len(s) - k \in 1..Len(s)
    BY <1>2, <1>5
  <2> QED BY <1>2, <1>3, <1>5, <2>1
<1> QED BY <1>4, <1>5

LEMMA AnchorSegmentsSequence ==
  ASSUME NEW p \in Seq(Byte)
  PROVE  /\ Len(AnchorSegments(p)) \in Nat
         /\ AnchorSegments(p) = [k \in 1..Len(AnchorSegments(p)) |-> AnchorSegments(p)[k]]
         /\ AnchorSegments(p) = << >> <=> Len(AnchorSegments(p)) = 0
<1>1. PICK s : s = InOrder({i \in 1..Len(p) : p[i] = Slash}, Len(p))
  OBVIOUS
<1>2. Len(p) \in Nat /\ Len(s) \in Nat
  BY <1>1, InOrderIs DEF IsInOrder
<1>3. PICK all : all = PathOf(p)
  OBVIOUS
<1>4. Len(all) = Len(s)
  BY <1>1, <1>2, <1>3 DEF PathOf
<1>5. PICK kept : kept = InOrder({k \in DOMAIN all : all[k] # Empty}, Len(all))
  OBVIOUS
<1>6. kept \in Seq(Nat)
  BY <1>2, <1>4, <1>5, InOrderIs DEF IsInOrder
<1>7. AnchorSegments(p) = [k \in DOMAIN kept |-> all[kept[k]]]
  BY <1>3, <1>5 DEF AnchorSegments
<1> QED BY <1>6, <1>7


-----------------------------------------------------------------------------
(***************************************************************************)
(* Numbers in order: a list depends on what the set holds up to its bound, *)
(* and grows at its end.                                                   *)
(***************************************************************************)
LEMMA InOrderAgree ==
  ASSUME NEW S, NEW T, NEW n \in Nat, \A i \in 1..n : i \in S <=> i \in T
  PROVE  InOrder(S, n) = InOrder(T, n)
<1> DEFINE G == {k \in Nat : k <= n => InOrder(S, k) = InOrder(T, k)}
<1>1. 0 \in G
  BY InOrderStep
<1>2. ASSUME NEW k \in G PROVE k + 1 \in G
  <2>1. k \in Nat /\ (k <= n => InOrder(S, k) = InOrder(T, k))
    OBVIOUS
  <2>2. /\ InOrder(S, k + 1) = IF k + 1 \in S THEN Append(InOrder(S, k), k + 1) ELSE InOrder(S, k)
        /\ InOrder(T, k + 1) = IF k + 1 \in T THEN Append(InOrder(T, k), k + 1) ELSE InOrder(T, k)
    BY <2>1, InOrderStep
  <2>3. k + 1 <= n => k <= n /\ (k + 1 \in S <=> k + 1 \in T)
    BY <2>1
  <2>4. k + 1 <= n => InOrder(S, k + 1) = InOrder(T, k + 1)
    BY <2>1, <2>2, <2>3
  <2> QED BY <2>1, <2>4
<1>3. G = Nat
  <2> HIDE DEF G
  <2>1. G \in SUBSET Nat
    BY DEF G
  <2> QED BY <1>1, <1>2, <2>1, EveryNatural
<1>4. n \in G
  BY <1>3
<1> QED BY <1>4

\* One list begins with the other.
Begins(q, m) == /\ Len(q) \in Nat /\ Len(m) \in Nat /\ Len(q) <= Len(m)
                /\ \A k \in 1..Len(q) : q[k] = m[k]

LEMMA InOrderGrows ==
  ASSUME NEW S, NEW m \in Nat, NEW n \in Nat, m <= n
  PROVE  Begins(InOrder(S, m), InOrder(S, n))
<1> DEFINE G == {k \in Nat : m <= k => Begins(InOrder(S, m), InOrder(S, k))}
<1>0. \A k \in Nat : InOrder(S, k) \in Seq(Nat)
  BY InOrderIs DEF IsInOrder
<1>1. 0 \in G
  <2>1. m <= 0 => m = 0
    OBVIOUS
  <2>2. Begins(InOrder(S, 0), InOrder(S, 0))
    BY <1>0 DEF Begins
  <2> QED BY <2>1, <2>2
<1>2. ASSUME NEW k \in G PROVE k + 1 \in G
  <2>1. k \in Nat /\ (m <= k => Begins(InOrder(S, m), InOrder(S, k)))
    OBVIOUS
  <2> HIDE DEF G
  <2>2. PICK p, q, r : p = InOrder(S, m) /\ q = InOrder(S, k) /\ r = InOrder(S, k + 1)
    OBVIOUS
  <2>3. p \in Seq(Nat) /\ q \in Seq(Nat) /\ r \in Seq(Nat)
    BY <1>0, <2>1, <2>2
  <2>4. r = q \/ r = Append(q, k + 1)
    BY <2>1, <2>2, InOrderStep
  <2>5. m <= k => Begins(p, r)
    <3>1. m <= k => Begins(p, q)
      BY <2>1, <2>2
    <3>2. Len(q) <= Len(r) /\ \A i \in 1..Len(q) : r[i] = q[i]
      <4>1. CASE r = q
        BY <2>3, <4>1
      <4>2. CASE r = Append(q, k + 1)
        BY <2>1, <2>3, <4>2
      <4> QED BY <2>4, <4>1, <4>2
    <3> QED BY <2>3, <3>1, <3>2 DEF Begins
  <2>6. m = k + 1 => Begins(p, r)
    BY <2>2, <2>3 DEF Begins
  <2>7. m <= k + 1 => m <= k \/ m = k + 1
    BY <2>1
  <2>8. m <= k + 1 => Begins(InOrder(S, m), InOrder(S, k + 1))
    BY <2>2, <2>5, <2>6, <2>7
  <2> QED BY <2>1, <2>8 DEF G
<1>3. G = Nat
  <2> HIDE DEF G
  <2>1. G \in SUBSET Nat
    BY DEF G
  <2> QED BY <1>1, <1>2, <2>1, EveryNatural
<1>4. n \in G
  BY <1>3
<1> QED BY <1>4

\* A number of the set is the last one up to itself.
LEMMA InOrderEnds ==
  ASSUME NEW S, NEW n \in Nat \ {0}, n \in S
  PROVE  /\ Len(InOrder(S, n)) \in Nat \ {0}
         /\ InOrder(S, n)[Len(InOrder(S, n))] = n
         /\ Len(InOrder(S, n - 1)) = Len(InOrder(S, n)) - 1
<1>1. PICK k \in Nat : k = n - 1
  OBVIOUS
<1>2. PICK q : q = InOrder(S, k)
  OBVIOUS
<1>3. q \in Seq(Nat)
  BY <1>2, InOrderIs DEF IsInOrder
<1>4. k + 1 = n
  BY <1>1
<1>5. InOrder(S, n) = Append(q, n)
  <2>1. InOrder(S, k + 1) = IF k + 1 \in S THEN Append(q, k + 1) ELSE q
    BY <1>2, InOrderStep
  <2> QED BY <1>4, <2>1
<1> QED BY <1>1, <1>2, <1>3, <1>5

-----------------------------------------------------------------------------
(***************************************************************************)
(* Anchors.  An anchor of a rooted path ends at one of its slashes, and    *)
(* more findings only move that slash towards the root.                    *)
(***************************************************************************)
SlashesOf(b) == {i \in 1..Len(b) : b[i] = Slash}
SlashesUpTo(b, r) == InOrder(SlashesOf(b), r)
SlashList(p) == InOrder(SlashesOf(p), Len(p))

\* The slash a prefix that ends at slash s is raised to.
RaisedEnd(b, s, k) ==
  LET slashes == SlashesUpTo(b, s) IN IF k >= Len(slashes) THEN 1 ELSE slashes[Len(slashes) - k]

LEMMA SlashesListed ==
  ASSUME NEW b \in Seq(Byte), NEW r \in SlashesOf(b)
  PROVE  /\ Len(SlashesUpTo(b, r)) \in Nat \ {0}
         /\ SlashesUpTo(b, r) \in Seq(Nat)
         /\ \A k \in 1..Len(SlashesUpTo(b, r)) : SlashesUpTo(b, r)[k] \in SlashesOf(b)
         /\ \A i, j \in 1..Len(SlashesUpTo(b, r)) : i < j => SlashesUpTo(b, r)[i] < SlashesUpTo(b, r)[j]
         /\ SlashesUpTo(b, r)[Len(SlashesUpTo(b, r))] = r
<1>1. r \in Nat \ {0}
  BY DEF SlashesOf
<1>2. IsInOrder(SlashesUpTo(b, r), SlashesOf(b), r)
  BY <1>1, InOrderIs DEF SlashesUpTo
<1>3. Len(SlashesUpTo(b, r)) \in Nat \ {0} /\ SlashesUpTo(b, r)[Len(SlashesUpTo(b, r))] = r
  BY <1>1, InOrderEnds DEF SlashesUpTo
<1> QED BY <1>2, <1>3 DEF IsInOrder

\* The slashes of a prefix are those of the path up to its end.
LEMMA PrefixSlashes ==
  ASSUME NEW b \in Seq(Byte), NEW r \in SlashesOf(b), NEW p, p = SubSeq(b, 1, r)
  PROVE  /\ p \in Seq(Byte) /\ Len(p) = r /\ r \in 1..Len(b)
         /\ \A i \in 1..r : p[i] = b[i]
         /\ SlashList(p) = SlashesUpTo(b, r)
<1>1. r \in 1..Len(b)
  BY DEF SlashesOf
<1>2. p \in Seq(Byte) /\ Len(p) = r /\ \A i \in 1..r : p[i] = b[i]
  BY <1>1
<1>3. \A i \in 1..r : i \in SlashesOf(p) <=> i \in SlashesOf(b)
  BY <1>1, <1>2 DEF SlashesOf
<1>4. InOrder(SlashesOf(p), r) = InOrder(SlashesOf(b), r)
  <2>1. r \in Nat
    BY <1>1
  <2> QED BY <1>3, <2>1, InOrderAgree
<1> QED BY <1>1, <1>2, <1>4 DEF SlashesUpTo, SlashList

LEMMA RootIsSlash ==
  ASSUME NEW b \in Seq(Byte), Rooted(b)
  PROVE  1 \in SlashesOf(b) /\ SubSeq(b, 1, 1) = <<Slash>>
<1>1. Len(b) \in Nat \ {0} /\ b[1] = Slash
  BY DEF Rooted
<1>2. PICK q : q = SubSeq(b, 1, 1)
  OBVIOUS
<1>3. q = [i \in 1..1 |-> b[i]]
  BY <1>1, <1>2
<1>4. <<Slash>> = [i \in 1..1 |-> Slash]
  OBVIOUS
<1>5. q = <<Slash>>
  BY <1>1, <1>3, <1>4
<1>6. 1 \in SlashesOf(b)
  BY <1>1 DEF SlashesOf
<1> QED BY <1>2, <1>5, <1>6

LEMMA StableCut ==
  ASSUME NEW b \in Seq(Byte), Rooted(b), NEW o \in Nat
  PROVE  \E s \in SlashesOf(b) : /\ StablePrefix(b, o) = SubSeq(b, 1, s)
                                 /\ s = 1 \/ s < o
                                 /\ \A j \in SlashesOf(b) : j < o => j <= s
<1> DEFINE slashes == {i \in DOMAIN b : i < o /\ b[i] = Slash}
<1>0. slashes = {i \in SlashesOf(b) : i < o} /\ 1 \in SlashesOf(b) /\ Len(b) \in Nat
  BY RootIsSlash DEF SlashesOf
<1>1. SlashesOf(b) \subseteq 1..Len(b)
  BY DEF SlashesOf
<1> HIDE DEF slashes
<1>2. CASE slashes = {}
  <2>1. StablePrefix(b, o) = <<Slash>>
    BY <1>2 DEF StablePrefix, slashes
  <2>2. SubSeq(b, 1, 1) = <<Slash>>
    BY RootIsSlash
  <2>3. \A j \in SlashesOf(b) : ~(j < o)
    BY <1>0, <1>2
  <2> QED BY <1>0, <2>1, <2>2, <2>3
<1>3. CASE slashes # {}
  <2>1. slashes \in SUBSET (1..Len(b))
    BY <1>0, <1>1
  <2>2. PICK last : last = CHOOSE i \in slashes : \A j \in slashes : j <= i
    OBVIOUS
  <2>3. last \in slashes /\ \A j \in slashes : j <= last
    BY <1>0, <1>3, <2>1, <2>2, GreatestNatural
  <2>4. StablePrefix(b, o) = SubSeq(b, 1, last)
    BY <1>3, <2>2 DEF StablePrefix, slashes
  <2> QED BY <1>0, <2>3, <2>4
<1> QED BY <1>2, <1>3

LEMMA RaisedCut ==
  ASSUME NEW b \in Seq(Byte), Rooted(b), NEW s \in SlashesOf(b), NEW k \in Nat
  PROVE  /\ RaisedEnd(b, s, k) \in SlashesOf(b)
         /\ Raise(SubSeq(b, 1, s), k) = SubSeq(b, 1, RaisedEnd(b, s, k))
<1>1. PICK p : p = SubSeq(b, 1, s)
  OBVIOUS
<1>2. PICK L : L = SlashesUpTo(b, s)
  OBVIOUS
<1>3. SlashList(p) = L
  BY <1>1, <1>2, PrefixSlashes
<1>4. /\ s \in 1..Len(b) /\ p \in Seq(Byte) /\ Len(p) = s /\ \A i \in 1..s : p[i] = b[i]
  BY <1>1, PrefixSlashes
<1>5. Len(L) \in Nat \ {0} /\ \A i \in 1..Len(L) : L[i] \in SlashesOf(b) /\ L[i] <= s
  <2>1. /\ Len(L) \in Nat \ {0} /\ L[Len(L)] = s
        /\ \A i \in 1..Len(L) : L[i] \in SlashesOf(b)
        /\ \A i, j \in 1..Len(L) : i < j => L[i] < L[j]
    BY <1>2, SlashesListed
  <2>2. \A i \in 1..Len(L) : i = Len(L) \/ i < Len(L)
    BY <2>1
  <2>3. \A i \in 1..Len(L) : L[i] \in Nat
    BY <2>1 DEF SlashesOf
  <2> QED BY <2>1, <2>2, <2>3
<1>6. Raise(p, k) = IF k >= Len(L) THEN <<Slash>> ELSE SubSeq(p, 1, L[Len(L) - k])
  BY <1>3 DEF Raise, SlashList, SlashesOf
<1>7. RaisedEnd(b, s, k) = IF k >= Len(L) THEN 1 ELSE L[Len(L) - k]
  BY <1>2 DEF RaisedEnd
<1>8. CASE k >= Len(L)
  <2>1. SubSeq(b, 1, 1) = <<Slash>> /\ 1 \in SlashesOf(b)
    BY RootIsSlash
  <2> QED BY <1>1, <1>6, <1>7, <1>8, <2>1
<1>9. CASE ~(k >= Len(L))
  <2>1. Len(L) - k \in 1..Len(L)
    BY <1>5, <1>9
  <2>2. PICK r : r = L[Len(L) - k]
    OBVIOUS
  <2>3. r \in SlashesOf(b) /\ r \in 1..s
    BY <1>5, <2>1, <2>2 DEF SlashesOf
  <2>4. SubSeq(p, 1, r) = SubSeq(b, 1, r)
    BY <1>1, <1>4, <2>3
  <2> QED BY <1>1, <1>6, <1>7, <1>9, <2>2, <2>3, <2>4
<1> QED BY <1>8, <1>9

\* An earlier slash, raised more often, ends nearer to the root.
LEMMA RaisedMonotone ==
  ASSUME NEW b \in Seq(Byte), Rooted(b), NEW s \in SlashesOf(b), NEW t \in SlashesOf(b), s <= t,
         NEW k \in Nat, NEW j \in Nat, j <= k
  PROVE  RaisedEnd(b, s, k) <= RaisedEnd(b, t, j)
<1>1. PICK L, M : L = SlashesUpTo(b, s) /\ M = SlashesUpTo(b, t)
  OBVIOUS
<1>2. /\ Len(L) \in Nat \ {0} /\ Len(M) \in Nat \ {0}
      /\ \A i \in 1..Len(M) : M[i] \in SlashesOf(b)
      /\ \A x, y \in 1..Len(M) : x < y => M[x] < M[y]
  BY <1>1, SlashesListed
<1>3. Len(L) <= Len(M) /\ \A i \in 1..Len(L) : L[i] = M[i]
  <2>1. s \in Nat /\ t \in Nat
    BY DEF SlashesOf
  <2> QED BY <1>1, <2>1, InOrderGrows DEF SlashesUpTo, Begins
<1>4. /\ RaisedEnd(b, s, k) = IF k >= Len(L) THEN 1 ELSE L[Len(L) - k]
      /\ RaisedEnd(b, t, j) = IF j >= Len(M) THEN 1 ELSE M[Len(M) - j]
  BY <1>1 DEF RaisedEnd
<1>5. RaisedEnd(b, s, k) \in 1..Len(b) /\ RaisedEnd(b, t, j) \in 1..Len(b)
  BY RaisedCut DEF SlashesOf
<1>6. CASE k >= Len(L)
  BY <1>4, <1>5, <1>6
<1>7. CASE ~(k >= Len(L))
  <2>1. /\ Len(L) - k \in 1..Len(L) /\ Len(M) - j \in 1..Len(M)
        /\ Len(L) - k \in 1..Len(M) /\ Len(L) - k <= Len(M) - j /\ ~(j >= Len(M))
    BY <1>2, <1>3, <1>7
  <2>2. PICK x, y : x = Len(L) - k /\ y = Len(M) - j
    OBVIOUS
  <2>3. L[x] = M[x] /\ x \in 1..Len(M) /\ y \in 1..Len(M) /\ x <= y
    BY <1>3, <2>1, <2>2
  <2>4. M[x] <= M[y]
    <3>1. M[x] \in Nat /\ M[y] \in Nat
      BY <1>2, <2>3 DEF SlashesOf
    <3>2. x = y \/ x < y
      BY <2>3
    <3> QED BY <1>2, <2>3, <3>1, <3>2
  <2> QED BY <1>4, <1>7, <2>1, <2>2, <2>3, <2>4
<1> QED BY <1>6, <1>7

\* The segments of a path that ends at a slash: what stands between its slashes, and
\* an empty one.
LEMMA CutSegments ==
  ASSUME NEW b \in Seq(Byte), NEW r \in SlashesOf(b), NEW L, L = SlashesUpTo(b, r),
         NEW all, all = PathOf(SubSeq(b, 1, r))
  PROVE  /\ DOMAIN all = 1..Len(L) /\ Len(all) = Len(L)
         /\ \A k \in 1..(Len(L) - 1) : all[k] = SubSeq(b, L[k] + 1, L[k + 1] - 1)
         /\ all[Len(L)] = << >>
<1>1. PICK p : p = SubSeq(b, 1, r)
  OBVIOUS
<1>2. PICK cuts : cuts = Append(L, Len(p) + 1)
  OBVIOUS
<1>3. /\ p \in Seq(Byte) /\ Len(p) = r /\ r \in 1..Len(b) /\ \A i \in 1..r : p[i] = b[i]
      /\ SlashList(p) = L
  BY <1>1, PrefixSlashes
<1>4. /\ Len(L) \in Nat \ {0} /\ L \in Seq(Nat) /\ L[Len(L)] = r
      /\ \A k \in 1..Len(L) : L[k] \in SlashesOf(b)
      /\ \A i, j \in 1..Len(L) : i < j => L[i] < L[j]
  BY SlashesListed
<1>5. all = [k \in 1..Len(L) |-> SubSeq(p, cuts[k] + 1, cuts[k + 1] - 1)]
  BY <1>1, <1>2, <1>3 DEF PathOf, SlashList, SlashesOf
<1>6. /\ \A k \in 1..Len(L) : cuts[k] = L[k]
      /\ cuts[Len(L) + 1] = r + 1
  BY <1>2, <1>3, <1>4
<1>7. ASSUME NEW k \in 1..(Len(L) - 1)
      PROVE  all[k] = SubSeq(b, L[k] + 1, L[k + 1] - 1)
  <2>1. k \in 1..Len(L) /\ k + 1 \in 1..Len(L)
    BY <1>4
  <2>2. PICK x, y : x = L[k] /\ y = L[k + 1]
    OBVIOUS
  <2>3. x \in 1..Len(b) /\ y \in 1..Len(b) /\ x < y /\ y <= r
    <3>1. x \in 1..Len(b) /\ y \in 1..Len(b) /\ x < y
      BY <1>4, <2>1, <2>2 DEF SlashesOf
    <3>2. k + 1 = Len(L) \/ k + 1 < Len(L)
      BY <1>4
    <3>3. y <= r
      <4>1. CASE k + 1 = Len(L)
        BY <1>3, <1>4, <2>2, <4>1
      <4>2. CASE k + 1 < Len(L)
        <5>1. Len(L) \in 1..Len(L)
          BY <1>4
        <5>2. L[k + 1] < L[Len(L)]
          BY <1>4, <2>1, <4>2, <5>1
        <5> QED BY <1>3, <1>4, <2>2, <3>1, <5>2
      <4> QED BY <3>2, <4>1, <4>2
    <3> QED BY <3>1, <3>3
  <2>4. all[k] = SubSeq(p, x + 1, y - 1)
    BY <1>5, <1>6, <2>1, <2>2
  <2>5. SubSeq(p, x + 1, y - 1) = SubSeq(b, x + 1, y - 1)
    BY <1>3, <2>3
  <2> QED BY <2>2, <2>4, <2>5
<1>8. all[Len(L)] = << >>
  <2>0. PICK n \in Nat \ {0} : n = Len(L)
    BY <1>4
  <2>1. all[Len(L)] = SubSeq(p, r + 1, r)
    <3>1. all[n] = SubSeq(p, cuts[n] + 1, cuts[n + 1] - 1)
      BY <1>5, <2>0
    <3>2. cuts[n] = r /\ cuts[n + 1] = r + 1 /\ (r + 1) - 1 = r
      BY <1>3, <1>4, <1>6, <2>0
    <3> QED BY <2>0, <3>1, <3>2
  <2>2. SubSeq(p, r + 1, r) = << >>
    BY <1>3
  <2> QED BY <2>1, <2>2
<1>9. DOMAIN all = 1..Len(L) /\ Len(all) = Len(L)
  BY <1>4, <1>5
<1> QED BY <1>7, <1>8, <1>9

\* The segments an anchor is looked up by.
SegmentsOfCut(b, r) == AnchorSegments(SubSeq(b, 1, r))
Picked(all, s) == [k \in DOMAIN s |-> all[s[k]]]
KeptSegments(all) == {k \in DOMAIN all : all[k] # Empty}

LEMMA CutKept ==
  ASSUME NEW b \in Seq(Byte), NEW r \in SlashesOf(b), NEW L, L = SlashesUpTo(b, r),
         NEW all, all = PathOf(SubSeq(b, 1, r)), NEW K, NEW n, n = Len(L) - 1,
         \A k \in 1..n : k \in K <=> all[k] # Empty
  PROVE  /\ n \in Nat
         /\ SegmentsOfCut(b, r) = Picked(all, InOrder(K, n))
<1>1. /\ Len(L) \in Nat \ {0} /\ n \in Nat /\ Len(L) = n + 1
  BY SlashesListed
<1>2. DOMAIN all = 1..Len(L) /\ Len(all) = Len(L) /\ all[n + 1] = Empty
  BY <1>1, CutSegments, EmptyAssumption
<1>3. InOrder(KeptSegments(all), n + 1) = InOrder(KeptSegments(all), n)
  <2>1. PICK S : S = KeptSegments(all)
    OBVIOUS
  <2>2. n + 1 \notin S
    BY <1>2, <2>1 DEF KeptSegments
  <2>3. \A m \in Nat : InOrder(S, m + 1) = IF m + 1 \in S THEN Append(InOrder(S, m), m + 1) ELSE InOrder(S, m)
    BY InOrderStep
  <2>4. InOrder(S, n + 1) = InOrder(S, n)
    BY <1>1, <2>2, <2>3
  <2> QED BY <2>1, <2>4
<1>4. InOrder(KeptSegments(all), n) = InOrder(K, n)
  <2>1. \A k \in 1..n : k \in KeptSegments(all) <=> k \in K
    BY <1>1, <1>2 DEF KeptSegments
  <2> QED BY <1>1, <2>1, InOrderAgree
<1>5. InOrder(KeptSegments(all), Len(all)) = InOrder(K, n)
  BY <1>1, <1>2, <1>3, <1>4
<1>6. SegmentsOfCut(b, r) = Picked(all, InOrder(KeptSegments(all), Len(all)))
  BY DEF SegmentsOfCut, AnchorSegments, KeptSegments, Picked
<1> QED BY <1>1, <1>5, <1>6

\* An anchor nearer to the root has the first of the segments of the other.
LEMMA CutsBegin ==
  ASSUME NEW b \in Seq(Byte), NEW r \in SlashesOf(b), NEW s \in SlashesOf(b), r <= s
  PROVE  Begins(SegmentsOfCut(b, r), SegmentsOfCut(b, s))
<1>1. PICK L, M : L = SlashesUpTo(b, r) /\ M = SlashesUpTo(b, s)
  OBVIOUS
<1>2. PICK few, all : few = PathOf(SubSeq(b, 1, r)) /\ all = PathOf(SubSeq(b, 1, s))
  OBVIOUS
<1>3. PICK m, n : m = Len(L) - 1 /\ n = Len(M) - 1
  OBVIOUS
<1>4. Len(L) \in Nat \ {0} /\ Len(M) \in Nat \ {0}
  BY <1>1, SlashesListed
<1>5. Len(L) <= Len(M) /\ \A i \in 1..Len(L) : L[i] = M[i]
  <2>1. r \in Nat /\ s \in Nat
    BY DEF SlashesOf
  <2> QED BY <1>1, <2>1, InOrderGrows DEF SlashesUpTo, Begins
<1>6. m \in Nat /\ n \in Nat /\ m <= n /\ Len(L) = m + 1 /\ Len(M) = n + 1
  BY <1>3, <1>4, <1>5
<1>7. \A k \in 1..m : few[k] = all[k]
  <2>1. \A k \in 1..m : few[k] = SubSeq(b, L[k] + 1, L[k + 1] - 1)
    <3>1. \A k \in 1..(Len(L) - 1) : few[k] = SubSeq(b, L[k] + 1, L[k + 1] - 1)
      BY <1>1, <1>2, CutSegments
    <3> QED BY <1>3, <3>1
  <2>2. \A k \in 1..n : all[k] = SubSeq(b, M[k] + 1, M[k + 1] - 1)
    <3>1. \A k \in 1..(Len(M) - 1) : all[k] = SubSeq(b, M[k] + 1, M[k + 1] - 1)
      BY <1>1, <1>2, CutSegments
    <3> QED BY <1>3, <3>1
  <2>3. \A k \in 1..m : k \in 1..n /\ k \in 1..Len(L) /\ k + 1 \in 1..Len(L)
    BY <1>6
  <2> QED BY <1>5, <2>1, <2>2, <2>3
<1>8. PICK K : K = {k \in 1..n : all[k] # Empty}
  OBVIOUS
<1>9. PICK p, q : p = InOrder(K, m) /\ q = InOrder(K, n)
  OBVIOUS
<1>10. SegmentsOfCut(b, r) = Picked(few, p)
  <2>1. \A k \in 1..m : k \in K <=> few[k] # Empty
    BY <1>6, <1>7, <1>8
  <2> QED BY <1>1, <1>2, <1>3, <1>9, <2>1, CutKept
<1>11. SegmentsOfCut(b, s) = Picked(all, q)
  <2>1. \A k \in 1..n : k \in K <=> all[k] # Empty
    BY <1>8
  <2> QED BY <1>1, <1>2, <1>3, <1>9, <2>1, CutKept
<1>12. IsInOrder(p, K, m) /\ q \in Seq(Nat)
  BY <1>6, <1>9, InOrderIs DEF IsInOrder
<1>13. Begins(p, q)
  BY <1>6, <1>9, InOrderGrows
<1>14. \A k \in 1..Len(p) : k \in 1..Len(q) /\ few[p[k]] = all[q[k]]
  BY <1>7, <1>12, <1>13 DEF Begins, IsInOrder
<1>15. DOMAIN p = 1..Len(p) /\ DOMAIN q = 1..Len(q) /\ Len(p) \in Nat /\ Len(q) \in Nat /\ Len(p) <= Len(q)
  BY <1>12, <1>13 DEF IsInOrder, Begins
<1>16. PICK x, y : x = SegmentsOfCut(b, r) /\ y = SegmentsOfCut(b, s)
  OBVIOUS
<1>17. Len(x) = Len(p) /\ Len(y) = Len(q) /\ \A k \in 1..Len(p) : x[k] = y[k]
  BY <1>10, <1>11, <1>14, <1>15, <1>16 DEF Picked
<1>18. Begins(x, y)
  BY <1>15, <1>17 DEF Begins
<1> QED BY <1>16, <1>18

\* Counting upper case in only finds a content byte earlier.
LEMMA ContentMonotone ==
  ASSUME NEW b \in Seq(Byte), Len(b) < NoOffset, NEW i \in BOOLEAN, NEW j \in BOOLEAN, j => i
  PROVE  /\ FirstContentByte(b, i) \in Nat /\ FirstContentByte(b, j) \in Nat
         /\ FirstContentByte(b, i) <= FirstContentByte(b, j)
<1> DEFINE found(x) == {k \in DOMAIN b : b[k] \in ContentBytes(x)}
<1>1. ASSUME NEW x \in BOOLEAN
      PROVE  /\ FirstContentByte(b, x) \in found(x) \cup {NoOffset}
             /\ \A k \in found(x) : FirstContentByte(b, x) <= k
  <2>1. PICK F : F = found(x)
    OBVIOUS
  <2>2. \A k \in F : k \in Nat /\ k < NoOffset
    BY <2>1, NoOffsetAssumption
  <2>3. F \cup {NoOffset} \in SUBSET Nat /\ F \cup {NoOffset} # {}
    BY <2>2, NoOffsetAssumption
  <2>4. \E m \in F \cup {NoOffset} : \A k \in F : m <= k
    BY <2>3, LeastNatural
  <2>5. FirstContentByte(b, x) = CHOOSE m \in F \cup {NoOffset} : \A k \in F : m <= k
    BY <2>1 DEF FirstContentByte
  <2>6. FirstContentByte(b, x) \in F \cup {NoOffset} /\ \A k \in F : FirstContentByte(b, x) <= k
    BY <2>4, <2>5
  <2> QED BY <2>1, <2>6
<1>2. found(j) \subseteq found(i) /\ \A k \in found(i) : k \in Nat /\ k < NoOffset
  BY NoOffsetAssumption DEF ContentBytes
<1> HIDE DEF found
<1> QED BY <1>1, <1>2, NoOffsetAssumption

LEMMA RootAnchor ==
  ASSUME NEW k \in Nat
  PROVE  Raise(<<Slash>>, k) = <<Slash>>
<1>1. <<Slash>> \in Seq(Byte) /\ Rooted(<<Slash>>) /\ Len(<<Slash>>) = 1
  BY DEF Slash, Byte, Rooted
<1>2. 1 \in SlashesOf(<<Slash>>) /\ SubSeq(<<Slash>>, 1, 1) = <<Slash>>
  BY <1>1, RootIsSlash
<1>3. PICK p : p = <<Slash>>
  OBVIOUS
<1>4. /\ RaisedEnd(p, 1, k) \in SlashesOf(p)
      /\ Raise(SubSeq(p, 1, 1), k) = SubSeq(p, 1, RaisedEnd(p, 1, k))
  BY <1>1, <1>2, <1>3, RaisedCut
<1>5. RaisedEnd(p, 1, k) = 1
  <2>1. SlashesOf(p) \subseteq 1..1
    BY <1>1, <1>3 DEF SlashesOf
  <2> QED BY <1>4, <2>1
<1> QED BY <1>2, <1>3, <1>4, <1>5

\* More findings, or upper case counted in, leave an anchor nearer to the root.
LEMMA AnchorsBegin ==
  ASSUME NEW b \in Seq(Byte), b # << >>, Len(b) < NoOffset, IsRequestPath(b),
         NEW wide, NEW narrow, FindsAtLeast(wide, narrow),
         wide.earliest \in Nat, wide.dot_pops \in Nat,
         narrow.earliest \in Nat, narrow.dot_pops \in Nat,
         NEW i \in BOOLEAN, NEW j \in BOOLEAN, j => i
  PROVE  Begins(AnchorSegments(AnchorFor(b, wide, i)), AnchorSegments(AnchorFor(b, narrow, j)))
<1>1. PICK o, u : o = Lesser(wide.earliest, FirstContentByte(b, i)) /\ u = Lesser(narrow.earliest, FirstContentByte(b, j))
  OBVIOUS
<1>2. o \in Nat /\ u \in Nat /\ o <= u
  BY <1>1, ContentMonotone DEF Lesser, FindsAtLeast
<1>3. PICK k, l : k = wide.dot_pops /\ l = narrow.dot_pops
  OBVIOUS
<1>4. k \in Nat /\ l \in Nat /\ l <= k
  BY <1>3 DEF FindsAtLeast
<1>5. /\ AnchorFor(b, wide, i) = Raise(StablePrefix(b, o), k)
      /\ AnchorFor(b, narrow, j) = Raise(StablePrefix(b, u), l)
  BY <1>1, <1>3 DEF AnchorFor
<1>6. CASE Rooted(b)
  <2>1. PICK s \in SlashesOf(b) : /\ StablePrefix(b, o) = SubSeq(b, 1, s)
                                  /\ s = 1 \/ s < o
    BY <1>2, <1>6, StableCut
  <2>2. PICK t \in SlashesOf(b) : /\ StablePrefix(b, u) = SubSeq(b, 1, t)
                                  /\ \A x \in SlashesOf(b) : x < u => x <= t
    BY <1>2, <1>6, StableCut
  <2>3. s <= t
    <3>1. s \in Nat /\ t \in Nat \ {0}
      BY DEF SlashesOf
    <3> QED BY <1>2, <2>1, <2>2, <3>1
  <2>4. PICK x, y : x = RaisedEnd(b, s, k) /\ y = RaisedEnd(b, t, l)
    OBVIOUS
  <2>5. /\ x \in SlashesOf(b) /\ AnchorFor(b, wide, i) = SubSeq(b, 1, x)
        /\ y \in SlashesOf(b) /\ AnchorFor(b, narrow, j) = SubSeq(b, 1, y)
    BY <1>4, <1>5, <1>6, <2>1, <2>2, <2>4, RaisedCut
  <2>6. x <= y
    BY <1>4, <1>6, <2>3, <2>4, RaisedMonotone
  <2>7. Begins(SegmentsOfCut(b, x), SegmentsOfCut(b, y))
    BY <2>5, <2>6, CutsBegin
  <2> QED BY <2>5, <2>7 DEF SegmentsOfCut
<1>7. CASE ~Rooted(b)
  <2>1. b = <<Asterisk>>
    BY <1>7 DEF IsRequestPath
  <2>2. \A e : StablePrefix(b, e) = <<Slash>>
    BY <2>1 DEF StablePrefix, Asterisk, Slash
  <2>3. AnchorFor(b, wide, i) = <<Slash>> /\ AnchorFor(b, narrow, j) = <<Slash>>
    BY <1>4, <1>5, <2>2, RootAnchor
  <2>4. Len(AnchorSegments(<<Slash>>)) \in Nat
    <3>1. <<Slash>> \in Seq(Byte)
      BY DEF Slash, Byte
    <3> QED BY <3>1, AnchorSegmentsSequence
  <2> QED BY <2>3, <2>4 DEF Begins
<1> QED BY <1>6, <1>7

-----------------------------------------------------------------------------
(***************************************************************************)
(* Beyond an anchor nearer to the root lie all the rules beyond the other. *)
(***************************************************************************)
\* A node cut off at the length of the shorter anchor.
IsCut(c, n, q) ==
  /\ c = SubSeq(n, 1, Len(q)) /\ Deep(c, q)
  /\ Len(c) = Len(q) /\ \A k \in 1..Len(c) : c[k] = n[k]

LEMMA CutNode ==
  ASSUME NEW v, IsView(v), NEW q, NEW m, Begins(q, m), NEW n \in v.nodes,
         Len(q) <= Len(n), Fits(n, m)
  PROVE  \E c \in v.nodes : IsCut(c, n, q)
<1>0. PICK c : c = SubSeq(n, 1, Len(q))
  OBVIOUS
<1>1. n \in Addresses /\ Len(n) \in Nat /\ Len(q) \in 0..Len(n)
  BY DEF IsView, Begins, Addresses
<1>2. c \in v.nodes
  BY <1>0, <1>1 DEF IsView
<1>3. Len(c) = Len(q) /\ \A k \in 1..Len(c) : c[k] = n[k]
  BY <1>0, <1>1 DEF Addresses
<1>4. \A k \in 1..Len(c) : Takes(c[k], q[k])
  BY <1>1, <1>3 DEF Fits, Begins
<1>5. Len(c) <= Len(q)
  BY <1>3 DEF Begins
<1>6. Deep(c, q)
  BY <1>3, <1>4, <1>5 DEF Deep, Fits
<1> QED BY <1>0, <1>2, <1>3, <1>6 DEF IsCut

\* Where the shorter anchor cannot be extended past a node, the longer one cannot.
LEMMA CompletesLonger ==
  ASSUME NEW v, IsView(v), NEW q, NEW m, Begins(q, m), Len(q) < Len(m),
         NEW c \in v.nodes, Completes(v, c, q)
  PROVE  Completes(v, c, m) /\ Len(c) \in Nat /\ Len(c) <= Len(q)
<1>1. Len(c) \in Nat
  BY DEF IsView, Addresses
<1>2. Has(v, c, "catchall") /\ Fits(c, q) /\ Len(c) <= Len(q)
  BY DEF Completes, Deep, Shallow, Fits
<1>3. Fits(c, m) /\ Len(c) < Len(m)
  BY <1>1, <1>2 DEF Fits, Begins
<1> QED BY <1>1, <1>2, <1>3 DEF Completes, Shallow

\* Precedence is decided within the shorter node.
LEMMA PrecedesCut ==
  ASSUME NEW c, NEW n, NEW t, Len(c) \in Nat, Len(n) \in Nat, Len(t) \in Nat,
         Len(c) <= Len(t), Len(t) <= Len(n), \A k \in 1..Len(t) : t[k] = n[k],
         Precedes(c, t)
  PROVE  Precedes(c, n)
<1>1. PICK k \in 1..Len(c) :
        /\ Len(t) >= k - 1
        /\ \A j \in 1..(k - 1) : c[j] = t[j]
        /\ \/ Len(t) = k - 1
           \/ Len(t) >= k /\ c[k] # Star /\ t[k] = Star
  BY DEF Precedes
<1>2. k \in 1..Len(t) /\ Len(n) >= k /\ \A j \in 1..(k - 1) : j \in 1..Len(t)
  BY <1>1
<1>3. c[k] # Star /\ n[k] = Star /\ \A j \in 1..(k - 1) : c[j] = n[j]
  BY <1>1, <1>2
<1> QED BY <1>2, <1>3 DEF Precedes

LEMMA LiveShorter ==
  ASSUME NEW v, IsView(v), NEW q, NEW m, Begins(q, m), Len(q) < Len(m),
         NEW n \in v.nodes, Live(v, n, m)
  PROVE  /\ Live(v, n, q)
         /\ \A t \in v.nodes : (Len(t) = Len(q) /\ Len(q) <= Len(n) /\ \A k \in 1..Len(t) : t[k] = n[k])
              => Live(v, t, q)
<1>1. \A c \in v.nodes : Completes(v, c, q) => Completes(v, c, m) /\ Len(c) \in Nat /\ Len(c) <= Len(q)
  BY CompletesLonger
<1>2. \A t \in v.nodes : Len(t) \in Nat
  BY DEF IsView, Addresses
<1>3. ASSUME NEW t \in v.nodes, Len(t) = Len(q), Len(q) <= Len(n), \A k \in 1..Len(t) : t[k] = n[k],
             NEW c \in v.nodes, Completes(v, c, q), Precedes(c, t)
      PROVE  FALSE
  <2>1. Precedes(c, n)
    BY <1>1, <1>2, <1>3, PrecedesCut
  <2> QED BY <1>1, <1>3, <2>1 DEF Live
<1>4. Live(v, n, q)
  BY <1>1 DEF Live
<1> QED BY <1>3, <1>4 DEF Live

\* Beyond an anchor nearer to the root lie at least the same rules.
THEOREM BeyondGrows ==
  ASSUME NEW v, IsView(v), NEW q, NEW m, Begins(q, m), Len(q) = Len(m) => q = m,
         q = << >> <=> Len(q) = 0, m = << >> <=> Len(m) = 0
  PROVE  AnchorIds(v, m) \subseteq AnchorIds(v, q)
<1>1. CASE Len(q) = Len(m)
  BY <1>1
<1>2. CASE Len(q) # Len(m)
  <2>1. Len(q) \in Nat /\ Len(m) \in Nat /\ Len(q) < Len(m) /\ m # << >>
    BY <1>2 DEF Begins
  <2>2. \A n \in v.nodes : n \in Addresses /\ Len(n) \in Nat
    BY DEF IsView, Addresses
  <2>3. ASSUME NEW n \in v.nodes, Live(v, n, m), Len(q) <= Len(n), Fits(n, m), NEW s \in DOMAIN v.rule,
               Len(s.node) >= Len(n), SubSeq(s.node, 1, Len(n)) = n,
               s # [node |-> SubSeq(n, 1, Len(q)), slot |-> "leaf"]
        PROVE  v.rule[s] \in AnchorIds(v, q)
    <3>0. PICK c \in v.nodes : IsCut(c, n, q)
      BY <2>3, CutNode
    <3>1. /\ c = SubSeq(n, 1, Len(q)) /\ Deep(c, q)
          /\ Len(c) = Len(q) /\ \A k \in 1..Len(c) : c[k] = n[k]
      BY <3>0 DEF IsCut
    <3>3. Live(v, c, q)
      BY <2>1, <2>3, <3>1, LiveShorter
    <3>4. Len(s.node) >= Len(c) /\ SubSeq(s.node, 1, Len(c)) = c
      <4>1. s.node \in Addresses /\ n \in Addresses
        BY <2>2 DEF IsView, Terminals
      <4>2. SubSeq(s.node, 1, Len(q)) = SubSeq(SubSeq(s.node, 1, Len(n)), 1, Len(q))
        BY <2>1, <2>3, <4>1 DEF Addresses
      <4> QED BY <2>1, <2>3, <3>1, <4>1, <4>2 DEF Addresses
    <3>5. v.rule[s] \in Identities(v, c, q = << >>)
      BY <2>3, <3>1, <3>4 DEF Identities
    <3> QED BY <3>1, <3>3, <3>5 DEF AnchorIds
  <2>4. ASSUME NEW n \in v.nodes, Live(v, n, m), Deep(n, m), NEW x \in Identities(v, n, m = << >>)
        PROVE  x \in AnchorIds(v, q)
    <3>1. PICK s \in DOMAIN v.rule : /\ x = v.rule[s]
                                     /\ Len(s.node) >= Len(n) /\ SubSeq(s.node, 1, Len(n)) = n
      BY <2>4 DEF Identities
    <3>2. Len(n) = Len(m) /\ Fits(n, m)
      BY <2>4 DEF Deep
    <3>3. s # [node |-> SubSeq(n, 1, Len(q)), slot |-> "leaf"]
      <4>1. Len(SubSeq(n, 1, Len(q))) = Len(q)
        BY <2>1, <2>2, <3>2 DEF Addresses
      <4>2. s.node \in Addresses
        BY DEF IsView, Terminals
      <4>3. Len(s.node) > Len(q)
        BY <2>1, <2>2, <3>1, <3>2, <4>2 DEF Addresses
      <4> QED BY <2>1, <4>1, <4>3
    <3> QED BY <2>1, <2>3, <2>4, <3>1, <3>2, <3>3
  <2>5. ASSUME NEW n \in v.nodes, Live(v, n, m), Shallow(n, m), Has(v, n, "catchall"),
               NEW s, s = [node |-> n, slot |-> "catchall"]
        PROVE  v.rule[s] \in AnchorIds(v, q)
    <3>1. s \in DOMAIN v.rule /\ s.node = n /\ s.slot = "catchall" /\ Fits(n, m) /\ Len(n) < Len(m)
      BY <2>5 DEF Has, Shallow
    <3>2. CASE Len(q) <= Len(n)
      <4>1. SubSeq(n, 1, Len(n)) = n
        BY <2>2 DEF Addresses
      <4>2. s # [node |-> SubSeq(n, 1, Len(q)), slot |-> "leaf"]
        BY <3>1
      <4>3. Len(s.node) >= Len(n) /\ SubSeq(s.node, 1, Len(n)) = n
        BY <2>2, <3>1, <4>1
      <4> QED BY <2>3, <2>5, <3>1, <3>2, <4>2, <4>3
    <3>3. CASE Len(n) < Len(q)
      <4>1. Shallow(n, q)
        BY <2>1, <2>2, <3>1, <3>3 DEF Shallow, Fits, Begins
      <4>2. Live(v, n, q)
        BY <2>1, <2>5, LiveShorter
      <4> QED BY <2>5, <4>1, <4>2 DEF AnchorIds
    <3> QED BY <2>1, <2>2, <3>2, <3>3
  <2>6. (\E n \in v.nodes : Completes(v, n, q)) => \E n \in v.nodes : Completes(v, n, m)
    BY <2>1, CompletesLonger
  <2>7. ASSUME NEW x \in AnchorIds(v, m) PROVE x \in AnchorIds(v, q)
    <3>1. \/ \E n \in v.nodes : Live(v, n, m) /\ Deep(n, m) /\ x \in Identities(v, n, m = << >>)
          \/ \E n \in v.nodes : /\ Live(v, n, m) /\ Shallow(n, m) /\ Has(v, n, "catchall")
                                /\ x = v.rule[[node |-> n, slot |-> "catchall"]]
          \/ x = DEFAULT_RULE /\ ~\E n \in v.nodes : Completes(v, n, m)
      BY DEF AnchorIds
    <3>2. CASE x = DEFAULT_RULE /\ ~\E n \in v.nodes : Completes(v, n, m)
      BY <2>6, <3>2 DEF AnchorIds
    <3> QED BY <2>4, <2>5, <3>1, <3>2
  <2> QED BY <2>7
<1> QED BY <1>1, <1>2

-----------------------------------------------------------------------------
(***************************************************************************)
(* The findings of a whole request.                                        *)
(***************************************************************************)
Sized(r) == r.earliest \in Nat /\ r.dot_pops \in Nat

LEMMA LocatesSizes ==
  ASSUME NEW r, NEW enabled, Locates(r, enabled)
  PROVE  Sized(r)
BY NoOffsetAssumption DEF Locates, Sized

LEMMA IncludeWidens ==
  ASSUME NEW r, NEW s, NEW x, NEW y, Sized(r), Sized(s), Sized(x), Sized(y),
         FindsAtLeast(r, x), FindsAtLeast(s, y)
  PROVE  FindsAtLeast(Include(r, s), Include(x, y))
BY DEF Sized, FindsAtLeast, Include, Lesser, Greater

LEMMA IncludeGrows ==
  ASSUME NEW r, NEW s, NEW x, Sized(r), Sized(s), Sized(x), FindsAtLeast(r, x)
  PROVE  FindsAtLeast(Include(r, s), x)
BY DEF Sized, FindsAtLeast, Include, Lesser, Greater

\* A deeper decode adds an interpretation at the end.
LEMMA InterpretationsBegin ==
  ASSUME NEW b, NEW two, NEW more, two => more
  PROVE  Begins(Interpretations(b, two), Interpretations(b, more))
<1> DEFINE raw   == Original(b)
           once  == Decode(raw)
           twice == Decode(once)
<1> HIDE DEF raw, once, twice
<1>1. \A t : Interpretations(b, t) = IF ~HasEscape(b) THEN <<raw>>
                                     ELSE IF ~t \/ ~HasEscape(once.bytes) THEN <<raw, once>>
                                     ELSE <<raw, once, twice>>
  BY DEF Interpretations, raw, once, twice
<1>2. PICK v, w : v = Interpretations(b, two) /\ w = Interpretations(b, more)
  OBVIOUS
<1>3. Begins(v, w)
  <2>1. \/ v = <<raw>> /\ w = <<raw>>
        \/ v = <<raw, once>> /\ w = <<raw, once>>
        \/ v = <<raw, once>> /\ w = <<raw, once, twice>>
        \/ v = <<raw, once, twice>> /\ w = <<raw, once, twice>>
    BY <1>1, <1>2
  <2> QED BY <2>1 DEF Begins
<1> QED BY <1>2, <1>3

\* Whatever is found in a request is found at a position of it.
LEMMA JoinedLocates ==
  ASSUME NEW c \in Config, NEW b \in Seq(Byte), Len(b) < NoOffset, NEW enabled,
         NEW views, views = Interpretations(b, c.up_to_two)
  PROVE  \A k \in 0..Len(views) : Locates(Joined(views, enabled, c.enc)[k], enabled)
<1>1. Len(views) \in 1..3
  BY ViewsShape DEF Shaped
<1>2. c.enc \in Encodings
  BY DEF Config
<1>3. \A k \in 1..Len(views) : Locates(ScanOf(views[k], enabled, c.enc), enabled)
  <2>1. \A k \in 1..Len(views) : WellFormed(views[k]) /\ views[k].original = b
    BY InterpretationsSound
  <2> QED BY <1>2, <2>1, ScanLocates
<1>4. PICK joined : joined = Joined(views, enabled, c.enc)
  OBVIOUS
<1>5. Locates(joined[0], enabled)
  <2>1. joined[0] = EmptyResult
    BY <1>1, <1>4, JoinedUnfolds
  <2> QED BY <2>1, NoOffsetAssumption DEF EmptyResult, Locates
<1>6. ASSUME NEW k \in 0..(Len(views) - 1), Locates(joined[k], enabled)
      PROVE  Locates(joined[k + 1], enabled)
  <2>1. joined[k + 1] = Include(joined[k], ScanOf(views[k + 1], enabled, c.enc))
    BY <1>1, <1>4, JoinedStep
  <2>2. k + 1 \in 1..Len(views)
    BY <1>1
  <2> QED BY <1>3, <1>6, <2>1, <2>2, IncludeLocates
<1> DEFINE G == {k \in Nat : k <= Len(views) => Locates(joined[k], enabled)}
<1>7. 0 \in G
  BY <1>5
<1>8. ASSUME NEW k \in G PROVE k + 1 \in G
  <2>1. k \in Nat /\ (k <= Len(views) => Locates(joined[k], enabled))
    OBVIOUS
  <2> HIDE DEF G
  <2>2. k + 1 <= Len(views) => k \in 0..(Len(views) - 1) /\ k <= Len(views)
    BY <1>1, <2>1
  <2>3. k + 1 <= Len(views) => Locates(joined[k + 1], enabled)
    BY <1>6, <2>1, <2>2
  <2> QED BY <2>1, <2>3 DEF G
<1>9. G = Nat
  <2> HIDE DEF G
  <2>1. G \in SUBSET Nat
    BY DEF G
  <2> QED BY <1>7, <1>8, <2>1, EveryNatural
<1>10. \A k \in 0..Len(views) : Locates(joined[k], enabled)
  BY <1>1, <1>9
<1> QED BY <1>4, <1>10

LEMMA ScanAllLocates ==
  ASSUME NEW c \in Config, NEW b \in Seq(Byte), Len(b) < NoOffset, NEW enabled
  PROVE  Locates(ScanAll(c, b, enabled), enabled)
<1>1. PICK views : views = Interpretations(b, c.up_to_two)
  OBVIOUS
<1>2. Len(views) \in 0..Len(views)
  BY <1>1, ViewsShape DEF Shaped
<1> QED BY <1>1, <1>2, JoinedLocates DEF ScanAll

\* More classes, spellings and interpretations find at least as much.
LEMMA ScanAllMonotone ==
  ASSUME NEW c \in Config, NEW d \in Config, NEW b \in Seq(Byte), Len(b) < NoOffset,
         NEW A, NEW B, A \subseteq B, Widens(d.enc, c.enc), d.up_to_two => c.up_to_two
  PROVE  FindsAtLeast(ScanAll(c, b, B), ScanAll(d, b, A))
<1>1. PICK views, more : views = Interpretations(b, d.up_to_two) /\ more = Interpretations(b, c.up_to_two)
  OBVIOUS
<1>2. /\ Len(views) \in 1..3 /\ Len(more) \in 1..3 /\ Len(views) <= Len(more)
      /\ \A k \in 1..Len(views) : views[k] = more[k]
  <2>1. Begins(views, more)
    BY <1>1, InterpretationsBegin
  <2> QED BY <1>1, <2>1, ViewsShape DEF Shaped, Begins
<1>3. c.enc \in Encodings /\ d.enc \in Encodings
  BY DEF Config
<1>4. PICK few, all : few = Joined(views, A, d.enc) /\ all = Joined(more, B, c.enc)
  OBVIOUS
<1>5. /\ \A k \in 0..Len(views) : Sized(few[k])
      /\ \A k \in 0..Len(more) : Sized(all[k])
  <2>1. \A k \in 0..Len(views) : Locates(few[k], A)
    BY <1>1, <1>4, JoinedLocates
  <2>2. \A k \in 0..Len(more) : Locates(all[k], B)
    BY <1>1, <1>4, JoinedLocates
  <2> QED BY <2>1, <2>2, LocatesSizes
<1>6. ASSUME NEW k \in 1..Len(more)
      PROVE  /\ Sized(ScanOf(more[k], B, c.enc)) /\ Sized(ScanOf(more[k], A, d.enc))
             /\ FindsAtLeast(ScanOf(more[k], B, c.enc), ScanOf(more[k], A, d.enc))
  <2>1. WellFormed(more[k]) /\ Len(more[k].original) < NoOffset
    BY <1>1, InterpretationsSound
  <2>2. Locates(ScanOf(more[k], B, c.enc), B) /\ Locates(ScanOf(more[k], A, d.enc), A)
    BY <1>3, <2>1, ScanLocates
  <2>3. Sized(ScanOf(more[k], B, c.enc)) /\ Sized(ScanOf(more[k], A, d.enc))
    BY <2>2, LocatesSizes
  <2>4. FindsAtLeast(ScanOf(more[k], B, c.enc), ScanOf(more[k], A, d.enc))
    BY <1>3, <2>1, ScanMonotone
  <2> QED BY <2>3, <2>4
<1> DEFINE last(k) == IF k <= Len(views) THEN k ELSE Len(views)
           G == {k \in Nat : k <= Len(more) => FindsAtLeast(all[k], few[last(k)])}
<1>7. 0 \in G
  <2>1. all[0] = EmptyResult /\ few[0] = EmptyResult
    BY <1>2, <1>4, JoinedUnfolds
  <2>2. FindsAtLeast(EmptyResult, EmptyResult)
    BY NoOffsetAssumption DEF FindsAtLeast, EmptyResult
  <2> QED BY <1>2, <2>1, <2>2
<1>8. ASSUME NEW k \in G PROVE k + 1 \in G
  <2>1. k \in Nat /\ (k <= Len(more) => FindsAtLeast(all[k], few[last(k)]))
    OBVIOUS
  <2>2. SUFFICES ASSUME k + 1 <= Len(more) PROVE FindsAtLeast(all[k + 1], few[last(k + 1)])
    BY <2>1
  <2> HIDE DEF G
  <2>3. k \in 0..(Len(more) - 1) /\ k + 1 \in 1..Len(more) /\ k \in 0..Len(more) /\ last(k) \in 0..Len(views)
    BY <1>2, <2>1, <2>2
  <2>4. FindsAtLeast(all[k], few[last(k)]) /\ Sized(all[k]) /\ Sized(few[last(k)])
    <3> HIDE DEF last
    <3> QED BY <1>2, <1>5, <2>1, <2>3
  <2>5. all[k + 1] = Include(all[k], ScanOf(more[k + 1], B, c.enc))
    BY <1>2, <1>4, <2>3, JoinedStep
  <2>6. CASE k < Len(views)
    <3>1. k \in 0..(Len(views) - 1) /\ last(k) = k /\ last(k + 1) = k + 1 /\ k + 1 \in 1..Len(views)
      BY <1>2, <2>1, <2>6
    <3> HIDE DEF last
    <3>2. few[k + 1] = Include(few[k], ScanOf(views[k + 1], A, d.enc))
      BY <1>2, <1>4, <3>1, JoinedStep
    <3>3. views[k + 1] = more[k + 1]
      BY <1>2, <3>1
    <3>4. few[k + 1] = Include(few[k], ScanOf(more[k + 1], A, d.enc))
      BY <3>2, <3>3
    <3> QED BY <1>6, <2>3, <2>4, <2>5, <3>1, <3>4, IncludeWidens
  <2>7. CASE ~(k < Len(views))
    <3>1. last(k) = Len(views) /\ last(k + 1) = Len(views)
      BY <1>2, <2>1, <2>7
    <3> HIDE DEF last
    <3> QED BY <1>6, <2>3, <2>4, <2>5, <3>1, IncludeGrows
  <2> QED BY <2>6, <2>7
<1>9. G = Nat
  <2> HIDE DEF G
  <2>1. G \in SUBSET Nat
    BY DEF G
  <2> QED BY <1>7, <1>8, <2>1, EveryNatural
<1>10. FindsAtLeast(all[Len(more)], few[Len(views)])
  <2>1. Len(more) \in G /\ last(Len(more)) = Len(views)
    BY <1>2, <1>9
  <2> QED BY <1>2, <2>1
<1> QED BY <1>1, <1>4, <1>10 DEF ScanAll

LEMMA OwnUnit ==
  ASSUME NEW v, WellFormed(v), NEW e \in Encodings, NEW i \in DOMAIN v.bytes, v.bytes[i] \notin 192..255
  PROVE  Unit(v, i, e) = [byte |-> v.bytes[i], width |-> 1, encoded |-> Escaped(v, i)]
<1>1. \/ Unit(v, i, e) = [byte |-> v.bytes[i], width |-> 1, encoded |-> Escaped(v, i)]
      \/ v.bytes[i] \in 192..255 /\ Unit(v, i, e).byte \in 0..127
  BY UnitRead
<1> QED BY <1>1, Zenon

LEMMA UppercaseIsClass ==
  ASSUME NEW x, x \in Uppercase
  PROVE  /\ x \notin 192..255 /\ x \notin 128..191
         /\ \A u, after : u.byte = x => ClassOf(u, after) = {"Case"}
<1>1. x \in 65..90
  BY DEF Uppercase
<1>2. x \notin 192..255 /\ x \notin 128..191
  BY <1>1
<1>3. x \notin {Slash, Dot, Semicolon, Hash, Question, Backslash, Nul}
  BY <1>1 DEF Slash, Dot, Semicolon, Hash, Question, Backslash, Nul
<1>4. ASSUME NEW u, NEW after, u.byte = x PROVE ClassOf(u, after) = {"Case"}
  BY <1>3, <1>4 DEF ClassOf
<1> QED BY <1>2, <1>4

\* An uppercase letter is reported, whatever classes are enabled.
LEMMA UppercaseFound ==
  ASSUME NEW c \in Config, NEW b \in Seq(Byte), Len(b) < NoOffset, NEW enabled, HasUppercase(b)
  PROVE  "Case" \in ScanOf(Original(b), enabled, c.enc).classes
<1>1. PICK v : v = Original(b)
  OBVIOUS
<1>2. WellFormed(v) /\ v.bytes = b /\ c.enc \in Encodings
  <2>1. v.bytes = b /\ v.original = b /\ v.decoded = FALSE
    BY <1>1 DEF Original
  <2> QED BY <2>1 DEF WellFormed, Config
<1>3. PICK i \in DOMAIN b : b[i] \in Uppercase
  BY DEF HasUppercase
<1>0. /\ b[i] \notin 192..255 /\ b[i] \notin 128..191
       /\ \A u, after : u.byte = b[i] => ClassOf(u, after) = {"Case"}
  BY <1>3, UppercaseIsClass
<1>4. PICK p : p = [at |-> i, unit |-> Unit(v, i, c.enc)]
  OBVIOUS
<1>5. p.at = i /\ p.unit.byte = b[i]
  <2>1. b[i] \notin 192..255
    BY <1>0
  <2>2. Unit(v, i, c.enc) = [byte |-> v.bytes[i], width |-> 1, encoded |-> Escaped(v, i)]
    <3>1. i \in DOMAIN v.bytes /\ v.bytes[i] \notin 192..255
      BY <1>2, <2>1
    <3> QED BY <1>2, <3>1, OwnUnit
  <2> QED BY <1>2, <1>4, <2>2
<1>6. PICK u : u = Units(v, c.enc)
  OBVIOUS
<1>7. p \in u
  <2>1. \A j \in DOMAIN b : ~(j < i /\ i < j + Unit(v, j, c.enc).width)
    <3>1. b[i] \notin 128..191
      BY <1>0
    <3> QED BY <1>2, <3>1, InsideUnit
  <2> DEFINE read == {[at |-> k, unit |-> Unit(v, k, c.enc)] : k \in DOMAIN v.bytes}
  <2>2. \A q \in read : q.at \in DOMAIN b /\ q.unit = Unit(v, q.at, c.enc)
    BY <1>2
  <2>3. p \in read
    BY <1>2, <1>4
  <2>4. u = {y \in read : ~\E q \in read : q.at < y.at /\ y.at < q.at + q.unit.width}
    BY <1>6 DEF Units
  <2> HIDE DEF read
  <2>5. ~\E q \in read : q.at < p.at /\ p.at < q.at + q.unit.width
    BY <1>5, <2>1, <2>2
  <2> QED BY <2>3, <2>4, <2>5
<1>8. ClassAt(u, p) = {"Case"}
  BY <1>5, <1>0 DEF ClassAt
<1>9. PICK r, G : r = ScanOf(v, enabled, c.enc) /\ G = AllSegments(u, enabled)
  OBVIOUS
<1>10. Tallies(r, v, u, u, G, enabled)
  <2>1. Len(v.original) < NoOffset
    BY <1>1 DEF Original
  <2> QED BY <1>2, <1>6, <1>9, <2>1, ScanTallies
<1> QED BY <1>1, <1>7, <1>8, <1>9, <1>10 DEF Tallies

-----------------------------------------------------------------------------
(***************************************************************************)
(* The knobs, one after the other.                                         *)
(***************************************************************************)
\* What AtLeastAsStrict says of the checks' settings.
Outdoes(c, d) ==
  /\ Widens(d.enc, c.enc)
  /\ d.up_to_two => c.up_to_two
  /\ d.insensitive => c.insensitive
  /\ c.max_len \in Nat /\ d.max_len \in Nat /\ c.max_len <= d.max_len
  /\ c.insensitive \in BOOLEAN /\ d.insensitive \in BOOLEAN
  /\ Positional(d) \subseteq Positional(c)
  /\ Strict(d) \subseteq Strict(c)
  /\ Positional(d) \subseteq Strict(c)

LEMMA KnobsCover ==
  ASSUME NEW c \in Config, NEW d \in Config, AtLeastAsStrict(c, d)
  PROVE  Outdoes(c, d)
<1>1. d.options \subseteq c.options /\ (d.insensitive => c.insensitive)
  BY DEF AtLeastAsStrict
<1>2. Positional(d) \subseteq Positional(c)
  BY <1>1 DEF Positional, EnabledClasses
<1>3. Strict(d) \subseteq Strict(c) /\ Positional(d) \subseteq Strict(c)
  BY <1>1, <1>2 DEF Strict
<1> QED BY <1>2, <1>3 DEF Outdoes, AtLeastAsStrict, Config, Widens

LEMMA ProbesMonotone ==
  ASSUME NEW c \in Config, NEW d \in Config, AtLeastAsStrict(c, d), NEW b \in Seq(Byte), ProbesPass(c, b)
  PROVE  ProbesPass(d, b)
<1>1. PICK p, q : p = d.probes /\ q = c.probes
  OBVIOUS
<1>2. /\ p \in Seq(BOOLEAN) /\ q \in Seq(BOOLEAN) /\ c.max_len \in Nat /\ d.max_len \in Nat
      /\ Len(p) <= Len(q) /\ SubSeq(p, 1, Len(p)) = SubSeq(q, 1, Len(p)) /\ c.max_len <= d.max_len
  BY <1>1 DEF Config, AtLeastAsStrict, IsPrefix
<1>3. \A k \in 1..Len(p) : k \in 1..Len(q) /\ p[k] = q[k]
  <2>1. \A k \in 1..Len(p) : SubSeq(p, 1, Len(p))[k] = p[k] /\ SubSeq(q, 1, Len(p))[k] = q[k]
    BY <1>2
  <2> QED BY <1>2, <2>1
<1>4. SUFFICES ASSUME p # << >> PROVE Len(b) <= d.max_len /\ \A k \in DOMAIN p : ~p[k]
  BY <1>1 DEF ProbesPass
<1>5. q # << >>
  BY <1>2, <1>4
<1>6. Len(b) <= c.max_len /\ \A k \in DOMAIN q : ~q[k]
  BY <1>1, <1>5 DEF ProbesPass
<1>7. DOMAIN p = 1..Len(p) /\ DOMAIN q = 1..Len(q) /\ Len(b) \in Nat
  BY <1>2
<1>8. \A k \in DOMAIN p : ~p[k]
  BY <1>3, <1>6, <1>7, Zenon
<1> QED BY <1>2, <1>6, <1>7, <1>8

\* A request without an escape has one interpretation.
LEMMA UnescapedScan ==
  ASSUME NEW b \in Seq(Byte), ~HasEscape(b), NEW c \in Config
  PROVE  /\ \A two : Interpretations(b, two) = <<Original(b)>>
         /\ \A enabled : ScanAll(c, b, enabled).classes = ScanOf(Original(b), enabled, c.enc).classes
<1>1. \A two : Interpretations(b, two) = <<Original(b)>>
  BY DEF Interpretations
<1>2. ASSUME NEW enabled
      PROVE  ScanAll(c, b, enabled).classes = ScanOf(Original(b), enabled, c.enc).classes
  <2>1. PICK views : views = Interpretations(b, c.up_to_two)
    OBVIOUS
  <2>2. Len(views) = 1 /\ views[1] = Original(b)
    BY <1>1, <2>1
  <2>3. PICK joined : joined = Joined(views, enabled, c.enc)
    OBVIOUS
  <2>4. joined[0] = EmptyResult
    BY <2>2, <2>3, JoinedUnfolds
  <2>5. joined[0 + 1] = Include(joined[0], ScanOf(views[0 + 1], enabled, c.enc))
    <3>1. 0 \in 0..(Len(views) - 1) /\ Len(views) \in 1..3
      BY <2>2
    <3> QED BY <2>3, <3>1, JoinedStep
  <2>6. joined[1] = Include(EmptyResult, ScanOf(Original(b), enabled, c.enc))
    BY <2>2, <2>4, <2>5
  <2>7. joined[1].classes = ScanOf(Original(b), enabled, c.enc).classes
    BY <2>6 DEF Include, EmptyResult
  <2>8. ScanAll(c, b, enabled) = joined[1]
    BY <2>1, <2>2, <2>3 DEF ScanAll
  <2> QED BY <2>7, <2>8
<1> QED BY <1>1, <1>2

\* The strict mode: what is canonical under more recognition is canonical.
LEMMA CanonicalStricter ==
  ASSUME NEW c \in Config, NEW d \in Config, Outdoes(c, d), NEW b \in Seq(Byte), Len(b) < NoOffset,
         Canonical(c, b)
  PROVE  Canonical(d, b)
<1>1. FindsAtLeast(ScanAll(c, b, Strict(c)), ScanAll(d, b, Strict(d)))
  BY ScanAllMonotone DEF Outdoes
<1> QED BY <1>1 DEF Canonical, FindsAtLeast, Outdoes

\* The mode: what is canonical is unambiguous, a stray percent sign over the budget apart.
LEMMA CanonicalUnambiguous ==
  ASSUME NEW t, NEW c \in Config, NEW d \in Config, Outdoes(c, d), NEW b \in Seq(Byte), Len(b) < NoOffset,
         Canonical(c, b), ~(Len(b) > d.max_len /\ \E i \in DOMAIN b : b[i] = PercentSign)
  PROVE  Unambiguous(t, d, b)
<1>1. ~HasEscape(b)
  BY DEF Canonical
<1>2. ScanAll(d, b, Positional(d)).classes \cap Positional(d) = {}
  <2>1. FindsAtLeast(ScanAll(c, b, Strict(c)), ScanAll(d, b, Positional(d)))
    BY ScanAllMonotone DEF Outdoes
  <2> QED BY <2>1 DEF Canonical, FindsAtLeast, Outdoes
<1>3. d.insensitive => ~HasUppercase(b)
  <2>1. SUFFICES ASSUME d.insensitive, HasUppercase(b) PROVE FALSE
    OBVIOUS
  <2>2. "Case" \in Strict(c)
    BY <2>1 DEF Outdoes, Strict
  <2>3. "Case" \in ScanAll(c, b, Strict(c)).classes
    BY <1>1, <2>1, UppercaseFound, UnescapedScan
  <2> QED BY <2>2, <2>3 DEF Canonical
<1>4. \A v \in Spellings(d, b) : v = b
  <2>1. PICK views : views = Interpretations(b, d.up_to_two)
    OBVIOUS
  <2>2. \A k \in DOMAIN views : views[k].bytes = b
    <3>1. views = <<Original(b)>>
      BY <1>1, <2>1, UnescapedScan
    <3>2. Original(b).bytes = b
      BY DEF Original
    <3> QED BY <3>1, <3>2
  <2>3. d.insensitive => Lowered(b) = b
    BY <1>3, FoldingIsIdle
  <2> QED BY <2>1, <2>2, <2>3 DEF Spellings
<1>5. Len(b) > d.max_len => \A i \in DOMAIN b : b[i] \notin ContentBytes(d.insensitive)
  BY <1>3 DEF ContentBytes, HasUppercase
<1> QED BY <1>2, <1>4, <1>5 DEF Unambiguous

\* The default mode: what more findings, a nearer anchor and more spellings leave
\* unambiguous is unambiguous, a spelling that only a folded one stands for apart.
LEMMA UnambiguousStricter ==
  ASSUME NEW t, IsView(t), NEW c \in Config, NEW d \in Config, Outdoes(c, d),
         NEW b \in Seq(Byte), b # << >>, Len(b) < NoOffset, IsRequestPath(b), Unambiguous(t, c, b),
         ~(/\ c.insensitive /\ ~d.insensitive
           /\ \E v \in Spellings(d, b) : HasUppercase(v) /\ Resolve(t, v) # Resolve(t, b))
  PROVE  Unambiguous(t, d, b)
<1>1. PICK wide, narrow : /\ wide = ScanAll(c, b, Positional(c))
                          /\ narrow = ScanAll(d, b, Positional(d))
  OBVIOUS
<1>2. FindsAtLeast(wide, narrow) /\ Locates(wide, Positional(c)) /\ Locates(narrow, Positional(d))
  BY <1>1, ScanAllMonotone, ScanAllLocates DEF Outdoes
<1>3. narrow.classes \cap Positional(d) \subseteq wide.classes \cap Positional(c)
  BY <1>2 DEF FindsAtLeast, Outdoes
<1>4. ASSUME narrow.classes \cap Positional(d) # {}
      PROVE  /\ "Truncation" \notin narrow.classes \cap Positional(d)
             /\ narrow.earliest # NoOffset
             /\ RulesBeyond(t, AnchorFor(b, narrow, d.insensitive)) = {Resolve(t, b)}
  <2>1. /\ "Truncation" \notin wide.classes \cap Positional(c)
        /\ RulesBeyond(t, AnchorFor(b, wide, c.insensitive)) = {Resolve(t, b)}
    BY <1>1, <1>3, <1>4 DEF Unambiguous
  <2>2. PICK p, q : p = AnchorFor(b, wide, c.insensitive) /\ q = AnchorFor(b, narrow, d.insensitive)
    OBVIOUS
  <2>3. Sized(wide) /\ Sized(narrow)
    BY <1>2, LocatesSizes
  <2>4. Begins(AnchorSegments(p), AnchorSegments(q))
    BY <1>2, <2>2, <2>3, AnchorsBegin DEF Sized, Outdoes
  <2>5. p \in Seq(Byte) /\ q \in Seq(Byte)
    BY <2>2, <2>3, StablePrefixIsPath, RaisedIsPath DEF AnchorFor, Sized
  <2>6. AnchorIds(t, AnchorSegments(q)) \subseteq AnchorIds(t, AnchorSegments(p))
    <3>1. PICK g, h : g = AnchorSegments(p) /\ h = AnchorSegments(q)
      OBVIOUS
    <3>2. /\ Len(g) \in Nat /\ g = [k \in 1..Len(g) |-> g[k]] /\ (g = << >> <=> Len(g) = 0)
          /\ Len(h) \in Nat /\ h = [k \in 1..Len(h) |-> h[k]] /\ (h = << >> <=> Len(h) = 0)
      BY <2>5, <3>1, AnchorSegmentsSequence
    <3>3. Begins(g, h)
      BY <2>4, <3>1
    <3>4. Len(g) = Len(h) => g = h
      <4>1. SUFFICES ASSUME Len(g) = Len(h) PROVE g = h
        OBVIOUS
      <4>2. \A k \in 1..Len(g) : g[k] = h[k]
        BY <3>3 DEF Begins
      <4>3. [k \in 1..Len(g) |-> g[k]] = [k \in 1..Len(h) |-> h[k]]
        BY <4>1, <4>2
      <4> QED BY <3>2, <4>3
    <3> QED BY <3>1, <3>2, <3>3, <3>4, BeyondGrows
  <2>7. AnchorIds(t, AnchorSegments(q)) # {}
    BY <2>5, AnchorSegmentsSequence, AnchorIdsNonempty
  <2>8. RulesBeyond(t, q) = {Resolve(t, b)}
    BY <2>1, <2>2, <2>6, <2>7 DEF RulesBeyond
  <2> QED BY <1>2, <1>3, <1>4, <2>1, <2>2, <2>8 DEF Locates
<1>5. ASSUME NEW v \in Spellings(d, b) PROVE Resolve(t, v) = Resolve(t, b)
  <2>1. \A x \in Spellings(c, b) : Resolve(t, x) = Resolve(t, b)
    BY DEF Unambiguous
  <2>2. PICK views, more : views = Interpretations(b, d.up_to_two) /\ more = Interpretations(b, c.up_to_two)
    OBVIOUS
  <2>3. \A k \in DOMAIN views : k \in DOMAIN more /\ views[k] = more[k]
    <3>1. Begins(views, more)
      BY <2>2, InterpretationsBegin DEF Outdoes
    <3>2. DOMAIN views = 1..Len(views) /\ DOMAIN more = 1..Len(more)
      BY <2>2, ViewsShape DEF Shaped
    <3> QED BY <3>1, <3>2 DEF Begins
  <2>4. PICK k \in DOMAIN views : v = IF d.insensitive THEN Lowered(views[k].bytes) ELSE views[k].bytes
    BY <2>2 DEF Spellings
  <2>5. /\ c.insensitive => Lowered(views[k].bytes) \in Spellings(c, b)
        /\ ~c.insensitive => views[k].bytes \in Spellings(c, b)
    BY <2>2, <2>3, <2>4 DEF Spellings
  <2>6. CASE c.insensitive = d.insensitive
    BY <2>1, <2>4, <2>5, <2>6
  <2>7. CASE c.insensitive /\ ~d.insensitive
    <3>1. CASE HasUppercase(v)
      BY <1>5, <2>7, <3>1
    <3>2. CASE ~HasUppercase(v)
      <4>1. v = views[k].bytes
        BY <2>4, <2>7
      <4>2. v = [i \in DOMAIN v |-> v[i]]
        <5>1. WellFormed(views[k])
          BY <2>2, <2>4, InterpretationsSound, ViewsShape DEF Shaped
        <5> QED BY <4>1, <5>1 DEF WellFormed
      <4>3. Lowered(v) = v
        BY <3>2, <4>2, FoldingIsIdle
      <4> QED BY <2>1, <2>5, <2>7, <4>1, <4>3
    <3> QED BY <3>1, <3>2
  <2> QED BY <2>6, <2>7 DEF Outdoes
<1>6. Len(b) > d.max_len => /\ narrow.classes \cap Positional(d) = {}
                            /\ \A i \in DOMAIN b : b[i] \notin ContentBytes(d.insensitive)
  <2>1. Len(b) > d.max_len => Len(b) > c.max_len
    BY DEF Outdoes
  <2>2. ContentBytes(d.insensitive) \subseteq ContentBytes(c.insensitive)
    BY DEF ContentBytes, Outdoes
  <2> QED BY <1>1, <1>3, <2>1, <2>2 DEF Unambiguous
<1> QED BY <1>1, <1>4, <1>5, <1>6 DEF Unambiguous

\* Two exceptions apart, whatever a configuration permits, one whose every knob is at
\* most as strict permits too (docs/reference/contract.md:77).
THEOREM StricterPermits ==
  ASSUME NEW t, IsView(t), NEW c \in Config, NEW d \in Config, AtLeastAsStrict(c, d),
         NEW b \in Seq(Byte), b # << >>, Len(b) < NoOffset, Permits(t, c, b)
  PROVE  Permits(t, d, b) \/ FoldedAway(t, c, d, b) \/ StrayPercentOverBudget(c, d, b)
<1>1. Outdoes(c, d) /\ c.mode \in Modes /\ d.mode \in Modes
  BY KnobsCover DEF Config
<1>2. IsRequestPath(b) /\ Resolve(t, b) # DENIED_RULE
  BY DEF Permits
<1>3. \/ d.mode = "Disabled"
      \/ c.mode = "RejectAmbiguous" /\ d.mode = "RejectAmbiguous"
      \/ c.mode = "RequireCanonical" /\ d.mode = "RequireCanonical"
      \/ c.mode = "RequireCanonical" /\ d.mode = "RejectAmbiguous"
  BY <1>1 DEF AtLeastAsStrict, Modes
<1>4. CASE d.mode = "Disabled"
  BY <1>2, <1>4 DEF Permits
<1>5. CASE c.mode = "RejectAmbiguous" /\ d.mode = "RejectAmbiguous"
  <2>1. Unambiguous(t, c, b) /\ ProbesPass(c, b)
    BY <1>5 DEF Permits
  <2>2. ProbesPass(d, b)
    BY <2>1, ProbesMonotone
  <2>3. Unambiguous(t, d, b) \/ FoldedAway(t, c, d, b)
    BY <1>1, <1>2, <1>5, <2>1, UnambiguousStricter DEF FoldedAway
  <2> QED BY <1>2, <1>5, <2>2, <2>3 DEF Permits
<1>6. CASE c.mode = "RequireCanonical" /\ d.mode = "RequireCanonical"
  <2>1. Canonical(c, b) /\ ProbesPass(c, b)
    BY <1>6 DEF Permits
  <2>2. Canonical(d, b) /\ ProbesPass(d, b)
    BY <1>1, <2>1, ProbesMonotone, CanonicalStricter
  <2> QED BY <1>2, <1>6, <2>2 DEF Permits
<1>7. CASE c.mode = "RequireCanonical" /\ d.mode = "RejectAmbiguous"
  <2>1. Canonical(c, b) /\ ProbesPass(c, b)
    BY <1>7 DEF Permits
  <2>2. ProbesPass(d, b)
    BY <2>1, ProbesMonotone
  <2>3. Unambiguous(t, d, b) \/ StrayPercentOverBudget(c, d, b)
    BY <1>1, <1>7, <2>1, CanonicalUnambiguous DEF StrayPercentOverBudget
  <2> QED BY <1>2, <1>7, <2>2, <2>3 DEF Permits
<1> QED BY <1>3, <1>4, <1>5, <1>6, <1>7


-----------------------------------------------------------------------------
(***************************************************************************)
(* A plain path is permitted.                                              *)
(***************************************************************************)
\* The byte leads no alternate spelling, has no class of its own, and ends a segment
\* only if it is a slash.
IsNeutral(x) ==
  /\ x \notin 192..255
  /\ \A unit, after : unit.byte = x /\ ~unit.encoded /\ ~(x = Slash /\ after) => ClassOf(unit, after) = {}
  /\ \A unit, enabled : unit.byte = x /\ ~unit.encoded =>
       /\ Separates(unit, enabled) <=> x = Slash
       /\ ~Delimits(unit, enabled)

LEMMA PlainByte ==
  ASSUME NEW x, x \in 1..127, x \notin Uppercase \cup {PercentSign, Semicolon, Backslash, Question, Hash}
  PROVE  IsNeutral(x)
<1>1. x \notin 192..255 /\ x # Nul
  BY DEF Nul
<1>2. ASSUME NEW unit, NEW after, unit.byte = x, ~unit.encoded, ~(x = Slash /\ after)
      PROVE  ClassOf(unit, after) = {}
  <2>0. Slash # Dot /\ x \notin {Semicolon, Hash, Question, Backslash, Nul} /\ x \notin Uppercase
    BY <1>1 DEF Slash, Dot
  <2>1. CASE x = Slash
    <3>1. ~after
      BY <1>2, <2>1
    <3> QED BY <1>2, <2>0, <2>1, <3>1 DEF ClassOf
  <2>2. CASE x = Dot
    BY <1>2, <2>0, <2>2 DEF ClassOf
  <2>3. CASE x # Slash /\ x # Dot
    BY <1>1, <1>2, <2>3 DEF ClassOf
  <2> QED BY <2>1, <2>2, <2>3
<1>3. ASSUME NEW unit, NEW enabled, unit.byte = x, ~unit.encoded
      PROVE  (Separates(unit, enabled) <=> x = Slash) /\ ~Delimits(unit, enabled)
  BY <1>3 DEF Separates, Delimits
<1> QED BY <1>1, <1>2, <1>3 DEF IsNeutral

LEMMA PlainBytes ==
  ASSUME NEW b, Plain(b), NEW i \in DOMAIN b
  PROVE  IsNeutral(b[i])
<1>1. PICK x : x = b[i]
  OBVIOUS
<1>2. x \in 1..127 /\ x \notin Uppercase \cup {PercentSign, Semicolon, Backslash, Question, Hash}
  BY <1>1 DEF Plain
<1>3. IsNeutral(x)
  BY <1>2, PlainByte
<1> QED BY <1>1, <1>3

\* The unit of a byte that stands for itself.
Itself(b, i) == [at |-> i, unit |-> [byte |-> b[i], width |-> 1, encoded |-> FALSE]]

LEMMA PlainUnits ==
  ASSUME NEW b \in Seq(Byte), Plain(b), NEW enc \in Encodings
  PROVE  Units(Original(b), enc) = {Itself(b, i) : i \in DOMAIN b}
<1>1. PICK v : v = Original(b)
  OBVIOUS
<1>2. WellFormed(v) /\ v.bytes = b /\ v.decoded = FALSE
  BY <1>1 DEF Original, WellFormed
<1>3. \A i \in DOMAIN b : Unit(v, i, enc) = [byte |-> b[i], width |-> 1, encoded |-> FALSE]
  <2>1. SUFFICES ASSUME NEW i \in DOMAIN b
                 PROVE  Unit(v, i, enc) = [byte |-> b[i], width |-> 1, encoded |-> FALSE]
    OBVIOUS
  <2>2. b[i] \notin 192..255
    BY PlainBytes DEF IsNeutral
  <2>3. ~Escaped(v, i) /\ Escaped(v, i) \in BOOLEAN
    BY <1>2 DEF Escaped
  <2>4. Unit(v, i, enc) = [byte |-> v.bytes[i], width |-> 1, encoded |-> Escaped(v, i)]
    BY <1>2, <2>2, OwnUnit
  <2> QED BY <1>2, <2>3, <2>4
<1>4. PICK read : read = {[at |-> i, unit |-> Unit(v, i, enc)] : i \in DOMAIN b}
  OBVIOUS
<1>5. Units(v, enc) = {p \in read : ~\E q \in read : q.at < p.at /\ p.at < q.at + q.unit.width}
  BY <1>2, <1>4 DEF Units
<1>6. read = {Itself(b, i) : i \in DOMAIN b}
  BY <1>3, <1>4 DEF Itself
<1>7. \A p \in read : p.at \in Nat /\ p.unit.width = 1
  BY <1>6 DEF Itself
<1>8. \A p \in read : ~\E q \in read : q.at < p.at /\ p.at < q.at + q.unit.width
  BY <1>7
<1> QED BY <1>1, <1>5, <1>6, <1>8

\* What stands between a slash and the next one, or the end.
Spans(b, s, e) ==
  /\ e \in (s + 1)..(Len(b) + 1)
  /\ e \in SlashesOf(b) \cup {Len(b) + 1}
  /\ \A i \in (s + 1)..(e - 1) : i \in 1..Len(b) /\ i \notin SlashesOf(b)

\* Where the segments of a path are cut.
Cuts(b) == Append(SlashList(b), Len(b) + 1)

\* Segment k stands between two cuts, and every slash is a cut.
CutsSegments(b, L, cuts) ==
  /\ Len(L) \in Nat /\ Len(L) <= Len(b)
  /\ PathOf(b) = [k \in 1..Len(L) |-> SubSeq(b, cuts[k] + 1, cuts[k + 1] - 1)]
  /\ \A k \in 1..Len(L) : cuts[k] \in SlashesOf(b) /\ Spans(b, cuts[k], cuts[k + 1])
  /\ \A k \in 1..Len(L) : cuts[k + 1] = Len(b) + 1 <=> k = Len(L)
  /\ \A s \in SlashesOf(b) : \E k \in 1..Len(L) : cuts[k] = s
  /\ cuts[Len(L) + 1] = Len(b) + 1

\* A path is cut at its slashes.
LEMMA CutsAre ==
  ASSUME NEW b \in Seq(Byte)
  PROVE  CutsSegments(b, SlashList(b), Cuts(b))
<1>1. PICK L, cuts : L = SlashList(b) /\ cuts = Append(L, Len(b) + 1)
  OBVIOUS
<1>2. PICK n \in Nat : n = Len(b)
  OBVIOUS
<1>3. IsInOrder(L, SlashesOf(b), n)
  BY <1>1, <1>2, InOrderIs DEF SlashList
<1>4. /\ L \in Seq(Nat) /\ Len(L) \in Nat
      /\ \A k \in 1..Len(L) : L[k] \in SlashesOf(b) /\ L[k] \in 1..n
      /\ \A i, j \in 1..Len(L) : i < j => L[i] < L[j]
      /\ \A x \in SlashesOf(b) : x \in 1..n => \E k \in 1..Len(L) : L[k] = x
  BY <1>3 DEF IsInOrder
<1>5. PathOf(b) = [k \in 1..Len(L) |-> SubSeq(b, cuts[k] + 1, cuts[k + 1] - 1)]
  BY <1>1 DEF PathOf, SlashList, SlashesOf
<1>6. cuts[Len(L) + 1] = n + 1 /\ \A k \in 1..Len(L) : cuts[k] = L[k]
  BY <1>1, <1>2, <1>4
<1>7. ASSUME NEW k \in 1..Len(L)
      PROVE  cuts[k] \in SlashesOf(b) /\ Spans(b, cuts[k], cuts[k + 1]) /\ (cuts[k + 1] = n + 1 <=> k = Len(L))
  <2>1. PICK s \in SlashesOf(b) : s = cuts[k] /\ s = L[k] /\ s \in 1..n
    BY <1>4, <1>6
  <2>2. PICK e : e = cuts[k + 1]
    OBVIOUS
  <2>3. /\ k = Len(L) => e = n + 1
        /\ k # Len(L) => k + 1 \in 1..Len(L) /\ e = L[k + 1]
    BY <1>4, <1>6, <2>2
  <2>4. /\ e \in (s + 1)..(n + 1) /\ e \in SlashesOf(b) \cup {n + 1}
        /\ k # Len(L) => e # n + 1
    <3>1. CASE k = Len(L)
      BY <2>1, <2>3, <3>1
    <3>2. CASE k # Len(L)
      <4>1. k + 1 \in 1..Len(L) /\ e = L[k + 1] /\ k \in 1..Len(L) /\ k < k + 1
        BY <1>4, <2>3, <3>2
      <4>2. e \in SlashesOf(b) /\ e \in 1..n
        BY <1>4, <4>1
      <4>3. s < e
        BY <1>4, <2>1, <4>1
      <4> QED BY <2>1, <4>2, <4>3
    <3> QED BY <3>1, <3>2
  <2>5. ASSUME NEW i \in (s + 1)..(e - 1)
        PROVE  i \in 1..n /\ i \notin SlashesOf(b)
    <3>1. i \in 1..n /\ s < i /\ i < e
      BY <2>1, <2>4
    <3>2. SUFFICES ASSUME i \in SlashesOf(b) PROVE FALSE
      BY <3>1
    <3>3. PICK m \in 1..Len(L) : L[m] = i
      BY <1>4, <3>1, <3>2
    <3>4. m > k
      <4>1. m \in Nat /\ k \in Nat
        BY <1>4
      <4>2. m = k => i = s
        BY <2>1, <3>3
      <4>3. m < k => i < s
        BY <1>4, <2>1, <3>3
      <4> QED BY <2>1, <3>1, <4>1, <4>2, <4>3
    <3>5. k # Len(L) /\ k + 1 \in 1..Len(L) /\ e = L[k + 1]
      BY <1>4, <2>3, <3>4
    <3>6. m = k + 1 \/ k + 1 < m
      BY <3>4
    <3>7. e = i \/ e < i
      BY <1>4, <3>3, <3>5, <3>6
    <3> QED BY <2>1, <2>4, <3>1, <3>7
  <2>6. Spans(b, s, e)
    BY <1>2, <2>4, <2>5 DEF Spans
  <2> QED BY <2>1, <2>2, <2>3, <2>4, <2>6
<1>8. \A s \in SlashesOf(b) : \E k \in 1..Len(L) : cuts[k] = s
  BY <1>2, <1>4, <1>6 DEF SlashesOf
<1>9. Len(L) <= n
  <2>1. SUFFICES ASSUME n + 1 <= Len(L) PROVE FALSE
    BY <1>4
  <2>2. \A k \in 1..Len(L) : L[k] >= k
    <3> DEFINE P == {k \in 1..Len(L) : L[k] < k}
    <3>1. SUFFICES ASSUME P # {} PROVE FALSE
      BY <1>4
    <3>2. P \in SUBSET Nat
      OBVIOUS
    <3>3. PICK k \in P : \A j \in P : k <= j
      BY <3>1, <3>2, LeastNatural
    <3>4. k \in 1..Len(L) /\ L[k] < k /\ L[k] \in 1..n
      BY <1>4
    <3>5. k - 1 \in 1..Len(L) /\ k - 1 < k
      BY <1>4, <3>4
    <3>6. L[k - 1] < L[k] /\ L[k - 1] \in 1..n
      BY <1>4, <3>4, <3>5
    <3>7. k - 1 \in P
      <4>1. PICK x, y \in Nat : x = L[k - 1] /\ y = L[k]
        BY <3>4, <3>6
      <4>2. x < k - 1
        BY <3>4, <3>6, <4>1
      <4> QED BY <3>5, <4>1, <4>2
    <3> QED BY <3>3, <3>4, <3>7
  <2>3. n + 1 \in 1..Len(L)
    BY <1>4, <2>1
  <2> QED BY <1>4, <2>2, <2>3
<1> QED BY <1>1, <1>2, <1>4, <1>5, <1>6, <1>7, <1>8, <1>9 DEF CutsSegments, Cuts

\* Behind each slash of a plain path stands neither another slash nor a dot-segment.
LEMMA PlainSegment ==
  ASSUME NEW b \in Seq(Byte), Plain(b), NEW s \in SlashesOf(b)
  PROVE  \E e : /\ Spans(b, s, e)
                /\ e = s + 1 => e = Len(b) + 1
                /\ e = s + 2 => b[s + 1] # Dot
                /\ e = s + 3 => ~(b[s + 1] = Dot /\ b[s + 2] = Dot)
<1>1. PICK L, cuts, all : L = SlashList(b) /\ cuts = Cuts(b) /\ all = PathOf(b)
  OBVIOUS
<1>2. PICK n \in Nat : n = Len(b)
  OBVIOUS
<1>4. CutsSegments(b, L, cuts) /\ Len(L) \in Nat
  BY <1>1, CutsAre DEF CutsSegments
<1>5. all = [k \in 1..Len(L) |-> SubSeq(b, cuts[k] + 1, cuts[k + 1] - 1)]
  BY <1>1, <1>4 DEF CutsSegments
<1>6. s \in 1..n
  BY <1>2 DEF SlashesOf
<1>7. PICK k \in 1..Len(L) : cuts[k] = s
  BY <1>4 DEF CutsSegments
<1>8. PICK e : e = cuts[k + 1]
  OBVIOUS
<1>9. cuts[k] = s /\ (k = Len(L) => e = n + 1)
  BY <1>2, <1>4, <1>7, <1>8 DEF CutsSegments
<1>12. Spans(b, s, e)
  BY <1>4, <1>7, <1>8 DEF CutsSegments
<1>10. e \in (s + 1)..(n + 1)
  BY <1>2, <1>12 DEF Spans
<1>13. PICK seg : seg = SubSeq(b, s + 1, e - 1)
  OBVIOUS
<1>14. seg \notin {<<Dot>>, <<Dot, Dot>>} /\ (seg = << >> => k = Len(L))
  <2>1. DOMAIN all = 1..Len(L) /\ Len(all) = Len(L)
    BY <1>4, <1>5
  <2>2. all[k] = seg
    BY <1>5, <1>8, <1>9, <1>13
  <2>3. k \in DOMAIN PathOf(b) /\ PathOf(b)[k] = seg /\ Len(PathOf(b)) = Len(L)
    BY <1>1, <2>1, <2>2
  <2>4. seg \notin {<<Dot>>, <<Dot, Dot>>} /\ (seg = Empty => k = Len(L))
    BY <2>3 DEF Plain
  <2> QED BY <2>4, EmptyAssumption
<1>15. Len(seg) = e - (s + 1) /\ seg = [j \in 1..(e - (s + 1)) |-> b[s + j]]
  <2>1. s \in 1..n /\ e \in (s + 1)..(n + 1)
    BY <1>6, <1>10
  <2>2. /\ seg \in Seq(Byte) /\ Len(seg) = e - (s + 1)
        /\ \A j \in 1..(e - (s + 1)) : seg[j] = b[s + j]
    BY <1>2, <1>13, <2>1
  <2>3. seg = [j \in 1..Len(seg) |-> seg[j]]
    BY <2>2
  <2> QED BY <2>2, <2>3
<1>16. e = s + 1 => e = n + 1
  <2>1. SUFFICES ASSUME e = s + 1 PROVE e = n + 1
    OBVIOUS
  <2>2. e - (s + 1) = 0
    BY <1>6, <2>1
  <2>3. seg = << >>
    BY <1>15, <2>2
  <2> QED BY <1>9, <1>14, <2>3
<1>17. e = s + 2 => b[s + 1] # Dot
  <2>1. SUFFICES ASSUME e = s + 2, b[s + 1] = Dot PROVE FALSE
    OBVIOUS
  <2>2. e - (s + 1) = 1
    BY <1>6, <2>1
  <2>3. seg = [j \in 1..1 |-> b[s + j]]
    BY <1>15, <2>2
  <2>4. seg = [j \in 1..1 |-> Dot]
    BY <2>1, <2>3
  <2>5. <<Dot>> = [j \in 1..1 |-> Dot]
    OBVIOUS
  <2> QED BY <1>14, <2>4, <2>5
<1>18. e = s + 3 => ~(b[s + 1] = Dot /\ b[s + 2] = Dot)
  <2>1. SUFFICES ASSUME e = s + 3, b[s + 1] = Dot, b[s + 2] = Dot PROVE FALSE
    OBVIOUS
  <2>2. e - (s + 1) = 2
    BY <1>6, <2>1
  <2>3. seg = [j \in 1..2 |-> b[s + j]]
    BY <1>15, <2>2
  <2>4. seg = [j \in 1..2 |-> Dot]
    <3>1. \A j \in 1..2 : b[s + j] = Dot
      BY <2>1
    <3> QED BY <2>3, <3>1
  <2>5. <<Dot, Dot>> = [j \in 1..2 |-> Dot]
    OBVIOUS
  <2> QED BY <1>14, <2>4, <2>5
<1> QED BY <1>2, <1>12, <1>16, <1>17, <1>18

\* No unit of a plain path has a class.
LEMMA PlainClasses ==
  ASSUME NEW b \in Seq(Byte), Plain(b), NEW u, u = {Itself(b, i) : i \in DOMAIN b}
  PROVE  \A p \in u : ClassAt(u, p) = {}
<1>1. SUFFICES ASSUME NEW i \in DOMAIN b PROVE ClassAt(u, Itself(b, i)) = {}
  OBVIOUS
<1>2. PICK p : p = Itself(b, i)
  OBVIOUS
<1>3. p.at = i /\ p.unit.byte = b[i] /\ p.unit.encoded = FALSE
  BY <1>2 DEF Itself
<1>4. ~(b[i] = Slash /\ AfterSlash(u, i))
  <2>1. SUFFICES ASSUME b[i] = Slash, NEW q \in u, q.at + q.unit.width = i, q.unit.byte = Slash
                 PROVE  FALSE
    BY DEF AfterSlash
  <2>2. PICK s \in DOMAIN b : q = Itself(b, s)
    OBVIOUS
  <2>3. s + 1 = i /\ b[s] = Slash
    BY <2>1, <2>2 DEF Itself
  <2>4. s \in SlashesOf(b) /\ i \in SlashesOf(b) /\ i \in 1..Len(b) /\ s \in 1..Len(b) /\ Len(b) \in Nat
    BY <2>1, <2>3 DEF SlashesOf
  <2>5. PICK e : Spans(b, s, e) /\ (e = s + 1 => e = Len(b) + 1)
    BY <2>4, PlainSegment
  <2>6. e \in (s + 1)..(Len(b) + 1) /\ \A j \in (s + 1)..(e - 1) : j \notin SlashesOf(b)
    BY <2>5 DEF Spans
  <2>7. e # s + 1
    BY <2>3, <2>4, <2>5
  <2>8. i \in (s + 1)..(e - 1)
    BY <2>3, <2>4, <2>6, <2>7
  <2> QED BY <2>4, <2>6, <2>8
<1>5. \A unit, after : unit.byte = b[i] /\ ~unit.encoded /\ ~(b[i] = Slash /\ after) => ClassOf(unit, after) = {}
  BY PlainBytes DEF IsNeutral
<1>6. ClassOf(p.unit, AfterSlash(u, p.at)) = {}
  BY <1>3, <1>4, <1>5
<1> QED BY <1>2, <1>6 DEF ClassAt

LEMMA ThreeCounted ==
  ASSUME NEW x, NEW y, NEW z, x # y, y # z, x # z
  PROVE  Cardinality({x, y, z}) = 3
<1>1. IsFiniteSet({x}) /\ Cardinality({x}) = 1
  BY FS_Singleton
<1>2. PICK two : two = {x} \cup {y}
  OBVIOUS
<1>3. IsFiniteSet(two) /\ Cardinality(two) = 2
  <2>1. y \notin {x}
    OBVIOUS
  <2>2. IsFiniteSet({x} \cup {y}) /\ Cardinality({x} \cup {y}) = Cardinality({x}) + 1
    BY <1>1, <2>1, FS_AddElement
  <2> QED BY <1>1, <1>2, <2>2
<1>4. z \notin two
  BY <1>2
<1>5. Cardinality(two \cup {z}) = Cardinality(two) + 1
  BY <1>3, <1>4, FS_AddElement
<1>6. {x, y, z} = two \cup {z}
  BY <1>2
<1> QED BY <1>3, <1>5, <1>6

\* No segment of a plain path is a dot-segment.
LEMMA PlainLiterals ==
  ASSUME NEW b \in Seq(Byte), Plain(b), NEW u, u = {Itself(b, i) : i \in DOMAIN b}, IsFiniteSet(u),
         NEW enabled, NEW g \in AllSegments(u, enabled)
  PROVE  ~IsLiteral(u, g, enabled)
<1>1. PICK n \in Nat : n = Len(b)
  OBVIOUS
<1>2. /\ DOMAIN b = 1..n /\ 1 \in SlashesOf(b)
      /\ \A i \in 1..n : i \in SlashesOf(b) <=> b[i] = Slash
      /\ SlashesOf(b) \subseteq 1..n
  BY <1>1, RootIsSlash DEF SlashesOf, Plain
<1>3. \A i \in 1..n : /\ Itself(b, i) \in u /\ Itself(b, i).at = i /\ Itself(b, i).unit.byte = b[i]
                      /\ Itself(b, i).unit.width = 1
                      /\ Separates(Itself(b, i).unit, enabled) <=> b[i] = Slash
                      /\ ~Delimits(Itself(b, i).unit, enabled)
  <2>1. SUFFICES ASSUME NEW i \in 1..n
                 PROVE  /\ Itself(b, i) \in u /\ Itself(b, i).at = i /\ Itself(b, i).unit.byte = b[i]
                        /\ Itself(b, i).unit.width = 1
                        /\ Separates(Itself(b, i).unit, enabled) <=> b[i] = Slash
                        /\ ~Delimits(Itself(b, i).unit, enabled)
    OBVIOUS
  <2>2. Itself(b, i) \in u
    BY <1>2
  <2>3. PICK p : p = Itself(b, i)
    OBVIOUS
  <2>4. p.at = i /\ p.unit.byte = b[i] /\ p.unit.width = 1 /\ ~p.unit.encoded
    BY <2>3 DEF Itself
  <2>5. \A unit, on : unit.byte = b[i] /\ ~unit.encoded =>
          (Separates(unit, on) <=> b[i] = Slash) /\ ~Delimits(unit, on)
    <3>1. IsNeutral(b[i])
      BY <1>2, PlainBytes
    <3> QED BY <3>1 DEF IsNeutral
  <2> QED BY <2>2, <2>3, <2>4, <2>5
<1>4. \A p \in u : \E i \in 1..n : p = Itself(b, i)
  BY <1>2
<1>5. PICK content, s : /\ content = g.content /\ s = g.start
                        /\ s \in StartsOf(u, enabled) /\ content = ContentFrom(u, enabled, s)
  BY SegmentStart
<1>6. BareUnits(u, g, enabled) = content
  <2>1. DelimitersOf(u, enabled) = {}
    BY <1>3, <1>4 DEF DelimitersOf
  <2> QED BY <1>5, <2>1 DEF BareUnits, BareContent
<1>7. \A i \in 1..n : Itself(b, i) \in Separators(u, enabled) <=> i \in SlashesOf(b)
  BY <1>2, <1>3 DEF Separators
<1>8. SUFFICES ASSUME content \subseteq Dots(u), Cardinality(content) \in 1..2 PROVE FALSE
  BY <1>6 DEF IsLiteral
<1>9. content # {}
  <2>1. Cardinality({}) = 0 /\ 0 \notin 1..2
    BY FS_EmptySet
  <2> QED BY <1>8, <2>1
<1>10. s \in Nat /\ s # 1
  <2>1. s \in Nat
    <3>1. ASSUME NEW q \in Separators(u, enabled) PROVE q.at + q.unit.width \in Nat
      <4>1. PICK i \in 1..n : q = Itself(b, i)
        BY <1>4 DEF Separators
      <4>2. q.at = i /\ q.unit.width = 1
        BY <1>3, <4>1
      <4> QED BY <4>2
    <3>2. s = 1 \/ \E q \in Separators(u, enabled) : s = q.at + q.unit.width
      BY <1>5 DEF StartsOf
    <3>3. 1 \in Nat
      OBVIOUS
    <3> QED BY <3>1, <3>2, <3>3, Zenon
  <2>2. ASSUME s = 1, NEW p \in content PROVE FALSE
    <3>1. PICK i \in 1..n : p = Itself(b, i)
      BY <1>4, <1>5, <2>2 DEF ContentFrom
    <3>2. Itself(b, 1) \in Separators(u, enabled) /\ Itself(b, 1).at = 1 /\ p.at = i
      BY <1>2, <1>3, <1>7, <3>1
    <3>3. 1 <= 1 /\ 1 <= i
      OBVIOUS
    <3> QED BY <1>5, <2>2, <3>2, <3>3 DEF ContentFrom
  <2> QED BY <1>9, <2>1, <2>2
<1>11. PICK r \in SlashesOf(b) : s = r + 1
  <2>1. PICK q \in Separators(u, enabled) : s = q.at + q.unit.width
    BY <1>5, <1>10 DEF StartsOf
  <2>2. PICK i \in 1..n : q = Itself(b, i)
    BY <1>4, <2>1 DEF Separators
  <2>3. i \in SlashesOf(b) /\ s = i + 1
    BY <1>3, <1>7, <2>1, <2>2
  <2> QED BY <2>3
<1>12. PICK e : /\ Spans(b, r, e)
                /\ e = r + 1 => e = n + 1
                /\ e = r + 2 => b[r + 1] # Dot
                /\ e = r + 3 => ~(b[r + 1] = Dot /\ b[r + 2] = Dot)
  BY <1>1, PlainSegment
<1>13. /\ r \in 1..n /\ e \in (r + 1)..(n + 1) /\ e \in SlashesOf(b) \cup {n + 1}
       /\ \A i \in (r + 1)..(e - 1) : i \in 1..n /\ i \notin SlashesOf(b)
  BY <1>1, <1>2, <1>12 DEF Spans
<1>14. \A i \in (r + 1)..(e - 1) : Itself(b, i) \in content /\ b[i] = Dot
  <2>1. SUFFICES ASSUME NEW i \in (r + 1)..(e - 1) PROVE Itself(b, i) \in content /\ b[i] = Dot
    OBVIOUS
  <2>2. i \in 1..n /\ Itself(b, i) \in u /\ Itself(b, i).at = i /\ i >= s
    BY <1>3, <1>11, <1>13
  <2>3. ASSUME NEW q \in Separators(u, enabled), s <= q.at, q.at <= i PROVE FALSE
    <3>1. PICK j \in 1..n : q = Itself(b, j)
      BY <1>4 DEF Separators
    <3>2. j \in SlashesOf(b) /\ q.at = j
      BY <1>3, <1>7, <3>1
    <3>3. j \in (r + 1)..(e - 1)
      BY <1>11, <1>13, <2>3, <3>2
    <3> QED BY <1>13, <3>2, <3>3
  <2>4. Itself(b, i) \in content
    BY <1>5, <2>2, <2>3 DEF ContentFrom
  <2>5. Itself(b, i).unit.byte = Dot
    BY <1>8, <2>4 DEF Dots
  <2> QED BY <1>3, <2>2, <2>4, <2>5
<1>15. e # r + 1
  <2>1. SUFFICES ASSUME e = r + 1, NEW p \in content PROVE FALSE
    BY <1>9
  <2>2. PICK i \in 1..n : p = Itself(b, i)
    BY <1>4, <1>5 DEF ContentFrom
  <2>3. p.at = i /\ p.at >= s
    BY <1>3, <1>5, <2>2 DEF ContentFrom
  <2> QED BY <1>11, <1>12, <1>13, <2>1, <2>3
<1>16. e > r + 3
  <2>1. e = r + 2 => r + 1 \in (r + 1)..(e - 1)
    BY <1>13
  <2>2. e = r + 3 => r + 1 \in (r + 1)..(e - 1) /\ r + 2 \in (r + 1)..(e - 1)
    BY <1>13
  <2>3. e # r + 2
    BY <1>12, <1>14, <2>1
  <2>4. e # r + 3
    BY <1>12, <1>14, <2>2
  <2> QED BY <1>13, <1>15, <2>3, <2>4
<1>17. PICK x, y, z : x = Itself(b, r + 1) /\ y = Itself(b, r + 2) /\ z = Itself(b, r + 3)
  OBVIOUS
<1>18. x \in content /\ y \in content /\ z \in content /\ x # y /\ y # z /\ x # z
  <2>1. r + 1 \in (r + 1)..(e - 1) /\ r + 2 \in (r + 1)..(e - 1) /\ r + 3 \in (r + 1)..(e - 1)
    BY <1>13, <1>16
  <2>2. x \in content /\ y \in content /\ z \in content
    BY <1>14, <1>17, <2>1
  <2>3. x.at = r + 1 /\ y.at = r + 2 /\ z.at = r + 3
    BY <1>17 DEF Itself
  <2> QED BY <1>13, <2>2, <2>3
<1>19. Cardinality({x, y, z}) = 3
  BY <1>18, ThreeCounted
<1>20. IsFiniteSet(content)
  <2>1. content \subseteq u
    BY <1>5 DEF ContentFrom
  <2> QED BY <2>1, FS_Subset
<1>21. {x, y, z} \subseteq content
  BY <1>18
<1>22. Cardinality({x, y, z}) <= Cardinality(content)
  BY <1>20, <1>21, FS_Subset
<1> QED BY <1>8, <1>19, <1>22

\* Nothing is found in a plain path, under any configuration.
LEMMA PlainScan ==
  ASSUME NEW b \in Seq(Byte), Len(b) < NoOffset, Plain(b), NEW enc \in Encodings, NEW enabled
  PROVE  ScanOf(Original(b), enabled, enc).classes = {}
<1>1. PICK v, u, r, G : /\ v = Original(b) /\ u = Units(v, enc)
                        /\ r = ScanOf(v, enabled, enc) /\ G = AllSegments(u, enabled)
  OBVIOUS
<1>2. WellFormed(v) /\ v.original = b
  BY <1>1 DEF Original, WellFormed
<1>3. u = {Itself(b, i) : i \in DOMAIN b} /\ IsFiniteSet(u)
  BY <1>1, <1>2, PlainUnits, SegmentsFinite
<1>4. \A p \in u : ClassAt(u, p) = {}
  BY <1>3, PlainClasses
<1>5. \A g \in G : ~IsLiteral(u, g, enabled)
  BY <1>1, <1>3, PlainLiterals
<1>6. Tallies(r, v, u, u, G, enabled)
  BY <1>1, <1>2, ScanTallies
<1>7. r.classes = (UNION {ClassAt(u, p) : p \in u}) \cup (IF \E g \in G : IsLiteral(u, g, enabled) THEN {"DotSegment"} ELSE {})
  BY <1>6 DEF Tallies
<1> QED BY <1>1, <1>4, <1>5, <1>7

\* Whatever the table and the configuration, a plain path passes every check of its
\* spelling.
THEOREM PlainPermitted ==
  ASSUME NEW t, NEW c \in Config, NEW b \in Seq(Byte), Len(b) < NoOffset, Plain(b)
  PROVE  IsRequestPath(b) /\ Canonical(c, b) /\ Unambiguous(t, c, b)
<1>1. \A i \in DOMAIN b : b[i] \notin {PercentSign, Question, Hash}
  BY DEF Plain
<1>2. IsRequestPath(b)
  BY <1>1 DEF IsRequestPath, Plain
<1>3. ~HasEscape(b)
  BY <1>1, EscapesHavePercent
<1>4. c.enc \in Encodings
  BY DEF Config
<1>5. ScanAll(c, b, Strict(c)).classes = {}
  BY <1>3, <1>4, UnescapedScan, PlainScan
<1>6. Canonical(c, b)
  BY <1>3, <1>5 DEF Canonical
<1>7. Outdoes(c, c)
  BY DEF Outdoes, Widens, Strict, Config
<1>8. Unambiguous(t, c, b)
  BY <1>1, <1>6, <1>7, CanonicalUnambiguous
<1> QED BY <1>2, <1>6, <1>8

-----------------------------------------------------------------------------
\* What the alternate spelling at a position, or the byte there, adds to the findings.
LEMMA UnitFound ==
  ASSUME NEW c \in Config, NEW b \in Seq(Byte), Len(b) < NoOffset, NEW enabled,
         NEW i \in DOMAIN b, b[i] \notin 128..191
  PROVE  \A u, p : /\ u = Units(Original(b), c.enc)
                   /\ p = [at |-> i, unit |-> Unit(Original(b), i, c.enc)]
           => p \in u /\ ClassAt(u, p) \subseteq ScanOf(Original(b), enabled, c.enc).classes
<1> SUFFICES ASSUME NEW u, u = Units(Original(b), c.enc),
                    NEW p, p = [at |-> i, unit |-> Unit(Original(b), i, c.enc)]
             PROVE  p \in u /\ ClassAt(u, p) \subseteq ScanOf(Original(b), enabled, c.enc).classes
  OBVIOUS
<1>1. PICK v : v = Original(b)
  OBVIOUS
<1>2. WellFormed(v) /\ v.bytes = b /\ v.original = b /\ c.enc \in Encodings
  <2>1. v.bytes = b /\ v.original = b /\ v.decoded = FALSE
    BY <1>1 DEF Original
  <2> QED BY <2>1 DEF WellFormed, Config
<1>3. p \in u
  <2>1. \A j \in DOMAIN b : ~(j < i /\ i < j + Unit(v, j, c.enc).width)
    BY <1>2, InsideUnit
  <2> DEFINE read == {[at |-> k, unit |-> Unit(v, k, c.enc)] : k \in DOMAIN v.bytes}
  <2>2. ASSUME NEW q \in read PROVE q.at \in DOMAIN b /\ q.unit = Unit(v, q.at, c.enc)
    <3>1. PICK k \in DOMAIN v.bytes : q = [at |-> k, unit |-> Unit(v, k, c.enc)]
      OBVIOUS
    <3>2. q.at = k /\ q.unit = Unit(v, k, c.enc)
      BY <3>1
    <3> QED BY <1>2, <3>2
  <2>3. p \in read /\ p.at = i
    BY <1>1, <1>2
  <2>4. u = {y \in read : ~\E q \in read : q.at < y.at /\ y.at < q.at + q.unit.width}
    BY <1>1 DEF Units
  <2> HIDE DEF read
  <2>5. ~\E q \in read : q.at < p.at /\ p.at < q.at + q.unit.width
    BY <2>1, <2>2, <2>3
  <2> QED BY <2>3, <2>4, <2>5
<1>4. PICK r, G : r = ScanOf(v, enabled, c.enc) /\ G = AllSegments(u, enabled)
  OBVIOUS
<1>5. Tallies(r, v, u, u, G, enabled)
  BY <1>1, <1>2, <1>4, ScanTallies
<1> QED BY <1>1, <1>3, <1>4, <1>5 DEF Tallies

\* A byte that leads no alternate spelling is a unit of its own.
LEMMA ReadAsItself ==
  ASSUME NEW e \in Encodings, NEW b \in Seq(Byte), NEW i \in DOMAIN b, b[i] \notin 192..255
  PROVE  Itself(b, i) = [at |-> i, unit |-> Unit(Original(b), i, e)]
<1>1. PICK v : v = Original(b)
  OBVIOUS
<1>2. WellFormed(v) /\ v.bytes = b /\ v.decoded = FALSE
  <2>1. v.bytes = b /\ v.original = b /\ v.decoded = FALSE
    BY <1>1 DEF Original
  <2> QED BY <2>1 DEF WellFormed
<1>3. Unit(v, i, e) = [byte |-> v.bytes[i], width |-> 1, encoded |-> Escaped(v, i)]
  <2>1. i \in DOMAIN v.bytes /\ v.bytes[i] \notin 192..255
    BY <1>2
  <2> QED BY <1>2, <2>1, OwnUnit
<1>4. Escaped(v, i) = FALSE
  BY <1>2 DEF Escaped
<1> QED BY <1>1, <1>2, <1>3, <1>4 DEF Itself

\* So is what a byte that neither leads nor continues a sequence adds.
LEMMA ItselfFound ==
  ASSUME NEW c \in Config, NEW b \in Seq(Byte), Len(b) < NoOffset, NEW enabled,
         NEW i \in DOMAIN b, b[i] \notin 128..191, b[i] \notin 192..255
  PROVE  \A u : u = Units(Original(b), c.enc) =>
           /\ Itself(b, i) \in u
           /\ ClassAt(u, Itself(b, i)) \subseteq ScanOf(Original(b), enabled, c.enc).classes
<1>2. Itself(b, i) = [at |-> i, unit |-> Unit(Original(b), i, c.enc)]
  <2>1. c.enc \in Encodings
    BY DEF Config
  <2> QED BY <2>1, ReadAsItself
<1> QED BY <1>2, UnitFound

\* The class of a byte that has one wherever it stands.
LEMMA ClassOfByte ==
  ASSUME NEW unit, NEW after
  PROVE  /\ unit.byte = Nul => ClassOf(unit, after) = {"Truncation"}
         /\ unit.byte = Semicolon => ClassOf(unit, after) = {"Param"}
         /\ unit.byte = Backslash => ClassOf(unit, after) = {"Backslash"}
         /\ unit.byte = Slash /\ (unit.encoded \/ after) => ClassOf(unit, after) = {"Separator"}
         /\ unit.byte = Dot /\ unit.encoded => ClassOf(unit, after) = {"DotSegment"}
<1>1. PICK x : x = unit.byte
  OBVIOUS
<1>2. unit.byte = x
  BY <1>1
<1>3. ASSUME x = Nul PROVE ClassOf(unit, after) = {"Truncation"}
  <2>1. x = Nul /\ x \notin {Slash, Dot, Semicolon, Hash, Question, Backslash} \cup Uppercase
    BY <1>3 DEF Slash, Dot, Semicolon, Hash, Question, Backslash, Nul, Uppercase
  <2> QED BY <1>2, <2>1 DEF ClassOf
<1>4. ASSUME x = Semicolon PROVE ClassOf(unit, after) = {"Param"}
  <2>1. x = Semicolon /\ x \notin {Slash, Dot, Hash, Question, Backslash, Nul} \cup Uppercase
    BY <1>4 DEF Slash, Dot, Semicolon, Hash, Question, Backslash, Nul, Uppercase
  <2> QED BY <1>2, <2>1 DEF ClassOf
<1>5. ASSUME x = Backslash PROVE ClassOf(unit, after) = {"Backslash"}
  <2>1. x = Backslash /\ x \notin {Slash, Dot, Semicolon, Hash, Question, Nul} \cup Uppercase
    BY <1>5 DEF Slash, Dot, Semicolon, Hash, Question, Backslash, Nul, Uppercase
  <2> QED BY <1>2, <2>1 DEF ClassOf
<1>6. ASSUME x = Slash, unit.encoded \/ after PROVE ClassOf(unit, after) = {"Separator"}
  <2>1. x = Slash /\ x \notin {Dot, Semicolon, Hash, Question, Backslash, Nul} \cup Uppercase
    BY <1>6 DEF Slash, Dot, Semicolon, Hash, Question, Backslash, Nul, Uppercase
  <2> QED BY <1>2, <1>6, <2>1 DEF ClassOf
<1>7. ASSUME x = Dot, unit.encoded PROVE ClassOf(unit, after) = {"DotSegment"}
  <2>1. x = Dot /\ x \notin {Slash, Semicolon, Hash, Question, Backslash, Nul} \cup Uppercase
    BY <1>7 DEF Slash, Dot, Semicolon, Hash, Question, Backslash, Nul, Uppercase
  <2> QED BY <1>2, <1>7, <2>1 DEF ClassOf
<1> QED BY <1>2, <1>3, <1>4, <1>5, <1>6, <1>7

\* What is read is a unit of the view.
LEMMA UnitsAreRead ==
  ASSUME NEW b, NEW enc, NEW p, p \in Units(Original(b), enc)
  PROVE  p.at \in DOMAIN b /\ p = [at |-> p.at, unit |-> Unit(Original(b), p.at, enc)]
<1>1. PICK v : v = Original(b)
  OBVIOUS
<1>2. v.bytes = b
  BY <1>1 DEF Original
<1>3. p \in {[at |-> i, unit |-> Unit(v, i, enc)] : i \in DOMAIN v.bytes}
  BY <1>1 DEF Units
<1>4. PICK i \in DOMAIN v.bytes : p = [at |-> i, unit |-> Unit(v, i, enc)]
  BY <1>3
<1>5. p.at = i
  BY <1>4
<1> QED BY <1>1, <1>2, <1>4, <1>5

\* A path in which the scan finds no dot-segment has none.
LEMMA DotSegmentFound ==
  ASSUME NEW c \in Config, NEW b \in Seq(Byte), Len(b) < NoOffset, NEW enabled,
         NEW k \in DOMAIN PathOf(b), PathOf(b)[k] \in {<<Dot>>, <<Dot, Dot>>}
  PROVE  "DotSegment" \in ScanOf(Original(b), enabled, c.enc).classes
<1>1. PICK L, cuts : L = SlashList(b) /\ cuts = Cuts(b)
  OBVIOUS
<1>2. CutsSegments(b, L, cuts)
  BY <1>1, CutsAre
<1>3. k \in 1..Len(L)
  BY <1>2 DEF CutsSegments
<1>4. PICK s, e : s = cuts[k] /\ e = cuts[k + 1]
  OBVIOUS
<1>5. s \in SlashesOf(b) /\ Spans(b, s, e) /\ PathOf(b)[k] = SubSeq(b, s + 1, e - 1)
  BY <1>2, <1>3, <1>4 DEF CutsSegments
<1>6. PICK n \in Nat : n = Len(b)
  OBVIOUS
<1>7. /\ DOMAIN b = 1..n /\ s \in 1..n /\ b[s] = Slash /\ e \in (s + 1)..(n + 1)
      /\ e # n + 1 => e \in 1..n /\ b[e] = Slash
  BY <1>5, <1>6 DEF Spans, SlashesOf
<1>8. PICK seg : seg = SubSeq(b, s + 1, e - 1)
  OBVIOUS
<1>9. Len(seg) = e - (s + 1) /\ \A j \in 1..(e - (s + 1)) : seg[j] = b[s + j]
  <2>1. s \in 1..n /\ e \in (s + 1)..(n + 1)
    BY <1>7
  <2>2. PICK x, y \in Int : x = s + 1 /\ y = e - 1 /\ \A i \in x..y : b[i] \in Byte
    BY <1>6, <2>1
  <2>3. seg = SubSeq(b, x, y)
    BY <1>8, <2>2
  <2>4. /\ Len(seg) = IF x <= y THEN y - x + 1 ELSE 0
        /\ \A j \in 1..(y - x + 1) : seg[j] = b[x + j - 1]
    <3>1. /\ Len(SubSeq(b, x, y)) = IF x <= y THEN y - x + 1 ELSE 0
          /\ \A j \in 1..(y - x + 1) : SubSeq(b, x, y)[j] = b[x + j - 1]
      BY <2>2, SubSeqProperties
    <3> QED BY <2>3, <3>1, Zenon
  <2>5. y - x + 1 = e - (s + 1) /\ (x <= y \/ e - (s + 1) = 0)
    BY <2>1, <2>2
  <2>6. \A j \in 1..(e - (s + 1)) : x + j - 1 = s + j
    BY <2>1, <2>2
  <2> QED BY <2>4, <2>5, <2>6
<1>10. /\ e = s + 2 \/ e = s + 3
       /\ \A i \in (s + 1)..(e - 1) : b[i] = Dot /\ i \in 1..n
  <2>1. seg = <<Dot>> \/ seg = <<Dot, Dot>>
    BY <1>5, <1>8
  <2>2. CASE seg = <<Dot>>
    <3>1. Len(seg) = 1 /\ seg[1] = Dot
      BY <2>2
    <3>2. e - (s + 1) = 1
      BY <1>9, <3>1
    <3>3. e = s + 2
      BY <1>7, <3>2
    <3>4. 1 \in 1..(e - (s + 1))
      BY <3>2
    <3>5. b[s + 1] = Dot
      BY <1>9, <3>1, <3>4
    <3> QED BY <1>7, <3>3, <3>5
  <2>3. CASE seg = <<Dot, Dot>>
    <3>1. Len(seg) = 2 /\ seg[1] = Dot /\ seg[2] = Dot
      BY <2>3
    <3>2. e - (s + 1) = 2
      BY <1>9, <3>1
    <3>3. e = s + 3
      BY <1>7, <3>2
    <3>4. 1 \in 1..(e - (s + 1)) /\ 2 \in 1..(e - (s + 1))
      BY <3>2
    <3>5. b[s + 1] = Dot /\ b[s + 2] = Dot
      BY <1>9, <3>1, <3>4
    <3> QED BY <1>7, <3>3, <3>5
  <2> QED BY <2>1, <2>2, <2>3
<1>11. PICK r, u, v : r = ScanOf(Original(b), enabled, c.enc) /\ u = Units(Original(b), c.enc) /\ v = Original(b)
  OBVIOUS
<1>12. ASSUME NEW i \in 1..n, b[i] \in {Slash, Dot} PROVE Itself(b, i) \in u
  <2>1. PICK x \in {46, 47} : x = b[i]
    BY <1>12 DEF Slash, Dot
  <2>2. x \notin 128..191 /\ x \notin 192..255
    OBVIOUS
  <2> QED BY <1>7, <1>11, <2>1, <2>2, ItselfFound
<1>13. ASSUME NEW q \in u, q.at \in (s + 1)..(e - 1)
       PROVE  q = Itself(b, q.at) /\ q.unit.byte = Dot /\ ~Separates(q.unit, enabled) /\ ~Delimits(q.unit, enabled)
  <2>1. PICK i \in (s + 1)..(e - 1) : i = q.at
    BY <1>13
  <2>2. i \in DOMAIN b /\ b[i] = Dot
    BY <1>7, <1>10
  <2>3. q = [at |-> i, unit |-> Unit(Original(b), i, c.enc)]
    BY <1>11, <2>1, UnitsAreRead
  <2>4. q = Itself(b, i)
    <3>1. b[i] \notin 192..255
      BY <2>2 DEF Dot
    <3>2. c.enc \in Encodings
      BY DEF Config
    <3> QED BY <2>2, <2>3, <3>1, <3>2, ReadAsItself
  <2>5. q.unit.byte = Dot
    BY <2>2, <2>4 DEF Itself
  <2>6. ~Separates(q.unit, enabled) /\ ~Delimits(q.unit, enabled)
    BY <2>5, DotsAreContent DEF IsStop
  <2> QED BY <2>1, <2>4, <2>5, <2>6
<1>14. PICK seps : seps = Separators(u, enabled)
  OBVIOUS
<1>15. ASSUME NEW i \in 1..n, b[i] = Slash PROVE Itself(b, i) \in seps /\ Itself(b, i).at = i
  <2>1. PICK q : q = Itself(b, i)
    OBVIOUS
  <2>2. q \in u /\ q.at = i /\ q.unit.byte = Slash /\ ~q.unit.encoded
    BY <1>12, <1>15, <2>1 DEF Itself
  <2>3. Separates(q.unit, enabled)
    BY <2>2 DEF Separates
  <2> QED BY <1>14, <2>1, <2>2, <2>3 DEF Separators
<1>16. s + 1 \in StartsOf(u, enabled)
  <2>1. PICK q : q = Itself(b, s)
    OBVIOUS
  <2>2. q \in seps /\ q.at = s /\ q.unit.width = 1
    BY <1>7, <1>15, <2>1 DEF Itself
  <2>3. q.at + q.unit.width = s + 1
    BY <2>2
  <2> QED BY <1>14, <2>2, <2>3 DEF StartsOf
<1>17. PICK g, content : /\ content = ContentFrom(u, enabled, s + 1)
                         /\ g = [start |-> s + 1, content |-> content]
  OBVIOUS
<1>18. g \in AllSegments(u, enabled) /\ g.content = content
  BY <1>16, <1>17, SegmentStart
<1>19. \A p \in content : p \in u /\ p.at \in (s + 1)..(e - 1)
  <2>1. SUFFICES ASSUME NEW p \in content PROVE p \in u /\ p.at \in (s + 1)..(e - 1)
    OBVIOUS
  <2>2. p \in u /\ p.at >= s + 1 /\ ~\E q \in seps : s + 1 <= q.at /\ q.at <= p.at
    BY <1>14, <1>17 DEF ContentFrom
  <2>3. p.at \in 1..n
    BY <1>7, <1>11, <2>2, UnitsAreRead
  <2>4. p.at < e
    <3>1. SUFFICES ASSUME e <= p.at PROVE FALSE
      BY <1>7, <2>3
    <3>2. e \in 1..n /\ b[e] = Slash
      BY <1>7, <2>3, <3>1
    <3>3. Itself(b, e) \in seps /\ Itself(b, e).at = e
      BY <1>15, <3>2
    <3>4. s + 1 <= e
      BY <1>7
    <3> QED BY <2>2, <3>1, <3>3, <3>4
  <2> QED BY <1>7, <2>2, <2>3, <2>4
<1>20. ASSUME NEW i \in (s + 1)..(e - 1) PROVE Itself(b, i) \in content
  <2>1. PICK p : p = Itself(b, i)
    OBVIOUS
  <2>2. p \in u /\ p.at = i
    BY <1>10, <1>12, <2>1 DEF Itself
  <2>3. ASSUME NEW q \in seps, s + 1 <= q.at, q.at <= i PROVE FALSE
    <3>1. q \in u /\ Separates(q.unit, enabled)
      BY <1>14 DEF Separators
    <3>2. q.at \in 1..n
      BY <1>7, <1>11, <3>1, UnitsAreRead
    <3>3. q.at \in (s + 1)..(e - 1)
      BY <1>7, <2>3, <3>2
    <3> QED BY <1>13, <3>1, <3>3
  <2>4. i >= s + 1
    BY <1>7
  <2> QED BY <1>14, <1>17, <2>1, <2>2, <2>3, <2>4 DEF ContentFrom
<1>21. BareUnits(u, g, enabled) = content
  <2>1. content \cap DelimitersOf(u, enabled) = {}
    BY <1>13, <1>19 DEF DelimitersOf
  <2> QED BY <1>18, <2>1 DEF BareUnits, BareContent
<1>22. content \subseteq Dots(u)
  BY <1>13, <1>19 DEF Dots
<1>23. Cardinality(content) \in 1..2
  <2>1. PICK x, y : x = Itself(b, s + 1) /\ y = Itself(b, e - 1)
    OBVIOUS
  <2>2. content = {x, y}
    <3>1. x \in content /\ y \in content
      <4>1. s + 1 \in (s + 1)..(e - 1) /\ e - 1 \in (s + 1)..(e - 1)
        BY <1>7, <1>10
      <4> QED BY <1>20, <2>1, <4>1
    <3>2. \A p \in content : p = x \/ p = y
      <4>1. SUFFICES ASSUME NEW p \in content PROVE p = x \/ p = y
        OBVIOUS
      <4>2. PICK i \in (s + 1)..(e - 1) : i = p.at
        BY <1>19
      <4>3. p = Itself(b, i)
        BY <1>13, <1>19, <4>2
      <4>4. i = s + 1 \/ i = e - 1
        BY <1>7, <1>10
      <4> QED BY <2>1, <4>3, <4>4
    <3> QED BY <3>1, <3>2
  <2>3. IsFiniteSet({x}) /\ Cardinality({x}) = 1
    BY FS_Singleton
  <2>4. CASE y = x
    <3>1. content = {x}
      BY <2>2, <2>4
    <3> QED BY <2>3, <3>1
  <2>5. CASE y # x
    <3>1. y \notin {x}
      BY <2>5
    <3>2. Cardinality({x} \cup {y}) = Cardinality({x}) + 1
      BY <2>3, <3>1, FS_AddElement
    <3>3. content = {x} \cup {y}
      BY <2>2
    <3>4. PICK one, two : one = {x} /\ two = {x} \cup {y}
      OBVIOUS
    <3>5. Cardinality(one) = 1 /\ Cardinality(two) = Cardinality(one) + 1 /\ content = two
      BY <2>3, <3>2, <3>3, <3>4
    <3>6. Cardinality(content) = 1 + 1
      BY <3>5, Zenon
    <3> QED BY <3>6
  <2> QED BY <2>4, <2>5
<1>24. IsLiteral(u, g, enabled)
  BY <1>21, <1>22, <1>23 DEF IsLiteral
<1>25. Tallies(r, v, u, u, AllSegments(u, enabled), enabled)
  <2>1. v.bytes = b /\ v.original = b /\ v.decoded = FALSE
    BY <1>11 DEF Original
  <2>2. WellFormed(v) /\ Len(v.original) < NoOffset
    BY <2>1 DEF WellFormed
  <2>3. c.enc \in Encodings
    BY DEF Config
  <2> QED BY <1>11, <2>2, <2>3, ScanTallies
<1>26. PICK G : G = AllSegments(u, enabled)
  OBVIOUS
<1>27. g \in G /\ Tallies(r, v, u, u, G, enabled)
  BY <1>18, <1>25, <1>26
<1> QED BY <1>11, <1>24, <1>27 DEF Tallies

\* A path the strict mode finds nothing in, byte by byte.
Unmarked(c, b) ==
  /\ \A i \in DOMAIN b : b[i] # Nul /\ b[i] # Semicolon
  /\ "Backslash" \in c.options => \A i \in DOMAIN b : b[i] # Backslash
  /\ c.insensitive => ~HasUppercase(b)
  /\ \A i \in DOMAIN b : i - 1 \in DOMAIN b /\ b[i] = Slash => b[i - 1] # Slash
  /\ c.enc.unicode =>
       \A i \in DOMAIN b : FullwidthAt(b, i) => FullwidthFold(b[i + 2]) = Backslash /\ "Backslash" \notin c.options

\* A canonical path is unmarked.
LEMMA CanonicalBytes ==
  ASSUME NEW c \in Config, NEW b \in Seq(Byte), Len(b) < NoOffset, Canonical(c, b)
  PROVE  Unmarked(c, b)
<1>1. PICK r, u : r = ScanOf(Original(b), Strict(c), c.enc) /\ u = Units(Original(b), c.enc)
  OBVIOUS
<1>2. r.classes \cap Strict(c) = {}
  BY <1>1, UnescapedScan DEF Canonical
<1>3. /\ {"Separator", "DotSegment", "Param", "Truncation"} \subseteq Strict(c)
      /\ "Backslash" \in c.options => "Backslash" \in Strict(c)
      /\ c.insensitive => "Case" \in Strict(c)
  BY DEF Strict, Positional, EnabledClasses, Mandatory
<1>4. ASSUME NEW i \in DOMAIN b, b[i] \notin 128..255
      PROVE  Itself(b, i) \in u /\ ClassAt(u, Itself(b, i)) \cap Strict(c) = {}
  <2>1. Itself(b, i) \in u /\ ClassAt(u, Itself(b, i)) \subseteq r.classes
    <3>1. b[i] \notin 128..191 /\ b[i] \notin 192..255
      BY <1>4
    <3> QED BY <1>1, <3>1, ItselfFound
  <2> QED BY <1>2, <2>1
<1>5. ASSUME NEW i \in DOMAIN b, b[i] \in {Nul, Semicolon} PROVE FALSE
  <2>1. b[i] \notin 128..255
    <3>1. PICK x \in {0, 59} : x = b[i]
      BY <1>5 DEF Nul, Semicolon
    <3>2. x \notin 128..255
      OBVIOUS
    <3> QED BY <3>1, <3>2
  <2>2. ClassAt(u, Itself(b, i)) \cap Strict(c) = {}
    BY <1>4, <2>1
  <2>3. Itself(b, i).unit.byte = b[i]
    BY DEF Itself
  <2>4. ClassAt(u, Itself(b, i)) \in {{"Truncation"}, {"Param"}}
    BY <1>5, <2>3, ClassOfByte DEF ClassAt
  <2> QED BY <1>3, <2>2, <2>4
<1>6. ASSUME "Backslash" \in c.options, NEW i \in DOMAIN b, b[i] = Backslash PROVE FALSE
  <2>1. b[i] \notin 128..255
    BY <1>6 DEF Backslash
  <2>2. ClassAt(u, Itself(b, i)) \cap Strict(c) = {}
    BY <1>4, <2>1
  <2>3. Itself(b, i).unit.byte = b[i]
    BY DEF Itself
  <2>4. ClassAt(u, Itself(b, i)) = {"Backslash"}
    BY <1>6, <2>3, ClassOfByte DEF ClassAt
  <2> QED BY <1>3, <1>6, <2>2, <2>4
<1>7. c.insensitive => ~HasUppercase(b)
  BY <1>1, <1>2, <1>3, UppercaseFound
<1>8. ASSUME NEW i \in DOMAIN b, NEW j \in DOMAIN b, j = i - 1, b[i] = Slash, b[j] = Slash PROVE FALSE
  <2>0. i \in Nat /\ i - 1 + 1 = i
    OBVIOUS
  <2>1. b[i] \notin 128..255 /\ b[j] \notin 128..255
    BY <1>8 DEF Slash
  <2>2. PICK p, q : p = Itself(b, i) /\ q = Itself(b, j)
    OBVIOUS
  <2>3. ClassAt(u, p) \cap Strict(c) = {} /\ q \in u
    BY <1>4, <2>1, <2>2
  <2>4. p.at = i /\ p.unit.byte = Slash
    BY <1>8, <2>2 DEF Itself
  <2>5. q.at = j /\ q.unit.width = 1 /\ q.unit.byte = Slash
    BY <1>8, <2>2 DEF Itself
  <2>6. AfterSlash(u, i)
    <3>1. q.at + q.unit.width = i
      BY <1>8, <2>0, <2>5
    <3> QED BY <2>3, <2>5, <3>1 DEF AfterSlash
  <2>7. ClassAt(u, p) = {"Separator"}
    BY <2>4, <2>6, ClassOfByte DEF ClassAt
  <2> QED BY <1>3, <2>3, <2>7
<1>9. ASSUME c.enc.unicode, NEW i \in DOMAIN b, FullwidthAt(b, i)
      PROVE  FullwidthFold(b[i + 2]) = Backslash /\ "Backslash" \notin c.options
  <2>1. PICK p : p = [at |-> i, unit |-> Unit(Original(b), i, c.enc)]
    OBVIOUS
  <2>2. b[i] \notin 128..191
    BY <1>9 DEF FullwidthAt
  <2>3. ClassAt(u, p) \cap Strict(c) = {}
    <3>1. ClassAt(u, p) \subseteq r.classes
      BY <1>1, <2>1, <2>2, UnitFound
    <3> QED BY <1>2, <3>1
  <2>4. Original(b).bytes = b
    BY DEF Original
  <2>5. p.unit = [byte |-> FullwidthFold(b[i + 2]), width |-> 3, encoded |-> TRUE]
    BY <1>9, <2>1, <2>4 DEF Unit
  <2>6. PICK x : x = FullwidthFold(b[i + 2])
    OBVIOUS
  <2>7. x \in {Slash, Dot, Semicolon, Backslash}
    <3>1. b[i + 2] \in {143, 142, 155, 188}
      BY <1>9 DEF FullwidthAt, FullwidthThird
    <3> QED BY <2>6, <3>1 DEF FullwidthFold
  <2>8. p.unit.byte = x /\ p.unit.encoded
    BY <2>5, <2>6
  <2>9. /\ x = Slash => ClassAt(u, p) = {"Separator"}
        /\ x = Dot => ClassAt(u, p) = {"DotSegment"}
        /\ x = Semicolon => ClassAt(u, p) = {"Param"}
        /\ x = Backslash => ClassAt(u, p) = {"Backslash"}
    BY <2>8, ClassOfByte DEF ClassAt
  <2> QED BY <1>3, <2>3, <2>6, <2>7, <2>9
<1>10. \A i \in DOMAIN b : b[i] # Nul /\ b[i] # Semicolon
  BY <1>5
<1>11. "Backslash" \in c.options => \A i \in DOMAIN b : b[i] # Backslash
  BY <1>6
<1>12. \A i \in DOMAIN b : i - 1 \in DOMAIN b /\ b[i] = Slash => b[i - 1] # Slash
  BY <1>8
<1> QED BY <1>7, <1>9, <1>10, <1>11, <1>12 DEF Unmarked
=============================================================================
