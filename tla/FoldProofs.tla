----------------------------- MODULE FoldProofs -----------------------------
(***************************************************************************)
(* What FoldLeft does with one more element, and induction over the        *)
(* naturals in a form that names a set.                                    *)
(***************************************************************************)
EXTENDS Integers, SequencesExt, FiniteSetTheorems, WellFoundedInduction, SequenceTheorems, TLAPS

CONSTANT Step(_, _, _)


\* A set of naturals that is not empty has a least element.
LEMMA LeastNatural ==
    ASSUME NEW T \in SUBSET Nat, T # {}
    PROVE  \E m \in T : \A k \in T : m <= k
  <1>1. PICK t \in T : TRUE
    OBVIOUS
  <1> DEFINE S == 0 .. t
             F == {0 .. k : k \in T \cap S}
             R == StrictSubsetOrdering(S)
  <1>2. IsWellFoundedOn(R, SUBSET S)
    <2>1. IsFiniteSet(S)
      BY <1>1, FS_Interval
    <2>2. FiniteSubsetsOf(S) = SUBSET S
      BY <2>1, FS_FiniteSubsetsOfFinite
    <2>3. IsWellFoundedOn(StrictSubsetOrdering(S), FiniteSubsetsOf(S))
      BY FS_StrictSubsetOrderingWellFounded
    <2> QED  BY <2>2, <2>3
  <1>3. F \subseteq SUBSET S /\ F # {}
    BY <1>1
  <1>4. PICK x \in F : \A y \in F : <<y, x>> \notin R
    <2> HIDE DEF F, R, S
    <2> QED  BY <1>2, <1>3, WFMin
  <1>5. PICK m \in T \cap S : x = 0 .. m
    BY <1>4
  <1>6. ASSUME NEW k \in T, k < m PROVE FALSE
    <2>1. k \in S /\ 0 .. k \in F
      BY <1>5, <1>6
    <2>2. 0 .. k \subseteq 0 .. m /\ 0 .. k # 0 .. m /\ 0 .. m \subseteq S
      BY <1>5, <1>6, <1>1
    <2>3. <<0 .. k, x>> \in R
      BY <2>1, <2>2, <1>5 DEF StrictSubsetOrdering
    <2> QED  BY <2>1, <2>3, <1>4
  <1>7. QED
    BY <1>5, <1>6

LEMMA SetInduction ==
    ASSUME NEW T, 0 \in T, \A n \in Nat : n \in T => n + 1 \in T
    PROVE  Nat \subseteq T
  <1> SUFFICES ASSUME NEW n \in Nat, n \notin T PROVE FALSE
    OBVIOUS
  <1>1. PICK m \in Nat \ T : \A k \in Nat \ T : m <= k
    BY LeastNatural
  <1>2. m # 0 /\ m - 1 \in Nat /\ m - 1 \in T
    BY <1>1
  <1>3. (m - 1) + 1 = m
    BY <1>1
  <1>4. QED
    BY <1>1, <1>2, <1>3

LEMMA MaxOf ==
    ASSUME NEW n \in Nat, NEW s \in SUBSET (1 .. n), s # {}
    PROVE  Max(s) \in s /\ \A k \in s : k <= Max(s)
  <1> DEFINE T == {n - k : k \in s}
  <1>1. T \in SUBSET Nat /\ T # {}
    <2>1. \A k \in s : n - k \in Nat
      OBVIOUS
    <2>2. PICK k \in s : TRUE
      OBVIOUS
    <2>3. n - k \in T
      OBVIOUS
    <2> QED  BY <2>1, <2>3
  <1>2. PICK m \in T : \A k \in T : m <= k
    <2> HIDE DEF T
    <2> QED  BY <1>1, LeastNatural
  <1>3. PICK x \in s : m = n - x
    BY <1>2
  <1>4. ASSUME NEW k \in s PROVE x >= k
    <2>1. n - k \in T
      OBVIOUS
    <2>2. n - x <= n - k
      BY <2>1, <1>2, <1>3
    <2> QED  BY <2>2
  <1>5. QED
    BY <1>4 DEF Max

Fold(env, base, sq) == FoldLeft(LAMBDA done, x : Step(env, done, x), base, sq)

\* g is the function that FoldLeft defines for a sequence of length n.
IsFold(env, base, g, sq, n) ==
    g = [s \in SUBSET (1 .. n) |-> IF s = {} THEN base ELSE Step(env, g[s \ {Max(s)}], sq[Max(s)])]

LEMMA FoldExists ==
    ASSUME NEW env, NEW base, NEW sq, NEW n \in Nat
    PROVE  \E g : IsFold(env, base, g, sq, n)
  <1> DEFINE T == {k \in Nat : \E g : IsFold(env, base, g, sq, k)}
  <1>1. 0 \in T
    <2> DEFINE g == [s \in SUBSET (1 .. 0) |-> base]
    <2>1. \A s \in SUBSET (1 .. 0) : s = {}
      OBVIOUS
    <2>2. IsFold(env, base, g, sq, 0)
      BY <2>1 DEF IsFold
    <2> QED  BY <2>2
  <1>2. ASSUME NEW k \in Nat, k \in T PROVE k + 1 \in T
    <2>1. PICK g : IsFold(env, base, g, sq, k)
      BY <1>2
    <2> DEFINE h == [s \in SUBSET (1 .. k + 1) |-> IF k + 1 \in s THEN Step(env, g[s \ {k + 1}], sq[k + 1]) ELSE g[s]]
               H(s) == IF s = {} THEN base ELSE Step(env, h[s \ {Max(s)}], sq[Max(s)])
    <2>2. ASSUME NEW s \in SUBSET (1 .. k + 1) PROVE h[s] = H(s)
      <3>1. CASE k + 1 \in s
        <4>1. Max(s) = k + 1
          <5>1. k + 1 \in Nat /\ s # {}
            BY <3>1
          <5>2. Max(s) \in s /\ \A i \in s : i <= Max(s)
            BY <5>1, MaxOf
          <5> DEFINE m == Max(s)
          <5>3. m \in s /\ \A i \in s : i <= m
            BY <5>2
          <5> HIDE DEF m
          <5>4. m = k + 1
            BY <3>1, <5>3
          <5> QED  BY <5>4 DEF m
        <4>2. s \ {k + 1} \in SUBSET (1 .. k)
          OBVIOUS
        <4>3. h[s \ {k + 1}] = g[s \ {k + 1}]
          BY <4>2
        <4> QED  BY <3>1, <4>1, <4>3
      <3>2. CASE k + 1 \notin s /\ s # {}
        <4>1. s \in SUBSET (1 .. k) /\ Max(s) \in s
          BY <3>2, MaxOf
        <4>2. g[s] = Step(env, g[s \ {Max(s)}], sq[Max(s)])
          BY <2>1, <3>2, <4>1 DEF IsFold
        <4>3. h[s \ {Max(s)}] = g[s \ {Max(s)}]
          BY <3>2, <4>1
        <4> QED  BY <3>2, <4>2, <4>3
      <3>3. CASE s = {}
        <4>1. g[{}] = base
          BY <2>1 DEF IsFold
        <4> QED  BY <3>3, <4>1
      <3> QED  BY <3>1, <3>2, <3>3
    <2>3. h = [s \in SUBSET (1 .. k + 1) |-> H(s)]
      BY <2>2
    <2>4. IsFold(env, base, h, sq, k + 1)
      BY <2>3 DEF IsFold
    <2> HIDE DEF h
    <2> QED  BY <2>4
  <1>3. Nat \subseteq T
    <2> HIDE DEF T
    <2> QED  BY <1>1, <1>2, SetInduction
  <1>4. QED
    BY <1>3

\* Folds of sequences that begin alike agree on what they have in common.
LEMMA FoldsAgree ==
    ASSUME NEW env, NEW base, NEW sq, NEW tq, NEW g, NEW h, NEW n \in Nat, NEW m, m = n + 1,
           IsFold(env, base, g, sq, n), IsFold(env, base, h, tq, m), \A i \in 1 .. n : sq[i] = tq[i]
    PROVE  g[1 .. n] = h[1 .. n]
  <1> DEFINE T == {k \in Nat : k <= n => \A s \in SUBSET (1 .. k) : g[s] = h[s]}
  <1>1. 0 \in T
    <2>1. g[{}] = base /\ h[{}] = base
      BY DEF IsFold
    <2>2. \A s \in SUBSET (1 .. 0) : s = {}
      OBVIOUS
    <2> QED  BY <2>1, <2>2
  <1>2. ASSUME NEW k \in Nat, k \in T PROVE k + 1 \in T
    <2>1. ASSUME k + 1 <= n, NEW s \in SUBSET (1 .. k + 1) PROVE g[s] = h[s]
      <3>e. CASE s = {}
        BY <3>e DEF IsFold
      <3>n. CASE s # {}
        <4>0. Max(s) \in s /\ \A i \in s : i <= Max(s)
          <5>1. k + 1 \in Nat
            OBVIOUS
          <5> QED  BY <5>1, <3>n, MaxOf
        <4>1. s \ {Max(s)} \in SUBSET (1 .. k) /\ Max(s) \in 1 .. n
          <5> DEFINE x == Max(s)
          <5>1. x \in s /\ \A i \in s : i <= x
            BY <4>0
          <5> HIDE DEF x
          <5>2. x \in 1 .. n /\ \A i \in s \ {x} : i \in 1 .. k
            BY <5>1, <2>1
          <5>3. s \ {x} \in SUBSET (1 .. k)
            BY <5>2
          <5> QED  BY <5>2, <5>3 DEF x
        <4>a. s \in SUBSET (1 .. n) /\ s \in SUBSET (1 .. m)
          BY <2>1
        <4>2. g[s] = Step(env, g[s \ {Max(s)}], sq[Max(s)])
          BY <4>a, <3>n DEF IsFold
        <4>3. h[s] = Step(env, h[s \ {Max(s)}], tq[Max(s)])
          BY <4>a, <3>n DEF IsFold
        <4>4. g[s \ {Max(s)}] = h[s \ {Max(s)}]
          BY <1>2, <2>1, <4>1
        <4> QED  BY <4>1, <4>2, <4>3, <4>4
      <3> QED  BY <3>e, <3>n
    <2>2. k + 1 <= n => \A s \in SUBSET (1 .. k + 1) : g[s] = h[s]
      BY <2>1, Zenon
    <2>3. k + 1 \in Nat
      OBVIOUS
    <2> QED  BY <2>2, <2>3, Zenon
  <1>3. Nat \subseteq T
    <2> HIDE DEF T
    <2> QED  BY <1>1, <1>2, SetInduction
  <1>4. QED
    BY <1>3

LEMMA FoldIs ==
    ASSUME NEW env, NEW base, NEW sq, NEW n \in Nat, DOMAIN sq = 1 .. n
    PROVE  \E g : IsFold(env, base, g, sq, n) /\ Fold(env, base, sq) = g[1 .. n]
  <1> DEFINE it == CHOOSE g : g = [s \in SUBSET (1 .. n) |-> IF s = {} THEN base ELSE Step(env, g[s \ {Max(s)}], sq[Max(s)])]
  <1>1. Fold(env, base, sq) = it[1 .. n]
    BY Zenon DEF Fold, FoldLeft, MapThenFoldSet
  <1>2. IsFold(env, base, it, sq, n)
    <2>1. PICK g : g = [s \in SUBSET (1 .. n) |-> IF s = {} THEN base ELSE Step(env, g[s \ {Max(s)}], sq[Max(s)])]
      <3>1. \E g : IsFold(env, base, g, sq, n)
        BY FoldExists
      <3> QED  BY <3>1 DEF IsFold
    <2>2. it = [s \in SUBSET (1 .. n) |-> IF s = {} THEN base ELSE Step(env, it[s \ {Max(s)}], sq[Max(s)])]
      BY <2>1, Zenon
    <2> QED  BY <2>2 DEF IsFold
  <1>3. QED
    BY <1>1, <1>2

LEMMA FoldEmpty ==
    ASSUME NEW env, NEW base
    PROVE  Fold(env, base, <<>>) = base
  <1>1. PICK g : IsFold(env, base, g, <<>>, 0) /\ Fold(env, base, <<>>) = g[1 .. 0]
    <2>1. 0 \in Nat /\ DOMAIN <<>> = 1 .. 0
      OBVIOUS
    <2> QED  BY <2>1, FoldIs
  <1>2. g[1 .. 0] = base
    BY <1>1 DEF IsFold
  <1>3. QED
    BY <1>1, <1>2

LEMMA FoldAppend ==
    ASSUME NEW env, NEW base, NEW S, NEW sq \in Seq(S), NEW x \in S
    PROVE  Fold(env, base, Append(sq, x)) = Step(env, Fold(env, base, sq), x)
  <1> DEFINE n == Len(sq)
             tq == Append(sq, x)
  <1>1. n \in Nat /\ DOMAIN sq = 1 .. n /\ DOMAIN tq = 1 .. n + 1 /\ tq[n + 1] = x
        /\ \A i \in 1 .. n : sq[i] = tq[i]
    OBVIOUS
  <1> HIDE DEF tq, n
  <1>2. PICK g : IsFold(env, base, g, sq, n) /\ Fold(env, base, sq) = g[1 .. n]
    BY <1>1, FoldIs
  <1>3. PICK h : IsFold(env, base, h, tq, n + 1) /\ Fold(env, base, tq) = h[1 .. n + 1]
    BY <1>1, FoldIs
  <1>4. g[1 .. n] = h[1 .. n]
    <2>2. IsFold(env, base, g, sq, n) /\ IsFold(env, base, h, tq, n + 1)
      BY <1>2, <1>3
    <2>3. n \in Nat /\ \A i \in 1 .. n : sq[i] = tq[i]
      BY <1>1
    <2> DEFINE m == n + 1
    <2>4. m = n + 1 /\ IsFold(env, base, h, tq, m)
      BY <2>2
    <2> HIDE DEF m
    <2>5. IsFold(env, base, g, sq, n) /\ n \in Nat /\ \A i \in 1 .. n : sq[i] = tq[i]
      BY <2>2, <2>3
    <2> QED  BY <2>4, <2>5, FoldsAgree
  <1>5. Max(1 .. n + 1) = n + 1
    <2>1. Max(1 .. n + 1) \in 1 .. n + 1 /\ \A k \in 1 .. n + 1 : k <= Max(1 .. n + 1)
      <3>1. n + 1 \in Nat /\ n + 1 \in 1 .. n + 1
        BY <1>1
      <3> QED  BY <3>1, MaxOf, Zenon
    <2> QED  BY <1>1, <2>1
  <1>6. h[1 .. n + 1] = Step(env, h[(1 .. n + 1) \ {n + 1}], tq[n + 1])
    <2>1. (1 .. n + 1) \in SUBSET (1 .. n + 1) /\ (1 .. n + 1) # {}
      <3>1. n + 1 \in 1 .. n + 1
        BY <1>1
      <3> QED  BY <3>1, Zenon
    <2> HIDE DEF IsFold
    <2>2. h = [s \in SUBSET (1 .. n + 1) |-> IF s = {} THEN base ELSE Step(env, h[s \ {Max(s)}], tq[Max(s)])]
      BY <1>3 DEF IsFold
    <2> QED  BY <2>1, <2>2, <1>5
  <1>7. (1 .. n + 1) \ {n + 1} = 1 .. n
    BY <1>1
  <1>8. QED
    BY <1>1, <1>2, <1>3, <1>4, <1>6, <1>7 DEF tq

\* A sequence that is not empty is a shorter one with an element appended.
LEMMA LastElement ==
    ASSUME NEW S, NEW n \in Nat, NEW sq \in Seq(S), Len(sq) = n + 1
    PROVE  \E rest \in Seq(S), x \in S : Len(rest) = n /\ sq = Append(rest, x)
  <1> DEFINE rest == [i \in 1 .. n |-> sq[i]]
  <1>1. rest \in Seq(S) /\ Len(rest) = n /\ sq[n + 1] \in S
    OBVIOUS
  <1>2. sq = Append(rest, sq[n + 1])
    <2>1. Append(rest, sq[n + 1]) \in Seq(S) /\ Len(Append(rest, sq[n + 1])) = n + 1
      BY <1>1
    <2>2. \A i \in 1 .. n + 1 : sq[i] = Append(rest, sq[n + 1])[i]
      BY <1>1
    <2> HIDE DEF rest
    <2> QED  BY <2>1, <2>2, SeqEqual
  <1>3. QED
    BY <1>1, <1>2

LEMMA SequenceInduction ==
    ASSUME NEW S, NEW T, <<>> \in T,
           \A rest \in Seq(S), x \in S : rest \in T => Append(rest, x) \in T
    PROVE  Seq(S) \subseteq T
  <1> DEFINE L == {n \in Nat : \A sq \in Seq(S) : Len(sq) = n => sq \in T}
  <1>1. 0 \in L
    <2>1. \A sq \in Seq(S) : Len(sq) = 0 => sq = <<>>
      OBVIOUS
    <2> QED  BY <2>1
  <1>2. ASSUME NEW n \in Nat, n \in L PROVE n + 1 \in L
    <2>1. ASSUME NEW sq \in Seq(S), Len(sq) = n + 1 PROVE sq \in T
      <3>1. PICK rest \in Seq(S), x \in S : Len(rest) = n /\ sq = Append(rest, x)
        BY <2>1, LastElement
      <3>2. rest \in T
        BY <1>2, <3>1
      <3> QED  BY <3>1, <3>2
    <2>2. n + 1 \in Nat
      OBVIOUS
    <2> QED  BY <2>1, <2>2, Zenon
  <1>3. Nat \subseteq L
    <2> HIDE DEF L
    <2> QED  BY <1>1, <1>2, SetInduction
  <1>4. ASSUME NEW sq \in Seq(S) PROVE sq \in T
    <2>1. Len(sq) \in Nat
      OBVIOUS
    <2> QED  BY <1>3, <2>1, Zenon
  <1>5. QED
    BY <1>4

\* What every step preserves, the fold has.
LEMMA FoldInvariant ==
    ASSUME NEW env, NEW S, NEW Good, NEW base \in Good, NEW sq \in Seq(S),
           \A done \in Good, x \in S : Step(env, done, x) \in Good
    PROVE  Fold(env, base, sq) \in Good
  <1> DEFINE T == {s \in Seq(S) : Fold(env, base, s) \in Good}
  <1>1. <<>> \in T
    BY FoldEmpty
  <1>2. ASSUME NEW rest \in Seq(S), NEW x \in S, rest \in T PROVE Append(rest, x) \in T
    <2>1. Fold(env, base, Append(rest, x)) = Step(env, Fold(env, base, rest), x)
      BY FoldAppend
    <2> QED  BY <1>2, <2>1
  <1>3. Seq(S) \subseteq T
    <2> HIDE DEF T
    <2> QED  BY <1>1, <1>2, SequenceInduction
  <1>4. QED
    BY <1>3
=============================================================================
