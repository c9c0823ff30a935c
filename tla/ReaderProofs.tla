------------------------------ MODULE ReaderProofs ------------------------------
(***************************************************************************)
(* Proofs about the three readers of evidence: the companion CLI and the   *)
(* signing helper, for any file of the declared shape in any encoding, and *)
(* the admission gate, for any attestation file whatever its statements    *)
(* hold.  The readers are functions of what they read, so most of what is  *)
(* proved is about their operators; the invariants of EvidenceCanon and    *)
(* GateBundle say only what the files are made of.                         *)
(*                                                                         *)
(* For the CLI and the helper the argument is that Normalize is an         *)
(* idempotent choice of one encoding: any two encodings of a document have *)
(* one normal form (SameDocument), the normal form states the facts of the *)
(* document (NormalDocumentKeeps), and everything the two programs answer  *)
(* is a function of it (Generated, Built).                                 *)
(***************************************************************************)
EXTENDS EvidenceCanon, GateBundle, FiniteSetTheorems, TLAPS

-------------------------------------------------------------------------------
(* Sequences and their elements.                                             *)

LEMMA SequenceFacts ==
    ASSUME NEW q, IsSequence(q)
    PROVE  /\ Len(q) \in Nat /\ DOMAIN q = 1..Len(q)
           /\ q = [i \in 1..Len(q) |-> q[i]]
           /\ \A i \in DOMAIN q : q[i] \in ToSet(q)
  BY DEF IsSequence, ToSet

LEMMA SequenceOf == ASSUME NEW S, NEW q \in Seq(S) PROVE IsSequence(q)
  BY DEF IsSequence, ToSet

LEMMA SequenceFunction ==
    ASSUME NEW n \in Nat, NEW q, q = [i \in 1..n |-> q[i]]
    PROVE  IsSequence(q) /\ Len(q) = n
  BY DEF IsSequence, ToSet

LEMMA SequenceRewritten ==
    ASSUME NEW q, IsSequence(q), NEW r, r = [i \in DOMAIN q |-> r[i]]
    PROVE  IsSequence(r) /\ Len(r) = Len(q)
<1>1. Len(q) \in Nat /\ DOMAIN q = 1 .. Len(q)
  BY SequenceFacts
<1> QED BY <1>1, SequenceFunction

LEMMA OptionalRewritten ==
    ASSUME NEW q, IsOptional(q), NEW r, r = [i \in DOMAIN q |-> r[i]]
    PROVE  IsOptional(r)
  BY SequenceRewritten DEF IsOptional

LEMMA SequenceLonger ==
    ASSUME NEW q, IsSequence(q), NEW x
    PROVE  /\ IsSequence(Append(q, x)) /\ Len(Append(q, x)) = Len(q) + 1
           /\ \A i \in DOMAIN q : Append(q, x)[i] = q[i]
           /\ Append(q, x)[Len(q) + 1] = x
<1> DEFINE S == ToSet(q) \cup {x}
<1>1. q \in Seq(S) /\ x \in S
  BY DEF IsSequence
<1> HIDE DEF S
<1>2. Append(q, x) \in Seq(S) /\ Len(Append(q, x)) = Len(q) + 1
  BY <1>1
<1>3. \A i \in DOMAIN q : Append(q, x)[i] = q[i]
  BY <1>1
<1>4. Append(q, x)[Len(q) + 1] = x
  BY <1>1
<1> QED BY <1>2, <1>3, <1>4, SequenceOf

(* As many keys as cases means a key of its own for each case.               *)
LEMMA KeysDistinct ==
    ASSUME NEW q, IsSequence(q), NEW key,
           DOMAIN key = DOMAIN q,
           Cardinality({key[i] : i \in DOMAIN q}) = Len(q)
    PROVE  \A i, j \in DOMAIN q : key[i] = key[j] => i = j
<1> DEFINE T == {key[i] : i \in DOMAIN q}
           f == [i \in DOMAIN q |-> key[i]]
<1>1. Len(q) \in Nat /\ DOMAIN q = 1..Len(q)
  BY SequenceFacts
<1>2. IsFiniteSet(DOMAIN q) /\ Cardinality(DOMAIN q) = Len(q)
  <2>1. 1 \in Int /\ Len(q) \in Int
    BY <1>1
  <2> HIDE DEF T, f
  <2>2. /\ IsFiniteSet(1..Len(q))
        /\ Cardinality(1..Len(q)) = IF 1 > Len(q) THEN 0 ELSE Len(q) - 1 + 1
    BY <2>1, FS_Interval, Zenon
  <2> QED BY <1>1, <2>2
<1>3. f \in Surjection(DOMAIN q, T)
  BY DEF Surjection
<1>4. f \in Injection(DOMAIN q, T)
  BY <1>2, <1>3, FS_Surjection
<1> QED BY <1>4 DEF Injection, IsInjective

LEMMA DomainFinite ==
    ASSUME NEW b, IsSequence(b), NEW S \in SUBSET (DOMAIN b)
    PROVE  IsFiniteSet(S) /\ Cardinality(S) \in Nat
<1>1. DOMAIN b = 1..Len(b) /\ Len(b) \in Nat
  BY SequenceFacts
<1>2. IsFiniteSet(DOMAIN b)
  BY <1>1, FS_Interval
<1>3. IsFiniteSet(S)
  BY <1>2, FS_Subset
<1> QED BY <1>3, FS_CardinalityType


-------------------------------------------------------------------------------
(* Lists in order.                                                           *)

(* A relation that puts any two elements of a finite set in one order lists  *)
(* the set: each element goes to the place its predecessors leave it.        *)
LEMMA Enumeration ==
    ASSUME NEW S, IsFiniteSet(S), NEW L,
           \A x \in S : <<x, x>> \notin L,
           \A x, y \in S : x # y => <<x, y>> \in L \/ <<y, x>> \in L,
           \A x, y, z \in S : <<x, y>> \in L /\ <<y, z>> \in L => <<x, z>> \in L
    PROVE  \E p \in [1 .. Cardinality(S) -> S] :
              /\ \A x \in S : \E i \in 1 .. Cardinality(S) : p[i] = x
              /\ \A i, j \in 1 .. Cardinality(S) : i < j => <<p[i], p[j]>> \in L
<1> DEFINE below(x) == {y \in S : <<y, x>> \in L}
           n == Cardinality(S)
           rank == [x \in S |-> Cardinality(below(x)) + 1]
           p == [i \in 1 .. n |-> CHOOSE x \in S : rank[x] = i]
<1>0. n \in Nat
  BY FS_CardinalityType
<1>1. ASSUME NEW x \in S
      PROVE  IsFiniteSet(below(x)) /\ Cardinality(below(x)) \in Nat /\ Cardinality(below(x)) < n
  <2>0. <<x, x>> \notin L
    OBVIOUS
  <2>1. below(x) \in SUBSET S /\ x \notin below(x)
    BY <2>0, Zenon
  <2> HIDE DEF below
  <2>2. /\ IsFiniteSet(below(x)) /\ Cardinality(below(x)) <= Cardinality(S)
        /\ Cardinality(S) = Cardinality(below(x)) => S = below(x)
    BY <2>1, FS_Subset
  <2>3. Cardinality(below(x)) \in Nat
    BY <2>2, FS_CardinalityType
  <2> QED BY <1>0, <2>1, <2>2, <2>3
<1>2. ASSUME NEW x \in S, NEW y \in S, <<x, y>> \in L
      PROVE  rank[x] < rank[y]
  <2>0. <<x, x>> \notin L /\ \A z \in S : <<z, x>> \in L => <<z, y>> \in L
    BY <1>2
  <2>1. below(x) \in SUBSET below(y) /\ below(x) # below(y)
    <3>1. below(x) \subseteq below(y)
      BY <2>0, Zenon
    <3>2. x \in below(y) /\ x \notin below(x)
      BY <1>2, <2>0, Zenon
    <3> HIDE DEF below
    <3> QED BY <3>1, <3>2
  <2>2. /\ Cardinality(below(x)) <= Cardinality(below(y))
        /\ Cardinality(below(y)) = Cardinality(below(x)) => below(y) = below(x)
    <3> HIDE DEF below
    <3> QED BY <1>1, <2>1, FS_Subset
  <2>3. Cardinality(below(x)) < Cardinality(below(y))
    <3> HIDE DEF below
    <3> QED BY <1>1, <2>1, <2>2
  <2>4. rank[x] = Cardinality(below(x)) + 1 /\ rank[y] = Cardinality(below(y)) + 1
    OBVIOUS
  <2> HIDE DEF below, rank
  <2> QED BY <1>1, <2>3, <2>4
<1>3. rank \in [S -> 1 .. n]
  <2> HIDE DEF below
  <2> QED BY <1>0, <1>1
<1> HIDE DEF rank
<1>4. rank \in Injection(S, 1 .. n)
  <2>1. ASSUME NEW x \in S, NEW y \in S, rank[x] = rank[y] PROVE x = y
    <3>1. rank[x] \in Int
      <4> HIDE DEF n
      <4> QED BY <1>0, <1>3
    <3>2. ~ <<x, y>> \in L /\ ~ <<y, x>> \in L
      <4>1. ~ rank[x] < rank[y] /\ ~ rank[y] < rank[x]
        BY <2>1, <3>1
      <4> QED BY <1>2, <4>1
    <3> QED BY <3>2
  <2> QED BY <1>3, <2>1 DEF Injection, IsInjective
<1>5. rank \in Surjection(S, 1 .. n)
  <2>1. IsFiniteSet(1 .. n) /\ Cardinality(1 .. n) = n
    BY <1>0, FS_Interval
  <2> HIDE DEF n
  <2>2. Cardinality(S) = Cardinality(1 .. n) <=> rank \in Surjection(S, 1 .. n)
    BY <1>4, <2>1, FS_Injection
  <2> QED BY <2>1, <2>2 DEF n
<1>6. \A i \in 1 .. n : p[i] \in S /\ rank[p[i]] = i
  BY <1>5 DEF Surjection
<1>7. p \in [1 .. n -> S]
  BY <1>6
<1>8. ASSUME NEW x \in S PROVE \E i \in 1 .. n : p[i] = x
  <2>1. rank[x] \in 1 .. n
    BY <1>3
  <2>2. p[rank[x]] \in S /\ rank[p[rank[x]]] = rank[x]
    BY <1>6, <2>1
  <2>3. p[rank[x]] = x
    BY <1>4, <2>2 DEF Injection, IsInjective
  <2> QED BY <2>1, <2>3
<1>9. ASSUME NEW i \in 1 .. n, NEW j \in 1 .. n, i < j PROVE <<p[i], p[j]>> \in L
  <2>1. p[i] \in S /\ p[j] \in S /\ rank[p[i]] = i /\ rank[p[j]] = j
    BY <1>6
  <2> HIDE DEF p
  <2>2. p[i] # p[j]
    BY <1>9, <2>1
  <2>3. ~ <<p[j], p[i]>> \in L
    BY <1>2, <1>9, <2>1
  <2> QED BY <2>1, <2>2, <2>3
<1> HIDE DEF p
<1> QED BY <1>7, <1>8, <1>9

(* The only rearrangement that keeps a list in order is none.                *)
LEMMA OnlyOneOrder ==
    ASSUME NEW n \in Nat, NEW p \in [1 .. n -> 1 .. n],
           \A i, j \in 1 .. n : i < j => p[i] < p[j]
    PROVE  p = [i \in 1 .. n |-> i]
<1>1. p \in Injection(1 .. n, 1 .. n)
  <2>1. ASSUME NEW i \in 1 .. n, NEW j \in 1 .. n, p[i] = p[j] PROVE i = j
    BY <2>1
  <2> QED BY <2>1 DEF Injection, IsInjective
<1>2. p \in Surjection(1 .. n, 1 .. n)
  <2>1. IsFiniteSet(1 .. n)
    BY FS_Interval
  <2> QED BY <1>1, <2>1, FS_Injection
<1>3. ASSUME NEW i \in 1 .. n PROVE p[i] = i
  <2> DEFINE A == 1 .. (i - 1)
             B == 1 .. (p[i] - 1)
             f == [j \in A |-> p[j]]
  <2>0. p[i] \in 1 .. n
    OBVIOUS
  <2>1. ASSUME NEW j \in A PROVE p[j] \in B
    BY <2>0, <2>1
  <2>2. f \in Injection(A, B)
    <3>1. A \subseteq 1 .. n
      OBVIOUS
    <3>2. f \in [A -> B]
      BY <2>1
    <3>3. \A j, k \in A : f[j] = f[k] => j = k
      BY <1>1, <3>1 DEF Injection, IsInjective
    <3> QED BY <3>2, <3>3 DEF Injection, IsInjective
  <2>3. ASSUME NEW m \in B PROVE \E j \in A : f[j] = m
    <3>1. m \in 1 .. n /\ m < p[i]
      BY <2>0
    <3>2. PICK j \in 1 .. n : p[j] = m
      BY <1>2, <3>1 DEF Surjection
    <3>3. j < i
      <4>1. j # i
        BY <3>1, <3>2
      <4>2. i < j => p[i] < p[j]
        OBVIOUS
      <4> QED BY <2>0, <3>1, <3>2, <4>1, <4>2
    <3> QED BY <3>2, <3>3
  <2>4. f \in Surjection(A, B)
    BY <2>2, <2>3 DEF Injection, Surjection
  <2>5. IsFiniteSet(A) /\ Cardinality(A) = i - 1
    BY FS_Interval
  <2>6. IsFiniteSet(B) /\ Cardinality(B) = p[i] - 1
    <3>1. 1 \in Int /\ p[i] - 1 \in Int /\ p[i] >= 1
      BY <2>0
    <3>2. /\ IsFiniteSet(1 .. (p[i] - 1))
          /\ Cardinality(1 .. (p[i] - 1)) = IF 1 > p[i] - 1 THEN 0 ELSE (p[i] - 1) - 1 + 1
      BY <3>1, FS_Interval
    <3> QED BY <3>1, <3>2
  <2> HIDE DEF A, B, f
  <2>7. Cardinality(A) = Cardinality(B)
    BY <2>2, <2>4, <2>5, <2>6, FS_Injection
  <2> QED BY <2>0, <2>5, <2>6, <2>7
<1> QED BY <1>3

(* Deduplicating and sorting loses no point and adds none.                   *)
LEMMA DedupeSortPoints ==
    ASSUME NEW points, ToSet(points) \subseteq Int, IsFiniteSet(ToSet(points))
    PROVE  /\ ToSet(DedupeSort(points)) = ToSet(points)
           /\ DedupeSort(points) \in [1 .. Cardinality(ToSet(points)) -> ToSet(points)]
           /\ Ascending(DedupeSort(points))
<1> DEFINE S == ToSet(points)
           n == Cardinality(S)
           L == {e \in S \X S : e[1] < e[2]}
           q == DedupeSort(points)
<1>0. n \in Nat
  BY FS_CardinalityType
<1>1. S \subseteq Int /\ IsFiniteSet(S)
  OBVIOUS
<1>2. \A x, y \in S : <<x, y>> \in L <=> x < y
  OBVIOUS
<1>7. q = CHOOSE p \in [1 .. n -> S] : Ascending(p)
  BY DEF DedupeSort
<1> HIDE DEF S, L, q
<1>3. \E p \in [1 .. n -> S] :
         /\ \A x \in S : \E i \in 1 .. n : p[i] = x
         /\ \A i, j \in 1 .. n : i < j => <<p[i], p[j]>> \in L
  <2>1. \A x \in S : <<x, x>> \notin L
    BY <1>1, <1>2
  <2>2. \A x, y \in S : x # y => <<x, y>> \in L \/ <<y, x>> \in L
    BY <1>1, <1>2
  <2>3. \A x, y, z \in S : <<x, y>> \in L /\ <<y, z>> \in L => <<x, z>> \in L
    BY <1>1, <1>2
  <2> QED BY <1>1, <2>1, <2>2, <2>3, Enumeration
<1>4. \E p \in [1 .. n -> S] : Ascending(p)
  BY <1>2, <1>3 DEF Ascending
<1>5. q \in [1 .. n -> S] /\ Ascending(q)
  <2> HIDE DEF n
  <2> QED BY <1>4, <1>7, Zenon
<1>6. ToSet(q) = S
  <2>1. q \in Injection(1 .. n, S)
    <3>1. ASSUME NEW i \in 1 .. n, NEW j \in 1 .. n, q[i] = q[j] PROVE i = j
      <4>1. q[i] \in Int /\ q[j] \in Int /\ DOMAIN q = 1 .. n
        BY <1>1, <1>5
      <4>2. i < j => q[i] < q[j]
        BY <1>5, <4>1 DEF Ascending
      <4>3. j < i => q[j] < q[i]
        BY <1>5, <4>1 DEF Ascending
      <4> QED BY <3>1, <4>1, <4>2, <4>3
    <3> QED BY <1>5, <3>1 DEF Injection, IsInjective
  <2>2. IsFiniteSet(1 .. n) /\ Cardinality(1 .. n) = Cardinality(S)
    BY <1>0, FS_Interval
  <2> HIDE DEF n
  <2>3. q \in Surjection(1 .. n, S)
    BY <1>1, <2>1, <2>2, FS_Injection
  <2> QED BY <2>3 DEF Surjection, ToSet
<1> QED BY <1>5, <1>6 DEF S, q

(* The order of two cases is their kinds', and then their identifiers'.      *)
LEMMA KindOrders == \A kind : KindOrder(kind) \in 0 .. 4
  BY DEF KindOrder

Ordinal(cases) == \A i \in DOMAIN cases : cases[i].id \in Int
Precedes(cases, i, j) ==
    \/ CaseBefore(cases[i], cases[j])
    \/ ~ CaseBefore(cases[j], cases[i]) /\ i < j

(* Cases are put in one order, whatever list they come in.                   *)
LEMMA CasesOrdered ==
    ASSUME NEW cases, NEW n \in Nat, DOMAIN cases = 1 .. n, Ordinal(cases)
    PROVE  /\ \A i \in 1 .. n : ~ Precedes(cases, i, i)
           /\ \A i, j \in 1 .. n : i # j => Precedes(cases, i, j) \/ Precedes(cases, j, i)
           /\ \A i, j, k \in 1 .. n :
                 Precedes(cases, i, j) /\ Precedes(cases, j, k) => Precedes(cases, i, k)
<1> DEFINE kind(i) == KindOrder(cases[i].kind)
           id(i) == cases[i].id
           before(i, j) == kind(i) < kind(j) \/ (kind(i) = kind(j) /\ id(i) < id(j))
<1>1. \A i \in 1 .. n : kind(i) \in Int /\ id(i) \in Int
  BY KindOrders DEF Ordinal
<1>2. \A i, j \in 1 .. n : Precedes(cases, i, j) <=> before(i, j) \/ (~ before(j, i) /\ i < j)
  BY DEF Precedes, CaseBefore
<1> HIDE DEF kind, id
<1>3. \A i \in 1 .. n : ~ Precedes(cases, i, i)
  BY <1>1, <1>2
<1>4. \A i, j \in 1 .. n : i # j => Precedes(cases, i, j) \/ Precedes(cases, j, i)
  BY <1>1, <1>2
<1>5. \A i, j, k \in 1 .. n :
         Precedes(cases, i, j) /\ Precedes(cases, j, k) => Precedes(cases, i, k)
  BY <1>1, <1>2
<1> QED BY <1>3, <1>4, <1>5

(* Sorting rearranges the cases: none is lost, and none comes twice.         *)
LEMMA SortCasesRearranges ==
    ASSUME NEW cases, NEW n \in Nat, DOMAIN cases = 1 .. n, Ordinal(cases)
    PROVE  \E p \in [1 .. n -> 1 .. n] :
              /\ SortCases(cases) = [k \in 1 .. n |-> cases[p[k]]]
              /\ \A i \in 1 .. n : \E k \in 1 .. n : p[k] = i
              /\ \A i, j \in 1 .. n : i < j => Precedes(cases, p[i], p[j])
<1> DEFINE D == 1 .. n
           L == {e \in D \X D : Precedes(cases, e[1], e[2])}
           sorted(q) == \A i, j \in D : i < j => Precedes(cases, q[i], q[j])
           order == CHOOSE q \in [D -> D] : sorted(q)
<1>1. SortCases(cases) = [k \in D |-> cases[order[k]]]
  BY DEF SortCases, Precedes
<1>2. \A i, j \in D : <<i, j>> \in L <=> Precedes(cases, i, j)
  BY Zenon
<1>3. IsFiniteSet(D) /\ Cardinality(D) = n
  BY FS_Interval
<1> HIDE DEF L, D
<1>4. \E q \in [1 .. Cardinality(D) -> D] :
         /\ \A x \in D : \E i \in 1 .. Cardinality(D) : q[i] = x
         /\ \A i, j \in 1 .. Cardinality(D) : i < j => <<q[i], q[j]>> \in L
  <2>1. \A x \in D : <<x, x>> \notin L
    BY <1>2, CasesOrdered DEF D
  <2>2. \A x, y \in D : x # y => <<x, y>> \in L \/ <<y, x>> \in L
    BY <1>2, CasesOrdered DEF D
  <2>3. \A x, y, z \in D : <<x, y>> \in L /\ <<y, z>> \in L => <<x, z>> \in L
    <3>1. \A i, j, k \in D :
             Precedes(cases, i, j) /\ Precedes(cases, j, k) => Precedes(cases, i, k)
      BY CasesOrdered DEF D
    <3> QED BY <1>2, <3>1
  <2> QED BY <1>3, <2>1, <2>2, <2>3, Enumeration
<1>5. PICK q \in [D -> D] :
         /\ \A x \in D : \E i \in D : q[i] = x
         /\ \A i, j \in D : i < j => <<q[i], q[j]>> \in L
  BY <1>3, <1>4 DEF D
<1>6. sorted(q)
  BY <1>2, <1>5
<1>7. order \in [D -> D] /\ sorted(order)
  BY <1>6, Zenon
<1> HIDE DEF order
<1>8. order \in Injection(D, D)
  <2>1. ASSUME NEW i \in D, NEW j \in D, order[i] = order[j] PROVE i = j
    <3>1. ~ Precedes(cases, order[i], order[i])
      BY <1>7, CasesOrdered DEF D
    <3>2. ~ i < j /\ ~ j < i
      BY <1>7, <2>1, <3>1
    <3> QED BY <3>2 DEF D
  <2> QED BY <1>7, <2>1 DEF Injection, IsInjective
<1>9. order \in Surjection(D, D)
  BY <1>3, <1>8, FS_Injection
<1>10. \A i \in D : \E k \in D : order[k] = i
  BY <1>9 DEF Surjection
<1> QED BY <1>1, <1>7, <1>10 DEF D

(* What has been sorted stays as it is.                                      *)
LEMMA SortCasesAgain ==
    ASSUME NEW cases, NEW n \in Nat, DOMAIN cases = 1 .. n, Ordinal(cases)
    PROVE  SortCases(SortCases(cases)) = SortCases(cases)
<1> DEFINE c == SortCases(cases)
<1>1. PICK p \in [1 .. n -> 1 .. n] :
         /\ c = [k \in 1 .. n |-> cases[p[k]]]
         /\ \A i, j \in 1 .. n : i < j => Precedes(cases, p[i], p[j])
  BY SortCasesRearranges
<1>2. DOMAIN c = 1 .. n /\ Ordinal(c)
  BY <1>1 DEF Ordinal
<1>3. \A i, j \in 1 .. n : i < j => Precedes(c, i, j)
  <2> SUFFICES ASSUME NEW i \in 1 .. n, NEW j \in 1 .. n, i < j PROVE Precedes(c, i, j)
    OBVIOUS
  <2>1. Precedes(cases, p[i], p[j]) /\ c[i] = cases[p[i]] /\ c[j] = cases[p[j]]
    BY <1>1
  <2>2. CaseBefore(c[i], c[j]) \/ ~ CaseBefore(c[j], c[i])
    BY <2>1 DEF Precedes
  <2> HIDE DEF c
  <2> QED BY <2>2 DEF Precedes
<1> HIDE DEF c
<1>4. PICK q \in [1 .. n -> 1 .. n] :
         /\ SortCases(c) = [k \in 1 .. n |-> c[q[k]]]
         /\ \A i, j \in 1 .. n : i < j => Precedes(c, q[i], q[j])
  BY <1>2, SortCasesRearranges
<1>5. ASSUME NEW i \in 1 .. n, NEW j \in 1 .. n, i < j PROVE q[i] < q[j]
  <2>1. q[i] \in 1 .. n /\ q[j] \in 1 .. n /\ Precedes(c, q[i], q[j])
    BY <1>4, <1>5
  <2>2. ~ Precedes(c, q[j], q[i])
    BY <1>2, <2>1, CasesOrdered
  <2>3. ~ q[j] < q[i]
    BY <1>3, <2>1, <2>2
  <2>4. q[i] # q[j]
    BY <2>1, <2>2
  <2> QED BY <2>1, <2>3, <2>4
<1>6. q = [i \in 1 .. n |-> i]
  BY <1>5, OnlyOneOrder
<1>7. c = [k \in 1 .. n |-> c[k]]
  BY <1>1
<1> QED BY <1>4, <1>6, <1>7 DEF c

-------------------------------------------------------------------------------
(* The normal form of a document, member by member.                          *)

LEMMA NormalDigest ==
    ASSUME NEW g, DigestShape(g)
    PROVE  /\ NormalizeDigest(g) = [of |-> g.of, form |-> "lower"]
           /\ DigestShape(NormalizeDigest(g))
  BY DEF NormalizeDigest, DigestShape, HasMembers

LEMMA NormalTime ==
    ASSUME NEW t, TimeShape(t)
    PROVE  /\ TimeShape(NormalizeTime(t))
           /\ NormalizeTime(t).clock = t.clock - t.offset
           /\ NormalizeTime(t).offset = 0 /\ NormalizeTime(t).nanos = 0
  BY DEF NormalizeTime, TimeShape, HasMembers

NormalObservation(o, finding) ==
    [m \in {"state", finding, "reference", "observedAt"} |->
        CASE m = "reference"  -> Each(o.reference, NormalizeDigest)
          [] m = "observedAt" -> Each(o.observedAt, NormalizeTime)
          [] OTHER            -> o[m]]

LEMMA NormalizedObservation ==
    ASSUME NEW o, NEW finding \in {"verdict", "result"}, ObservationShape(o, finding)
    PROVE  NormalizeObservation(o) = NormalObservation(o, finding)
<1> DEFINE r == [i \in DOMAIN o.reference |-> NormalizeDigest(o.reference[i])]
           s == [i \in DOMAIN o.observedAt |-> NormalizeTime(o.observedAt[i])]
<1>1. NormalizeObservation(o) = [o EXCEPT !.reference = r, !.observedAt = s]
  BY DEF NormalizeObservation, Each
<1>2. NormalObservation(o, finding) =
        [m \in {"state", finding, "reference", "observedAt"} |->
            CASE m = "reference" -> r [] m = "observedAt" -> s [] OTHER -> o[m]]
  BY DEF NormalObservation, Each
<1> HIDE DEF r, s
<1> QED BY <1>1, <1>2 DEF ObservationShape, HasMembers

NormalCase(c) ==
    [id |-> c.id, kind |-> c.kind, correlationId |-> NormalizeDigest(c.correlationId),
     startedAt |-> NormalizeTime(c.startedAt), completedAt |-> NormalizeTime(c.completedAt),
     decision |-> NormalObservation(c.decision, "verdict"),
     outcome |-> NormalObservation(c.outcome, "result"),
     testResult |-> [testId |-> c.testResult.testId,
                     statementDigest |-> NormalizeDigest(c.testResult.statementDigest)]]

LEMMA NormalizedCase ==
    ASSUME NEW c, CaseShape(c)
    PROVE  NormalizeCase(c) = NormalCase(c)
<1> DEFINE g == NormalizeDigest(c.correlationId)
           h == NormalizeDigest(c.testResult.statementDigest)
           a == NormalizeTime(c.startedAt)
           b == NormalizeTime(c.completedAt)
           v == NormalObservation(c.decision, "verdict")
           w == NormalObservation(c.outcome, "result")
<1>1. NormalizeObservation(c.decision) = v /\ NormalizeObservation(c.outcome) = w
  BY NormalizedObservation DEF CaseShape
<1>2. NormalizeCase(c) =
        [c EXCEPT !.correlationId = g, !.testResult.statementDigest = h, !.startedAt = a,
                  !.completedAt = b, !.decision = v, !.outcome = w]
  BY <1>1 DEF NormalizeCase
<1>3. NormalCase(c) =
        [id |-> c.id, kind |-> c.kind, correlationId |-> g, startedAt |-> a, completedAt |-> b,
         decision |-> v, outcome |-> w,
         testResult |-> [testId |-> c.testResult.testId, statementDigest |-> h]]
  BY DEF NormalCase
<1> HIDE DEF g, h, a, b, v, w
<1>4. c = [id |-> c.id, kind |-> c.kind, correlationId |-> c.correlationId,
           startedAt |-> c.startedAt, completedAt |-> c.completedAt, decision |-> c.decision,
           outcome |-> c.outcome, testResult |-> c.testResult]
  BY DEF CaseShape, HasMembers
<1>5. [c.testResult EXCEPT !.statementDigest = h] =
        [testId |-> c.testResult.testId, statementDigest |-> h]
  BY DEF CaseShape, HasMembers
<1> QED BY <1>2, <1>3, <1>4, <1>5

NormalDocument(d) ==
    [agent |-> [name |-> d.agent.name, artifactDigest |-> NormalizeDigest(d.agent.artifactDigest)],
     runtime |-> [digest |-> NormalizeDigest(d.runtime.digest)],
     adapter |-> [runtimeDigest |-> NormalizeDigest(d.adapter.runtimeDigest)],
     runtimePolicy |-> [count |-> d.runtimePolicy.count, loaded |-> d.runtimePolicy.loaded,
                        digest |-> NormalizeDigest(d.runtimePolicy.digest)],
     enforcement |-> [mode |-> d.enforcement.mode,
                      defaultBehavior |-> d.enforcement.defaultBehavior,
                      required |-> DedupeSort(d.enforcement.required),
                      observed |-> DedupeSort(d.enforcement.observed)],
     tool |-> NormalizeDigest(d.tool),
     cases |-> SortCases([i \in DOMAIN d.cases |-> NormalCase(d.cases[i])]),
     extensions |-> [i \in DOMAIN d.extensions |->
                        [layout |-> "canonical", legal |-> d.extensions[i].legal]],
     illegal |-> d.illegal,
     indented |-> d.indented]

LooseDocument(d) ==
    /\ DigestForms(d) \subseteq LooseForms
    /\ \A i \in DOMAIN d.cases : \A t \in CaseTimes(d.cases[i]) : WholeSecond(t)

LEMMA NormalizedDocument ==
    ASSUME NEW d, DocumentShape(d)
    PROVE  Normalize(d) = IF LooseDocument(d) THEN Ok(NormalDocument(d)) ELSE Err
<1> DEFINE ga == NormalizeDigest(d.agent.artifactDigest)
           gr == NormalizeDigest(d.runtime.digest)
           gd == NormalizeDigest(d.adapter.runtimeDigest)
           gp == NormalizeDigest(d.runtimePolicy.digest)
           gt == NormalizeDigest(d.tool)
           qr == DedupeSort(d.enforcement.required)
           qo == DedupeSort(d.enforcement.observed)
           ex == Each(d.extensions, LAMBDA x : [x EXCEPT !.layout = "canonical"])
           ey == [i \in DOMAIN d.extensions |->
                    [layout |-> "canonical", legal |-> d.extensions[i].legal]]
           cs == SortCases([i \in DOMAIN d.cases |-> NormalizeCase(d.cases[i])])
           ct == SortCases([i \in DOMAIN d.cases |-> NormalCase(d.cases[i])])
           members(agent, runtime, adapter, policy, enforcement, tool, extensions, cases) ==
              [agent |-> agent, runtime |-> runtime, adapter |-> adapter,
               runtimePolicy |-> policy, enforcement |-> enforcement, tool |-> tool,
               cases |-> cases, extensions |-> extensions,
               illegal |-> d.illegal, indented |-> d.indented]
           a == [name |-> d.agent.name, artifactDigest |-> ga]
           r == [digest |-> gr]
           b == [runtimeDigest |-> gd]
           p == [count |-> d.runtimePolicy.count, loaded |-> d.runtimePolicy.loaded, digest |-> gp]
           f == [mode |-> d.enforcement.mode, defaultBehavior |-> d.enforcement.defaultBehavior,
                 required |-> qr, observed |-> d.enforcement.observed]
           e == [mode |-> d.enforcement.mode, defaultBehavior |-> d.enforcement.defaultBehavior,
                 required |-> qr, observed |-> qo]
           d1 == [d EXCEPT !.agent.artifactDigest = ga]
           d2 == [d1 EXCEPT !.runtime.digest = gr]
           d3 == [d2 EXCEPT !.adapter.runtimeDigest = gd]
           d4 == [d3 EXCEPT !.runtimePolicy.digest = gp]
           d5 == [d4 EXCEPT !.tool = gt]
           d6 == [d5 EXCEPT !.enforcement.required = qr]
           d7 == [d6 EXCEPT !.enforcement.observed = qo]
           d8 == [d7 EXCEPT !.extensions = ex]
           d9 == [d8 EXCEPT !.cases = cs]
<1>1. Normalize(d) = IF LooseDocument(d) THEN Ok(d9) ELSE Err
  BY DEF Normalize, LooseDocument
<1>2. ex = ey
  BY DEF Each, DocumentShape, HasMembers
<1>3. cs = ct
  <2>1. \A i \in DOMAIN d.cases : NormalizeCase(d.cases[i]) = NormalCase(d.cases[i])
    BY NormalizedCase DEF DocumentShape
  <2>2. [i \in DOMAIN d.cases |-> NormalizeCase(d.cases[i])]
          = [i \in DOMAIN d.cases |-> NormalCase(d.cases[i])]
    BY <2>1
  <2> QED BY <2>2
<1>4. NormalDocument(d) = members(a, r, b, p, e, gt, ey, ct)
  BY DEF NormalDocument
<1> HIDE DEF ga, gr, gd, gp, gt, qr, qo, ex, ey, cs, ct
<1>5. d = members(d.agent, d.runtime, d.adapter, d.runtimePolicy, d.enforcement, d.tool,
                  d.extensions, d.cases)
  BY DEF DocumentShape, HasMembers
<1>6. [d.agent EXCEPT !.artifactDigest = ga] = a
  BY DEF DocumentShape, HasMembers
<1>7. [d.runtime EXCEPT !.digest = gr] = r
  BY DEF DocumentShape, HasMembers
<1>8. [d.adapter EXCEPT !.runtimeDigest = gd] = b
  BY DEF DocumentShape, HasMembers
<1>9. [d.runtimePolicy EXCEPT !.digest = gp] = p
  BY DEF DocumentShape, HasMembers
<1>10. [d.enforcement EXCEPT !.required = qr] = f
  BY DEF DocumentShape, HasMembers
<1>11. [f EXCEPT !.observed = qo] = e
  OBVIOUS
<1> HIDE DEF a, r, b, p, e, f
<1>12. d1 = members(a, d.runtime, d.adapter, d.runtimePolicy, d.enforcement, d.tool,
                    d.extensions, d.cases)
  BY <1>5, <1>6
<1> HIDE DEF d1
<1>13. d2 = members(a, r, d.adapter, d.runtimePolicy, d.enforcement, d.tool, d.extensions, d.cases)
  BY <1>7, <1>12
<1> HIDE DEF d2
<1>14. d3 = members(a, r, b, d.runtimePolicy, d.enforcement, d.tool, d.extensions, d.cases)
  BY <1>8, <1>13
<1> HIDE DEF d3
<1>15. d4 = members(a, r, b, p, d.enforcement, d.tool, d.extensions, d.cases)
  BY <1>9, <1>14
<1> HIDE DEF d4
<1>16. d5 = members(a, r, b, p, d.enforcement, gt, d.extensions, d.cases)
  BY <1>15
<1> HIDE DEF d5
<1>17. d6 = members(a, r, b, p, f, gt, d.extensions, d.cases)
  BY <1>10, <1>16
<1> HIDE DEF d6
<1>18. d7 = members(a, r, b, p, e, gt, d.extensions, d.cases)
  BY <1>11, <1>17
<1> HIDE DEF d7
<1>19. d8 = members(a, r, b, p, e, gt, ex, d.cases)
  BY <1>18
<1> HIDE DEF d8
<1>20. d9 = members(a, r, b, p, e, gt, ex, cs)
  BY <1>19
<1> HIDE DEF d9
<1> QED BY <1>1, <1>2, <1>3, <1>4, <1>20

-------------------------------------------------------------------------------
(* Normalizing keeps the facts, the shape, and what is normal already.       *)

WholeCase(c) == \A t \in CaseTimes(c) : WholeSecond(t)

LEMMA NormalObservationKeeps ==
    ASSUME NEW o, NEW finding \in {"verdict", "result"}, ObservationShape(o, finding),
           \A t \in ToSet(o.observedAt) : WholeSecond(t)
    PROVE  LET n == NormalObservation(o, finding)
           IN  /\ ObservationShape(n, finding)
               /\ n.state = o.state /\ n[finding] = o[finding]
               /\ n.reference = Each(o.reference, NormalizeDigest)
               /\ n.observedAt = Each(o.observedAt, NormalizeTime)
               /\ Commitments(n.reference) = Commitments(o.reference)
               /\ Instants(n.observedAt) = Instants(o.observedAt)
               /\ OptionalForms(n.reference) \subseteq {"lower"}
               /\ \A t \in ToSet(n.observedAt) : WholeSecond(t) /\ t.offset = 0
               /\ NormalObservation(n, finding) = n
<1> DEFINE n == NormalObservation(o, finding)
           r == Each(o.reference, NormalizeDigest)
           s == Each(o.observedAt, NormalizeTime)
<1>1. /\ n = [m \in {"state", finding, "reference", "observedAt"} |-> n[m]]
      /\ n.state = o.state /\ n[finding] = o[finding] /\ n.reference = r /\ n.observedAt = s
  BY DEF NormalObservation
<1>2. /\ DOMAIN r = DOMAIN o.reference /\ DOMAIN s = DOMAIN o.observedAt
      /\ \A i \in DOMAIN o.reference : r[i] = NormalizeDigest(o.reference[i])
      /\ \A i \in DOMAIN o.observedAt : s[i] = NormalizeTime(o.observedAt[i])
  BY DEF Each
<1>3. \A i \in DOMAIN r : DigestShape(r[i]) /\ r[i].of = o.reference[i].of /\ r[i].form = "lower"
  <2>1. \A i \in DOMAIN o.reference : DigestShape(o.reference[i])
    BY DEF ObservationShape
  <2>2. \A g : DigestShape(g) => /\ DigestShape(NormalizeDigest(g))
                                /\ NormalizeDigest(g).of = g.of
                                /\ NormalizeDigest(g).form = "lower"
    BY NormalDigest
  <2> HIDE DEF r
  <2> QED BY <1>2, <2>1, <2>2
<1>4. \A i \in DOMAIN s : /\ TimeShape(s[i]) /\ s[i].offset = 0 /\ s[i].nanos = 0
                          /\ s[i].clock = o.observedAt[i].clock - o.observedAt[i].offset
  <2>1. \A i \in DOMAIN o.observedAt : TimeShape(o.observedAt[i])
    BY DEF ObservationShape
  <2> HIDE DEF s
  <2> QED BY <1>2, <2>1, NormalTime
<1>5. IsOptional(r) /\ IsOptional(s)
  BY OptionalRewritten DEF Each, ObservationShape
<1>7. \A i \in DOMAIN o.observedAt : o.observedAt[i].nanos = 0
  BY DEF WholeSecond, ToSet
<1> HIDE DEF n, r, s
<1>8. ObservationShape(n, finding)
  BY <1>1, <1>3, <1>4, <1>5 DEF ObservationShape, HasMembers
<1>9. Commitments(n.reference) = Commitments(o.reference)
  BY <1>1, <1>2, <1>3 DEF Commitments, Each
<1>10. Instants(n.observedAt) = Instants(o.observedAt)
  <2>1. \A i \in DOMAIN s : Instant(s[i]) = Instant(o.observedAt[i])
    <3> SUFFICES ASSUME NEW i \in DOMAIN s PROVE Instant(s[i]) = Instant(o.observedAt[i])
      OBVIOUS
    <3>1. s[i].clock - s[i].offset = o.observedAt[i].clock - o.observedAt[i].offset
      BY <1>2, <1>4 DEF ObservationShape, TimeShape
    <3> QED BY <1>2, <1>4, <1>7, <3>1 DEF Instant
  <2> QED BY <1>1, <1>2, <2>1 DEF Instants, Each
<1>11. OptionalForms(n.reference) \subseteq {"lower"}
  BY <1>1, <1>3 DEF OptionalForms
<1>12. \A t \in ToSet(n.observedAt) : WholeSecond(t) /\ t.offset = 0
  BY <1>1, <1>4 DEF ToSet, WholeSecond
<1>13. NormalObservation(n, finding) = n
  <2>1. Each(r, NormalizeDigest) = r
    <3>1. \A i \in DOMAIN r : NormalizeDigest(r[i]) = r[i]
      BY <1>3, NormalDigest DEF DigestShape, HasMembers
    <3>2. r = [i \in DOMAIN r |-> r[i]]
      BY DEF r, Each
    <3> QED BY <3>1, <3>2 DEF Each
  <2>2. Each(s, NormalizeTime) = s
    <3>1. \A i \in DOMAIN s : NormalizeTime(s[i]) = s[i]
      <4> SUFFICES ASSUME NEW i \in DOMAIN s PROVE NormalizeTime(s[i]) = s[i]
        OBVIOUS
      <4>1. s[i] = [clock |-> s[i].clock, offset |-> s[i].offset, nanos |-> s[i].nanos]
        BY <1>4 DEF TimeShape, HasMembers
      <4>2. s[i].clock - s[i].offset = s[i].clock /\ s[i].offset = 0 /\ s[i].nanos = 0
        BY <1>4 DEF TimeShape
      <4> QED BY <4>1, <4>2 DEF NormalizeTime
    <3>2. s = [i \in DOMAIN s |-> s[i]]
      BY DEF s, Each
    <3> QED BY <3>1, <3>2 DEF Each
  <2> QED BY <1>1, <2>1, <2>2 DEF NormalObservation
<1> QED BY <1>1, <1>8, <1>9, <1>10, <1>11, <1>12, <1>13 DEF n, r, s

LEMMA NormalCaseKeeps ==
    ASSUME NEW c, CaseShape(c), WholeCase(c)
    PROVE  LET n == NormalCase(c)
           IN  /\ CaseShape(n) /\ WholeCase(n)
               /\ CaseFacts(n) = CaseFacts(c)
               /\ CaseForms(n) \subseteq {"lower"}
               /\ NormalCase(n) = n
<1> DEFINE n == NormalCase(c)
           v == NormalObservation(c.decision, "verdict")
           w == NormalObservation(c.outcome, "result")
           g == NormalizeDigest(c.correlationId)
           h == NormalizeDigest(c.testResult.statementDigest)
           a == NormalizeTime(c.startedAt)
           b == NormalizeTime(c.completedAt)
<1>1. n = [id |-> c.id, kind |-> c.kind, correlationId |-> g, startedAt |-> a, completedAt |-> b,
           decision |-> v, outcome |-> w,
           testResult |-> [testId |-> c.testResult.testId, statementDigest |-> h]]
  BY DEF NormalCase
<1>2. /\ \A t \in ToSet(c.decision.observedAt) : WholeSecond(t)
      /\ \A t \in ToSet(c.outcome.observedAt) : WholeSecond(t)
      /\ WholeSecond(c.startedAt) /\ WholeSecond(c.completedAt)
  BY DEF WholeCase, CaseTimes
<1>3. /\ ObservationShape(v, "verdict")
      /\ v.state = c.decision.state /\ v.verdict = c.decision.verdict
      /\ Commitments(v.reference) = Commitments(c.decision.reference)
      /\ Instants(v.observedAt) = Instants(c.decision.observedAt)
      /\ OptionalForms(v.reference) \subseteq {"lower"}
      /\ \A t \in ToSet(v.observedAt) : WholeSecond(t)
      /\ NormalObservation(v, "verdict") = v
  BY <1>2, NormalObservationKeeps DEF CaseShape
<1>4. /\ ObservationShape(w, "result")
      /\ w.state = c.outcome.state /\ w.result = c.outcome.result
      /\ Commitments(w.reference) = Commitments(c.outcome.reference)
      /\ Instants(w.observedAt) = Instants(c.outcome.observedAt)
      /\ OptionalForms(w.reference) \subseteq {"lower"}
      /\ \A t \in ToSet(w.observedAt) : WholeSecond(t)
      /\ NormalObservation(w, "result") = w
  BY <1>2, NormalObservationKeeps DEF CaseShape
<1>5. /\ DigestShape(g) /\ g.of = c.correlationId.of /\ g.form = "lower"
      /\ NormalizeDigest(g) = g
  BY NormalDigest DEF CaseShape
<1>6. /\ DigestShape(h) /\ h.form = "lower" /\ NormalizeDigest(h) = h
  BY NormalDigest DEF CaseShape
<1>7. ASSUME NEW t, TimeShape(t), WholeSecond(t)
      PROVE  /\ TimeShape(NormalizeTime(t)) /\ WholeSecond(NormalizeTime(t))
             /\ Instant(NormalizeTime(t)) = Instant(t)
             /\ NormalizeTime(NormalizeTime(t)) = NormalizeTime(t)
  <2> DEFINE u == NormalizeTime(t)
  <2>1. TimeShape(u) /\ u.clock = t.clock - t.offset /\ u.offset = 0 /\ u.nanos = 0
    BY <1>7, NormalTime
  <2>2. u = [clock |-> u.clock, offset |-> 0, nanos |-> 0]
    BY <2>1 DEF NormalizeTime
  <2> HIDE DEF u
  <2>3. u.clock - u.offset = u.clock
    BY <2>1 DEF TimeShape
  <2>4. Instant(u) = Instant(t)
    BY <1>7, <2>1, <2>3 DEF Instant, WholeSecond
  <2>5. NormalizeTime(u) = u
    BY <2>2, <2>3 DEF NormalizeTime
  <2> QED BY <2>1, <2>4, <2>5 DEF u, WholeSecond
<1>8. /\ TimeShape(a) /\ WholeSecond(a) /\ Instant(a) = Instant(c.startedAt) /\ NormalizeTime(a) = a
  BY <1>2, <1>7 DEF CaseShape
<1>9. /\ TimeShape(b) /\ WholeSecond(b) /\ Instant(b) = Instant(c.completedAt) /\ NormalizeTime(b) = b
  BY <1>2, <1>7 DEF CaseShape
<1> HIDE DEF n, v, w, g, h, a, b
<1>10. CaseShape(n)
  <2>1. /\ n = [m \in {"id", "kind", "correlationId", "startedAt", "completedAt",
                       "decision", "outcome", "testResult"} |-> n[m]]
        /\ n.testResult = [m \in {"testId", "statementDigest"} |-> n.testResult[m]]
    BY <1>1
  <2>2. c.id \in Int
    BY DEF CaseShape
  <2> QED BY <1>1, <1>3, <1>4, <1>5, <1>6, <1>8, <1>9, <2>1, <2>2 DEF CaseShape, HasMembers
<1>11. WholeCase(n)
  BY <1>1, <1>3, <1>4, <1>8, <1>9 DEF WholeCase, CaseTimes
<1>12. CaseFacts(n) = CaseFacts(c)
  <2>1. ObservationFacts(n.decision, n.decision.verdict)
          = ObservationFacts(c.decision, c.decision.verdict)
    BY <1>1, <1>3 DEF ObservationFacts
  <2>2. ObservationFacts(n.outcome, n.outcome.result)
          = ObservationFacts(c.outcome, c.outcome.result)
    BY <1>1, <1>4 DEF ObservationFacts
  <2> QED BY <1>1, <1>5, <1>8, <1>9, <2>1, <2>2 DEF CaseFacts
<1>13. CaseForms(n) \subseteq {"lower"}
  BY <1>1, <1>3, <1>4, <1>5, <1>6 DEF CaseForms
<1>14. NormalCase(n) = n
  <2>1. NormalCase(n) =
          [id |-> c.id, kind |-> c.kind, correlationId |-> g, startedAt |-> a, completedAt |-> b,
           decision |-> v, outcome |-> w,
           testResult |-> [testId |-> c.testResult.testId, statementDigest |-> h]]
    BY <1>1, <1>3, <1>4, <1>5, <1>6, <1>8, <1>9 DEF NormalCase
  <2> QED BY <1>1, <2>1
<1> QED BY <1>10, <1>11, <1>12, <1>13, <1>14 DEF n

LEMMA PointsOnce ==
    ASSUME NEW points \in Seq(Int)
    PROVE  /\ DedupeSort(points) \in Seq(Int)
           /\ ToSet(DedupeSort(points)) = ToSet(points)
           /\ Len(DedupeSort(points)) = Cardinality(ToSet(points))
           /\ Ascending(DedupeSort(points))
           /\ DedupeSort(DedupeSort(points)) = DedupeSort(points)
<1> DEFINE q == DedupeSort(points)
           S == ToSet(points)
<1>1. S \subseteq Int /\ IsFiniteSet(S)
  <2>1. DOMAIN points = 1 .. Len(points) /\ Len(points) \in Nat
    OBVIOUS
  <2>2. points \in Surjection(1 .. Len(points), S)
    BY <2>1 DEF Surjection, ToSet
  <2>3. IsFiniteSet(1 .. Len(points))
    BY <2>1, FS_Interval
  <2>4. S \subseteq Int
    BY <2>1 DEF ToSet
  <2> QED BY <2>2, <2>3, <2>4, FS_Surjection
<1>2. Cardinality(S) \in Nat
  BY <1>1, FS_CardinalityType
<1>3. ToSet(q) = S /\ q \in [1 .. Cardinality(S) -> S] /\ Ascending(q)
  BY <1>1, DedupeSortPoints
<1>5. DedupeSort(q) = q
  BY <1>3 DEF DedupeSort
<1> HIDE DEF q, S
<1>6. q \in Seq(Int) /\ Len(q) = Cardinality(S)
  <2>1. q \in [1 .. Cardinality(S) -> Int]
    BY <1>1, <1>3
  <2> QED BY <1>2, <2>1
<1> QED BY <1>3, <1>5, <1>6 DEF q, S

PointsKept(points) ==
    /\ DedupeSort(points) \in Seq(Int)
    /\ ToSet(DedupeSort(points)) = ToSet(points)
    /\ DedupeSort(DedupeSort(points)) = DedupeSort(points)

(* The normal form is a document, its own normal form, and states no other   *)
(* facts than the document it was made from.                                 *)
LEMMA NormalDocumentKeeps ==
    ASSUME NEW d, DocumentShape(d), LooseDocument(d)
    PROVE  LET n == NormalDocument(d)
           IN  /\ DocumentShape(n) /\ LooseDocument(n)
               /\ Facts(n) = Facts(d)
               /\ DOMAIN n.cases = DOMAIN d.cases
               /\ DigestForms(n) \subseteq {"lower"}
               /\ NormalDocument(n) = n
<1> DEFINE n == NormalDocument(d)
           q == [i \in DOMAIN d.cases |-> NormalCase(d.cases[i])]
           z == Len(d.cases)
<1>1. z \in Nat /\ DOMAIN d.cases = 1 .. z /\ DOMAIN q = 1 .. z
  BY DEF DocumentShape, IsSequence
<1>2. ASSUME NEW i \in 1 .. z
      PROVE  LET c == q[i]
             IN  /\ CaseShape(c) /\ WholeCase(c)
                 /\ CaseFacts(c) = CaseFacts(d.cases[i])
                 /\ CaseForms(c) \subseteq {"lower"}
                 /\ NormalCase(c) = c
  <2>1. CaseShape(d.cases[i]) /\ WholeCase(d.cases[i])
    BY <1>1 DEF DocumentShape, LooseDocument, WholeCase
  <2>2. q[i] = NormalCase(d.cases[i])
    BY <1>1
  <2> QED BY <2>1, <2>2, NormalCaseKeeps
<1> HIDE DEF q
<1>3. Ordinal(q)
  BY <1>1, <1>2 DEF Ordinal, CaseShape
<1>4. PICK p \in [1 .. z -> 1 .. z] :
         /\ SortCases(q) = [k \in 1 .. z |-> q[p[k]]]
         /\ \A i \in 1 .. z : \E k \in 1 .. z : p[k] = i
  <2> HIDE DEF n, z
  <2>1. \E p \in [1 .. z -> 1 .. z] :
           /\ SortCases(q) = [k \in 1 .. z |-> q[p[k]]]
           /\ \A i \in 1 .. z : \E k \in 1 .. z : p[k] = i
           /\ \A i, j \in 1 .. z : i < j => Precedes(q, p[i], p[j])
    BY <1>1, <1>3, SortCasesRearranges, Zenon
  <2> QED BY <2>1
<1>5. n.cases = SortCases(q)
  BY DEF NormalDocument, q
<1>6. DOMAIN n.cases = 1 .. z /\ \A k \in 1 .. z : n.cases[k] = q[p[k]]
  <2> HIDE DEF n
  <2> QED BY <1>4, <1>5
<1>7. IsSequence(n.cases)
  <2> HIDE DEF n
  <2>1. n.cases = [k \in 1 .. z |-> n.cases[k]]
    BY <1>4, <1>5
  <2> QED BY <1>1, <2>1 DEF IsSequence, ToSet
<1>8. \A k \in 1 .. z : LET c == n.cases[k]
                        IN  CaseShape(c) /\ WholeCase(c) /\ CaseForms(c) \subseteq {"lower"}
                              /\ NormalCase(c) = c
  <2> HIDE DEF n
  <2> QED BY <1>2, <1>4, <1>6
<1>9. {CaseFacts(n.cases[k]) : k \in DOMAIN n.cases} = {CaseFacts(d.cases[i]) : i \in DOMAIN d.cases}
  <2> HIDE DEF n
  <2>1. \A k \in 1 .. z : CaseFacts(n.cases[k]) = CaseFacts(d.cases[p[k]]) /\ p[k] \in 1 .. z
    BY <1>2, <1>4, <1>6
  <2>2. \A x : x \in {CaseFacts(n.cases[k]) : k \in 1 .. z}
                 <=> x \in {CaseFacts(d.cases[i]) : i \in 1 .. z}
    <3> TAKE x
    <3>1. ASSUME NEW k \in 1 .. z, x = CaseFacts(n.cases[k])
          PROVE  \E i \in 1 .. z : x = CaseFacts(d.cases[i])
      BY <2>1, <3>1
    <3>2. ASSUME NEW i \in 1 .. z, x = CaseFacts(d.cases[i])
          PROVE  \E k \in 1 .. z : x = CaseFacts(n.cases[k])
      <4>1. PICK k \in 1 .. z : p[k] = i
        BY <1>4
      <4> QED BY <2>1, <3>2, <4>1
    <3> QED BY <3>1, <3>2
  <2> QED BY <1>1, <1>6, <2>2
<1>10. /\ PointsKept(d.enforcement.required) /\ PointsKept(d.enforcement.observed)
  BY PointsOnce DEF DocumentShape, PointsKept
<1>11. LET e == d.enforcement
       IN  /\ n.agent = [name |-> d.agent.name,
                         artifactDigest |-> NormalizeDigest(d.agent.artifactDigest)]
           /\ n.runtime = [digest |-> NormalizeDigest(d.runtime.digest)]
           /\ n.adapter = [runtimeDigest |-> NormalizeDigest(d.adapter.runtimeDigest)]
           /\ n.runtimePolicy = [count |-> d.runtimePolicy.count, loaded |-> d.runtimePolicy.loaded,
                                 digest |-> NormalizeDigest(d.runtimePolicy.digest)]
           /\ n.enforcement = [mode |-> e.mode, defaultBehavior |-> e.defaultBehavior,
                               required |-> DedupeSort(e.required),
                               observed |-> DedupeSort(e.observed)]
           /\ n.tool = NormalizeDigest(d.tool)
           /\ n.extensions = [i \in DOMAIN d.extensions |->
                                [layout |-> "canonical", legal |-> d.extensions[i].legal]]
           /\ n.illegal = d.illegal /\ n.indented = d.indented
           /\ n = [m \in {"agent", "runtime", "adapter", "runtimePolicy", "enforcement", "tool",
                           "cases", "extensions", "illegal", "indented"} |-> n[m]]
  BY DEF NormalDocument
<1>12. \A g : DigestShape(g) => /\ DigestShape(NormalizeDigest(g))
                               /\ NormalizeDigest(g).of = g.of /\ NormalizeDigest(g).form = "lower"
                               /\ NormalizeDigest(NormalizeDigest(g)) = NormalizeDigest(g)
  BY NormalDigest
<1>13. /\ DigestShape(d.agent.artifactDigest) /\ DigestShape(d.runtime.digest)
       /\ DigestShape(d.adapter.runtimeDigest) /\ DigestShape(d.runtimePolicy.digest)
       /\ DigestShape(d.tool)
  BY DEF DocumentShape
<1>14. IsSequence(n.extensions)
  <2> DEFINE x == n.extensions
             y == Len(d.extensions)
  <2>1. y \in Nat /\ DOMAIN d.extensions = 1 .. y
    BY DEF DocumentShape, IsSequence
  <2>2. x = [i \in 1 .. y |-> x[i]]
    BY <1>11, <2>1
  <2> HIDE DEF x, y
  <2>3. IsSequence(x)
    BY <2>1, <2>2 DEF IsSequence, ToSet
  <2> QED BY <2>3 DEF x
<1> HIDE DEF n, z
<1>15. DocumentShape(n)
  <2>1. /\ n.agent = [m \in {"name", "artifactDigest"} |-> n.agent[m]]
        /\ n.runtime = [m \in {"digest"} |-> n.runtime[m]]
        /\ n.adapter = [m \in {"runtimeDigest"} |-> n.adapter[m]]
        /\ DigestShape(n.agent.artifactDigest) /\ DigestShape(n.runtime.digest)
        /\ DigestShape(n.adapter.runtimeDigest) /\ DigestShape(n.tool)
    BY <1>11, <1>12, <1>13
  <2>2. /\ n.runtimePolicy = [m \in {"count", "loaded", "digest"} |-> n.runtimePolicy[m]]
        /\ DigestShape(n.runtimePolicy.digest)
        /\ n.runtimePolicy.count \in Int /\ n.runtimePolicy.loaded \in BOOLEAN
    <3>1. d.runtimePolicy.count \in Int /\ d.runtimePolicy.loaded \in BOOLEAN
      BY DEF DocumentShape
    <3> QED BY <1>11, <1>12, <1>13, <3>1
  <2>3. /\ n.enforcement = [m \in {"mode", "defaultBehavior", "required", "observed"} |->
                              n.enforcement[m]]
        /\ n.enforcement.required \in Seq(Int) /\ n.enforcement.observed \in Seq(Int)
    BY <1>10, <1>11 DEF PointsKept
  <2>4. \A i \in DOMAIN n.extensions : HasMembers(n.extensions[i], {"layout", "legal"})
    BY <1>11 DEF HasMembers
  <2>5. \A i \in DOMAIN n.cases : CaseShape(n.cases[i])
    BY <1>6, <1>8
  <2>6. HasMembers(n, {"agent", "runtime", "adapter", "runtimePolicy", "enforcement", "tool",
                       "cases", "extensions", "illegal", "indented"})
    BY <1>11 DEF HasMembers
  <2> QED BY <1>7, <1>14, <2>1, <2>2, <2>3, <2>4, <2>5, <2>6 DEF DocumentShape, HasMembers
<1>16. DigestForms(n) \subseteq {"lower"}
  <2>1. CoreForms(n) \subseteq {"lower"}
    BY <1>11, <1>12, <1>13 DEF CoreForms
  <2>2. \A i \in DOMAIN n.cases : CaseForms(n.cases[i]) \subseteq {"lower"}
    BY <1>6, <1>8
  <2> QED BY <2>1, <2>2 DEF DigestForms
<1>17. LooseDocument(n)
  BY <1>6, <1>8, <1>16 DEF LooseDocument, LooseForms, WholeCase
<1>18. Facts(n) = Facts(d)
  <2>1. /\ n.agent.name = d.agent.name /\ n.agent.artifactDigest.of = d.agent.artifactDigest.of
        /\ n.runtime.digest.of = d.runtime.digest.of
        /\ n.adapter.runtimeDigest.of = d.adapter.runtimeDigest.of
        /\ n.runtimePolicy.count = d.runtimePolicy.count
        /\ n.runtimePolicy.loaded = d.runtimePolicy.loaded
        /\ n.runtimePolicy.digest.of = d.runtimePolicy.digest.of
        /\ n.tool.of = d.tool.of
    BY <1>11, <1>12, <1>13
  <2>2. /\ n.enforcement.mode = d.enforcement.mode
        /\ n.enforcement.defaultBehavior = d.enforcement.defaultBehavior
        /\ ToSet(n.enforcement.required) = ToSet(d.enforcement.required)
        /\ ToSet(n.enforcement.observed) = ToSet(d.enforcement.observed)
    BY <1>10, <1>11 DEF PointsKept
  <2> QED BY <1>9, <2>1, <2>2 DEF Facts
<1>19. NormalDocument(n) = n
  <2>1. SortCases([i \in DOMAIN n.cases |-> NormalCase(n.cases[i])]) = n.cases
    <3>1. n.cases = [k \in 1 .. Len(d.cases) |-> n.cases[k]]
      BY <1>4, <1>5 DEF z
    <3>2. [i \in DOMAIN n.cases |-> NormalCase(n.cases[i])] = n.cases
      BY <1>6, <1>8, <3>1 DEF z
    <3>3. SortCases(n.cases) = n.cases
      BY <1>1, <1>3, <1>5, SortCasesAgain
    <3> QED BY <3>2, <3>3
  <2>2. [i \in DOMAIN n.extensions |-> [layout |-> "canonical", legal |-> n.extensions[i].legal]]
          = n.extensions
    BY <1>11
  <2>3. n = [agent |-> n.agent, runtime |-> n.runtime, adapter |-> n.adapter,
             runtimePolicy |-> n.runtimePolicy, enforcement |-> n.enforcement, tool |-> n.tool,
             cases |-> n.cases, extensions |-> n.extensions, illegal |-> n.illegal,
             indented |-> n.indented]
    BY <1>11
  <2>4. /\ n.agent = [name |-> n.agent.name, artifactDigest |-> NormalizeDigest(n.agent.artifactDigest)]
        /\ n.runtime = [digest |-> NormalizeDigest(n.runtime.digest)]
        /\ n.adapter = [runtimeDigest |-> NormalizeDigest(n.adapter.runtimeDigest)]
        /\ n.tool = NormalizeDigest(n.tool)
    BY <1>11, <1>12, <1>13
  <2>5. n.runtimePolicy = [count |-> n.runtimePolicy.count, loaded |-> n.runtimePolicy.loaded,
                           digest |-> NormalizeDigest(n.runtimePolicy.digest)]
    BY <1>11, <1>12, <1>13
  <2>6. n.enforcement = [mode |-> n.enforcement.mode,
                         defaultBehavior |-> n.enforcement.defaultBehavior,
                         required |-> DedupeSort(n.enforcement.required),
                         observed |-> DedupeSort(n.enforcement.observed)]
    BY <1>10, <1>11 DEF PointsKept
  <2> QED BY <2>1, <2>2, <2>3, <2>4, <2>5, <2>6 DEF NormalDocument
<1>20. DOMAIN n.cases = DOMAIN d.cases
  BY <1>1, <1>6
<1> QED BY <1>15, <1>16, <1>17, <1>18, <1>19, <1>20 DEF n

-------------------------------------------------------------------------------
(* What the decoder and the helper do to a document before and after: other  *)
(* statement digests in its cases, and nothing else.                         *)

WithDigest(c, g) == [c EXCEPT !.testResult.statementDigest = g]

Redigested(d, z) ==
    /\ z = [d EXCEPT !.cases = z.cases]
    /\ IsSequence(z.cases) /\ DOMAIN z.cases = DOMAIN d.cases
    /\ \A i \in DOMAIN d.cases : \E g : DigestShape(g) /\ z.cases[i] = WithDigest(d.cases[i], g)

LEMMA CaseRedigested ==
    ASSUME NEW c, CaseShape(c), NEW g, DigestShape(g)
    PROVE  LET e == WithDigest(c, g)
           IN  /\ CaseShape(e) /\ CaseFacts(e) = CaseFacts(c)
               /\ e.testResult = [testId |-> c.testResult.testId, statementDigest |-> g]
               /\ \A m \in {"id", "kind", "correlationId", "startedAt", "completedAt",
                            "decision", "outcome"} : e[m] = c[m]
<1> DEFINE e == WithDigest(c, g)
<1>1. c = [m \in {"id", "kind", "correlationId", "startedAt", "completedAt",
                  "decision", "outcome", "testResult"} |-> c[m]]
  BY DEF CaseShape, HasMembers
<1>2. [c.testResult EXCEPT !.statementDigest = g]
        = [testId |-> c.testResult.testId, statementDigest |-> g]
  BY DEF CaseShape, HasMembers
<1>3. /\ e.testResult = [testId |-> c.testResult.testId, statementDigest |-> g]
      /\ \A m \in {"id", "kind", "correlationId", "startedAt", "completedAt",
                   "decision", "outcome"} : e[m] = c[m]
      /\ HasMembers(e, {"id", "kind", "correlationId", "startedAt", "completedAt",
                        "decision", "outcome", "testResult"})
  BY <1>1, <1>2 DEF WithDigest, HasMembers
<1> HIDE DEF e
<1>4. /\ e.id = c.id /\ e.kind = c.kind /\ e.correlationId = c.correlationId
      /\ e.startedAt = c.startedAt /\ e.completedAt = c.completedAt
      /\ e.decision = c.decision /\ e.outcome = c.outcome
      /\ e.testResult.testId = c.testResult.testId /\ e.testResult.statementDigest = g
      /\ HasMembers(e.testResult, {"testId", "statementDigest"})
  BY <1>3 DEF HasMembers
<1>5. CaseShape(e)
  BY <1>3, <1>4 DEF CaseShape
<1>6. CaseFacts(e) = CaseFacts(c)
  BY <1>4 DEF CaseFacts
<1> QED BY <1>3, <1>5, <1>6 DEF e

LEMMA RedigestedMembers ==
    ASSUME NEW c, CaseShape(c), NEW g, DigestShape(g)
    PROVE  LET e == WithDigest(c, g)
           IN  /\ CaseShape(e) /\ e.id = c.id /\ e.correlationId = c.correlationId
               /\ e.decision = c.decision /\ e.outcome = c.outcome
<1> DEFINE e == WithDigest(c, g)
           M == {"id", "kind", "correlationId", "startedAt", "completedAt",
                 "decision", "outcome"}
<1>1. CaseShape(e) /\ \A m \in M : e[m] = c[m]
  BY CaseRedigested, Zenon
<1>2. "id" \in M /\ "correlationId" \in M /\ "decision" \in M /\ "outcome" \in M
  OBVIOUS
<1> HIDE DEF e, M
<1>3. /\ CaseShape(e) /\ e.id = c.id /\ e.correlationId = c.correlationId
      /\ e.decision = c.decision /\ e.outcome = c.outcome
  BY <1>1, <1>2
<1> QED BY <1>3 DEF e

LEMMA DigestGiven ==
    ASSUME NEW c, CaseShape(c), NEW g, DigestShape(g)
    PROVE  WithDigest(c, g).testResult.statementDigest = g
<1> DEFINE e == WithDigest(c, g)
<1>1. e.testResult = [testId |-> c.testResult.testId, statementDigest |-> g]
  BY CaseRedigested
<1> HIDE DEF e
<1>2. e.testResult.statementDigest = g
  BY <1>1
<1> QED BY <1>2 DEF e

LEMMA Redigest ==
    ASSUME NEW d, DocumentShape(d), NEW z, Redigested(d, z)
    PROVE  /\ DocumentShape(z) /\ Facts(z) = Facts(d)
           /\ \A m \in {"agent", "runtime", "adapter", "runtimePolicy", "enforcement", "tool",
                        "extensions", "illegal", "indented"} : z[m] = d[m]
<1>1. d = [m \in {"agent", "runtime", "adapter", "runtimePolicy", "enforcement", "tool",
                  "cases", "extensions", "illegal", "indented"} |-> d[m]]
  BY DEF DocumentShape, HasMembers
<1>2. /\ \A m \in {"agent", "runtime", "adapter", "runtimePolicy", "enforcement", "tool",
                   "extensions", "illegal", "indented"} : z[m] = d[m]
      /\ HasMembers(z, {"agent", "runtime", "adapter", "runtimePolicy", "enforcement", "tool",
                        "cases", "extensions", "illegal", "indented"})
  BY <1>1 DEF Redigested, HasMembers
<1>3. /\ z.agent = d.agent /\ z.runtime = d.runtime /\ z.adapter = d.adapter
      /\ z.runtimePolicy = d.runtimePolicy /\ z.enforcement = d.enforcement /\ z.tool = d.tool
      /\ z.extensions = d.extensions /\ z.illegal = d.illegal /\ z.indented = d.indented
  BY <1>2
<1>4. \A i \in DOMAIN d.cases : CaseShape(z.cases[i]) /\ CaseFacts(z.cases[i]) = CaseFacts(d.cases[i])
  <2> SUFFICES ASSUME NEW i \in DOMAIN d.cases
               PROVE  CaseShape(z.cases[i]) /\ CaseFacts(z.cases[i]) = CaseFacts(d.cases[i])
    OBVIOUS
  <2>1. PICK g : DigestShape(g) /\ z.cases[i] = WithDigest(d.cases[i], g)
    BY DEF Redigested
  <2>2. CaseShape(d.cases[i])
    BY DEF DocumentShape
  <2>3. /\ CaseShape(WithDigest(d.cases[i], g))
        /\ CaseFacts(WithDigest(d.cases[i], g)) = CaseFacts(d.cases[i])
    BY <2>1, <2>2, CaseRedigested, Zenon
  <2> QED BY <2>1, <2>3
<1>5. IsSequence(z.cases) /\ DOMAIN z.cases = DOMAIN d.cases
  BY DEF Redigested
<1>6. DocumentShape(z)
  <2>1. \A i \in DOMAIN z.cases : CaseShape(z.cases[i])
    BY <1>4, <1>5
  <2> QED BY <1>2, <1>3, <1>5, <2>1 DEF DocumentShape
<1>7. {CaseFacts(z.cases[i]) : i \in DOMAIN z.cases} = {CaseFacts(d.cases[i]) : i \in DOMAIN d.cases}
  BY <1>4, <1>5
<1>8. Facts(z) = Facts(d)
  BY <1>3, <1>7 DEF Facts
<1> QED BY <1>2, <1>6, <1>8

LEMMA ZeroFilled ==
    ASSUME NEW d, DocumentShape(d), NEW absent, absent \subseteq DeferredMembers
    PROVE  /\ Redigested(d, ZeroFill(d, absent))
           /\ absent = {} => ZeroFill(d, absent) = d
           /\ absent # {} => \A i \in DOMAIN d.cases :
                 ZeroFill(d, absent).cases[i] = WithDigest(d.cases[i], NoDigest)
<1> DEFINE q == [i \in DOMAIN d.cases |-> IF "statementDigest" \in absent
                                          THEN WithDigest(d.cases[i], NoDigest) ELSE d.cases[i]]
           d1 == [d EXCEPT !.runtimePolicy.loaded = d.runtimePolicy.loaded]
           d2 == [d1 EXCEPT !.runtimePolicy.count = d1.runtimePolicy.count]
           d3 == [d2 EXCEPT !.enforcement.observed = d2.enforcement.observed]
           z == ZeroFill(d, absent)
<1>1. "loaded" \notin absent /\ "count" \notin absent /\ "observed" \notin absent
  BY DEF DeferredMembers
<1>2. z = [d EXCEPT !.runtimePolicy.loaded = @, !.runtimePolicy.count = @,
                    !.enforcement.observed = @,
                    !.cases = [i \in DOMAIN @ |-> IF "statementDigest" \in absent
                                  THEN WithDigest(@[i], NoDigest) ELSE @[i]]]
  BY <1>1 DEF ZeroFill, WithDigest
<1>3. d1 = d /\ d2 = d /\ d3 = d
  <2>1. d = [m \in {"agent", "runtime", "adapter", "runtimePolicy", "enforcement", "tool",
                    "cases", "extensions", "illegal", "indented"} |-> d[m]]
    BY DEF DocumentShape, HasMembers
  <2>2. /\ d.runtimePolicy = [m \in {"count", "loaded", "digest"} |-> d.runtimePolicy[m]]
        /\ d.enforcement = [m \in {"mode", "defaultBehavior", "required", "observed"} |->
                              d.enforcement[m]]
    BY DEF DocumentShape, HasMembers
  <2>3. d1 = d
    BY <2>1, <2>2
  <2>4. d2 = d
    BY <2>1, <2>2, <2>3
  <2> HIDE DEF d1, d2
  <2>5. d3 = d
    BY <2>1, <2>2, <2>4
  <2> QED BY <2>3, <2>4, <2>5
<1>4. z = [d3 EXCEPT !.cases = q]
  BY <1>2, <1>3
<1> HIDE DEF z, d1, d2, d3
<1>5. z = [d EXCEPT !.cases = q]
  BY <1>3, <1>4
<1>6. z.cases = q
  BY <1>5 DEF DocumentShape, HasMembers
<1>7. z = [d EXCEPT !.cases = z.cases]
  BY <1>5, <1>6
<1>8. /\ Len(d.cases) \in Nat /\ DOMAIN d.cases = 1 .. Len(d.cases)
      /\ d.cases = [i \in DOMAIN d.cases |-> d.cases[i]]
  BY DEF DocumentShape, IsSequence
<1>9. IsSequence(q) /\ DOMAIN q = DOMAIN d.cases
  <2> DEFINE y == Len(d.cases)
  <2>1. q = [i \in 1 .. y |-> q[i]] /\ DOMAIN q = DOMAIN d.cases
    BY <1>8
  <2> HIDE DEF q
  <2> QED BY <1>8, <2>1 DEF IsSequence, ToSet
<1>10. ASSUME NEW c, CaseShape(c)
       PROVE  c = WithDigest(c, c.testResult.statementDigest)
  BY <1>10 DEF WithDigest, CaseShape, HasMembers
<1>11. \A i \in DOMAIN d.cases : \E g : DigestShape(g) /\ q[i] = WithDigest(d.cases[i], g)
  <2> SUFFICES ASSUME NEW i \in DOMAIN d.cases
               PROVE  \E g : DigestShape(g) /\ q[i] = WithDigest(d.cases[i], g)
    OBVIOUS
  <2>1. CaseShape(d.cases[i]) /\ DigestShape(d.cases[i].testResult.statementDigest)
    BY DEF DocumentShape, CaseShape
  <2>2. DigestShape(NoDigest)
    BY DEF DigestShape, HasMembers, NoDigest
  <2>3. q[i] = IF "statementDigest" \in absent THEN WithDigest(d.cases[i], NoDigest) ELSE d.cases[i]
    OBVIOUS
  <2> QED BY <1>10, <2>1, <2>2, <2>3, Zenon
<1>12. absent = {} => z = d
  <2> SUFFICES ASSUME absent = {} PROVE z = d
    OBVIOUS
  <2>1. q = d.cases
    BY <1>8
  <2> HIDE DEF q
  <2> QED BY <1>5, <2>1 DEF DocumentShape, HasMembers
<1>13. absent # {} => \A i \in DOMAIN d.cases : z.cases[i] = WithDigest(d.cases[i], NoDigest)
  BY <1>6 DEF DeferredMembers
<1> HIDE DEF q
<1>14. Redigested(d, z)
  BY <1>6, <1>7, <1>9, <1>11 DEF Redigested
<1> QED BY <1>12, <1>13, <1>14 DEF z

LEMMA DigestBound ==
    ASSUME NEW d, DocumentShape(d), Len(d.cases) = 1, NEW g, DigestShape(g)
    PROVE  /\ Redigested(d, BindDigest(d, g))
           /\ BindDigest(d, g).cases = <<WithDigest(d.cases[1], g)>>
<1> DEFINE z == BindDigest(d, g)
           c == d.cases[1]
           e == WithDigest(c, g)
<1>1. DOMAIN d.cases = {1} /\ d.cases = <<c>>
  <2>1. DOMAIN d.cases = 1 .. 1 /\ d.cases = [i \in 1 .. 1 |-> d.cases[i]]
    BY DEF DocumentShape, IsSequence
  <2> QED BY <2>1
<1>2. z = [d EXCEPT !.cases = [d.cases EXCEPT ![1] = e]]
  BY <1>1 DEF BindDigest, WithDigest, DocumentShape, HasMembers
<1>3. [d.cases EXCEPT ![1] = e] = <<e>>
  BY <1>1
<1> HIDE DEF z, e
<1>4. z = [d EXCEPT !.cases = <<e>>] /\ z.cases = <<e>>
  BY <1>2, <1>3 DEF DocumentShape, HasMembers
<1>5. IsSequence(z.cases) /\ DOMAIN z.cases = {1}
  BY <1>4 DEF IsSequence, ToSet
<1> QED BY <1>1, <1>4, <1>5 DEF z, e, Redigested

-------------------------------------------------------------------------------
(* The three programs, on documents of the declared shape.                   *)

LEMMA OkIs == ASSUME NEW x PROVE IsOk(Ok(x)) /\ Value(Ok(x)) = x /\ ~ IsOk(Err)
  BY DEF IsOk, Ok, Err, Value

(* What Generate answers.                                                    *)
LEMMA Generated ==
    ASSUME NEW d, DocumentShape(d)
    PROVE  Generate(d) = IF LooseDocument(d) /\ Validate(NormalDocument(d)) /\ d.indented <= MaxBytes
                         THEN Ok(NormalDocument(d)) ELSE Err
<1>1. Normalize(d) = IF LooseDocument(d) THEN Ok(NormalDocument(d)) ELSE Err
  BY NormalizedDocument
<1>2. CASE LooseDocument(d)
  <2>1. Normalize(d) = Ok(NormalDocument(d))
    BY <1>1, <1>2
  <2> QED BY <1>2, <2>1, OkIs DEF Generate
<1>3. CASE ~ LooseDocument(d)
  BY <1>1, <1>3, OkIs DEF Generate
<1> QED BY <1>2, <1>3

Parses(f) == f.bytes <= MaxBytes /\ f.intact /\ f.absent \subseteq DeferredMembers /\ f.unknown = {}

LEMMA Parsed ==
    ASSUME NEW f, FileShape(f), Parses(f)
    PROVE  LET d == ZeroFill(f.doc, f.absent)
           IN  /\ Parse(f) = Ok(d)
               /\ Redigested(f.doc, d) /\ DocumentShape(d) /\ Facts(d) = Facts(f.doc)
<1>1. Parse(f) = Ok(ZeroFill(f.doc, f.absent))
  BY DEF Parse, Parses
<1>2. Redigested(f.doc, ZeroFill(f.doc, f.absent))
  BY ZeroFilled DEF FileShape, Parses
<1> QED BY <1>1, <1>2, Redigest DEF FileShape

LEMMA NormalBound ==
    ASSUME NEW n, DocumentShape(n), LooseDocument(n), NormalDocument(n) = n, Len(n.cases) = 1,
           NEW x
    PROVE  LET b == BindDigest(BindDigest(n, NoDigest), Sha256(x))
           IN  /\ DocumentShape(b) /\ LooseDocument(b) /\ NormalDocument(b) = b
               /\ Facts(b) = Facts(n)
               /\ b.cases = <<WithDigest(n.cases[1], Sha256(x))>>
<1> DEFINE e == BindDigest(n, NoDigest)
           b == BindDigest(e, Sha256(x))
           c == n.cases[1]
           k == WithDigest(c, Sha256(x))
<1>1. DigestShape(NoDigest) /\ DigestShape(Sha256(x)) /\ Sha256(x).form = "lower"
  BY DEF DigestShape, HasMembers, NoDigest, Sha256
<1>2. DOMAIN n.cases = {1} /\ CaseShape(c)
  BY DEF DocumentShape, IsSequence
<1>3. Redigested(n, e) /\ e.cases = <<WithDigest(c, NoDigest)>>
  BY <1>1, DigestBound
<1>4. /\ DocumentShape(e) /\ Facts(e) = Facts(n)
      /\ \A m \in {"agent", "runtime", "adapter", "runtimePolicy", "enforcement", "tool",
                   "extensions", "illegal", "indented"} : e[m] = n[m]
  BY <1>3, Redigest
<1> HIDE DEF e
<1>5. Len(e.cases) = 1 /\ e.cases[1] = WithDigest(c, NoDigest)
  BY <1>3
<1>6. Redigested(e, b) /\ b.cases = <<WithDigest(e.cases[1], Sha256(x))>>
  BY <1>1, <1>4, <1>5, DigestBound
<1>7. /\ DocumentShape(b) /\ Facts(b) = Facts(e)
      /\ \A m \in {"agent", "runtime", "adapter", "runtimePolicy", "enforcement", "tool",
                   "extensions", "illegal", "indented"} : b[m] = e[m]
  BY <1>4, <1>6, Redigest
<1>8. WithDigest(WithDigest(c, NoDigest), Sha256(x)) = k
  BY <1>2 DEF WithDigest, CaseShape, HasMembers
<1>9. b.cases = <<k>>
  BY <1>5, <1>6, <1>8
<1> HIDE DEF b
<1>10. n.cases = SortCases([i \in {1} |-> NormalCase(c)])
  <2>1. NormalDocument(n).cases = SortCases([i \in DOMAIN n.cases |-> NormalCase(n.cases[i])])
    BY DEF NormalDocument
  <2>2. [i \in DOMAIN n.cases |-> NormalCase(n.cases[i])] = [i \in {1} |-> NormalCase(c)]
    BY <1>2
  <2> QED BY <2>1, <2>2
<1>11. ASSUME NEW u, u.id \in Int
       PROVE  SortCases([i \in {1} |-> u]) = [i \in {1} |-> u]
  <2> DEFINE q == [i \in {1} |-> u]
  <2>1. DOMAIN q = 1 .. 1 /\ Ordinal(q) /\ 1 \in Nat
    BY <1>11 DEF Ordinal
  <2> HIDE DEF q
  <2>2. PICK p \in [1 .. 1 -> 1 .. 1] : SortCases(q) = [j \in 1 .. 1 |-> q[p[j]]]
    <3> DEFINE y == 1
    <3>1. y \in Nat /\ DOMAIN q = 1 .. y
      BY <2>1
    <3> HIDE DEF y
    <3>2. \E p \in [1 .. y -> 1 .. y] :
             /\ SortCases(q) = [j \in 1 .. y |-> q[p[j]]]
             /\ \A i \in 1 .. y : \E j \in 1 .. y : p[j] = i
             /\ \A i, j \in 1 .. y : i < j => Precedes(q, p[i], p[j])
      BY <2>1, <3>1, SortCasesRearranges
    <3> QED BY <3>2 DEF y
  <2>3. \A j \in 1 .. 1 : p[j] = j
    OBVIOUS
  <2>4. SortCases(q) = [j \in 1 .. 1 |-> q[j]]
    BY <2>2, <2>3
  <2>5. q = [j \in 1 .. 1 |-> q[j]]
    BY DEF q
  <2> QED BY <2>4, <2>5 DEF q
<1>12. WholeCase(c)
  BY <1>2 DEF LooseDocument, WholeCase
<1>13. NormalCase(c) = c
  <2>1. NormalCase(c).id \in Int
    BY <1>2 DEF NormalCase, CaseShape
  <2>2. n.cases = [i \in {1} |-> NormalCase(c)]
    BY <1>10, <1>11, <2>1
  <2> QED BY <2>2
<1>14. /\ CaseShape(k)
       /\ k.testResult = [testId |-> c.testResult.testId, statementDigest |-> Sha256(x)]
       /\ \A m \in {"id", "kind", "correlationId", "startedAt", "completedAt",
                    "decision", "outcome"} : k[m] = c[m]
  BY <1>1, <1>2, CaseRedigested
<1> HIDE DEF k
<1>15. NormalizeDigest(Sha256(x)) = Sha256(x)
  BY DEF NormalizeDigest, Sha256
<1>16. NormalCase(k) = k
  <2>1. /\ c.correlationId = NormalizeDigest(c.correlationId)
        /\ c.startedAt = NormalizeTime(c.startedAt) /\ c.completedAt = NormalizeTime(c.completedAt)
        /\ c.decision = NormalObservation(c.decision, "verdict")
        /\ c.outcome = NormalObservation(c.outcome, "result")
    BY <1>13 DEF NormalCase
  <2>2. /\ k.id = c.id /\ k.kind = c.kind /\ k.correlationId = c.correlationId
        /\ k.startedAt = c.startedAt /\ k.completedAt = c.completedAt
        /\ k.decision = c.decision /\ k.outcome = c.outcome
        /\ k.testResult.testId = c.testResult.testId /\ k.testResult.statementDigest = Sha256(x)
    BY <1>14
  <2>3. k = [id |-> k.id, kind |-> k.kind, correlationId |-> k.correlationId,
             startedAt |-> k.startedAt, completedAt |-> k.completedAt,
             decision |-> k.decision, outcome |-> k.outcome, testResult |-> k.testResult]
    BY <1>14 DEF CaseShape, HasMembers
  <2>4. NormalCase(k) =
          [id |-> k.id, kind |-> k.kind, correlationId |-> k.correlationId,
           startedAt |-> k.startedAt, completedAt |-> k.completedAt,
           decision |-> k.decision, outcome |-> k.outcome,
           testResult |-> [testId |-> c.testResult.testId, statementDigest |-> Sha256(x)]]
    BY <1>15, <2>1, <2>2 DEF NormalCase
  <2> QED BY <1>14, <2>3, <2>4
<1>17. DOMAIN b.cases = {1} /\ b.cases[1] = k /\ b.cases = [i \in {1} |-> k]
  BY <1>9
<1>18. b = [n EXCEPT !.cases = b.cases]
  <2>1. n = [m \in {"agent", "runtime", "adapter", "runtimePolicy", "enforcement", "tool",
                    "cases", "extensions", "illegal", "indented"} |-> n[m]]
    BY DEF DocumentShape, HasMembers
  <2>2. b = [m \in {"agent", "runtime", "adapter", "runtimePolicy", "enforcement", "tool",
                    "cases", "extensions", "illegal", "indented"} |-> b[m]]
    BY <1>7 DEF DocumentShape, HasMembers
  <2>3. \A m \in {"agent", "runtime", "adapter", "runtimePolicy", "enforcement", "tool",
                  "extensions", "illegal", "indented"} : b[m] = n[m]
    BY <1>4, <1>7
  <2> QED BY <2>1, <2>2, <2>3
<1>19. /\ b.agent = n.agent /\ b.runtime = n.runtime /\ b.adapter = n.adapter
       /\ b.runtimePolicy = n.runtimePolicy /\ b.enforcement = n.enforcement /\ b.tool = n.tool
       /\ b.extensions = n.extensions /\ b.illegal = n.illegal /\ b.indented = n.indented
  BY <1>4, <1>7
<1>20. NormalDocument(b) = b
  <2>1. SortCases([i \in DOMAIN b.cases |-> NormalCase(b.cases[i])]) = b.cases
    <3>1. [i \in DOMAIN b.cases |-> NormalCase(b.cases[i])] = [i \in {1} |-> k]
      BY <1>16, <1>17
    <3>2. k.id \in Int
      BY <1>14 DEF CaseShape
    <3>3. SortCases([i \in {1} |-> k]) = [i \in {1} |-> k]
      BY <1>11, <3>2, Zenon
    <3> QED BY <1>17, <3>1, <3>3, Zenon
  <2>2. NormalDocument(b) = [NormalDocument(n) EXCEPT !.cases = b.cases]
    BY <1>19, <2>1 DEF NormalDocument
  <2> QED BY <1>18, <2>2
<1>21. LooseDocument(b)
  <2>1. WholeCase(k)
    <3>1. CaseTimes(k) = CaseTimes(c)
      BY <1>14 DEF CaseTimes
    <3> QED BY <1>12, <3>1 DEF WholeCase
  <2>2. CaseForms(k) \subseteq CaseForms(c) \cup {"lower"}
    <3>1. /\ k.correlationId = c.correlationId /\ k.decision = c.decision /\ k.outcome = c.outcome
          /\ k.testResult.statementDigest.form = "lower"
      BY <1>1, <1>14
    <3> QED BY <3>1 DEF CaseForms
  <2>3. CoreForms(b) = CoreForms(n)
    BY <1>19 DEF CoreForms
  <2>4. CoreForms(n) \subseteq LooseForms /\ CaseForms(c) \subseteq LooseForms
    BY <1>2 DEF LooseDocument, DigestForms
  <2>5. DigestForms(b) \subseteq LooseForms
    BY <1>17, <2>2, <2>3, <2>4 DEF DigestForms, LooseForms
  <2> QED BY <1>17, <2>1, <2>5 DEF LooseDocument, WholeCase
<1> QED BY <1>4, <1>7, <1>9, <1>20, <1>21 DEF b, e, k

LEMMA SameInterval == ASSUME NEW k \in Nat, NEW m \in Nat, 1 .. k = 1 .. m PROVE k = m
<1>1. /\ Cardinality(1 .. k) = k /\ Cardinality(1 .. m) = m
  BY FS_Interval
<1> QED BY <1>1

LEMMA SameLength ==
    ASSUME NEW p, IsSequence(p), NEW q, IsSequence(q), DOMAIN p = DOMAIN q
    PROVE  Len(p) = Len(q)
<1>1. /\ Len(p) \in Nat /\ DOMAIN p = 1 .. Len(p)
      /\ Len(q) \in Nat /\ DOMAIN q = 1 .. Len(q)
  BY DEF IsSequence
<1> QED BY <1>1, SameInterval

LEMMA OneElement == ASSUME NEW k \in Nat, 1 .. k = 1 .. 1 PROVE k = 1
<1>1. 1 \in 1 .. k
  <2>1. 1 \in 1 .. 1
    OBVIOUS
  <2> QED BY <2>1, Zenon
<1>2. k \in 1 .. k
  BY <1>1
<1>3. k \in 1 .. 1
  BY <1>2, Zenon
<1> QED BY <1>3

(* The stages of BuildCase.                                                  *)
Placed(f) == BindDigest(ZeroFill(f.doc, f.absent), Placeholder)
Prepared(f) == BindDigest(NormalDocument(Placed(f)), NoDigest)
ResultOf(f) == TestResultStatement(Prepared(f), Prepared(f).cases[1])
BodyOf(f) == BindDigest(Prepared(f), Sha256(ResultOf(f)))
DeploymentOf(f) ==
    [type |-> StatementType, predicateType |-> DeploymentType,
     subject |-> <<AgentSubject(BodyOf(f))>>,
     keys |-> CoreKeys \cup (IF BodyOf(f).extensions = <<>> THEN {} ELSE {"extensions"}),
     predicate |-> BodyOf(f)]

(* What BuildCase answers, when it does, stage by stage.                     *)
LEMMA Built ==
    ASSUME NEW f, FileShape(f), IsOk(BuildCase(f))
    PROVE  LET p == Placed(f)
               n == NormalDocument(p)
               b == BodyOf(f)
           IN  /\ BuildCase(f) = Ok([evidence |-> b, deployment |-> DeploymentOf(f),
                                     testResult |-> ResultOf(f)])
               /\ Parses(f) /\ Len(f.doc.cases) = 1
               /\ DocumentShape(p) /\ LooseDocument(p)
               /\ DocumentShape(n) /\ LooseDocument(n) /\ NormalDocument(n) = n /\ Len(n.cases) = 1
               /\ IsOk(BuildTestResultStatement(Prepared(f), Prepared(f).cases[1]))
               /\ DocumentShape(b) /\ LooseDocument(b) /\ NormalDocument(b) = b
               /\ b.cases = <<WithDigest(n.cases[1], Sha256(ResultOf(f)))>>
               /\ Facts(b) = Facts(f.doc)
               /\ Validate(b) /\ b.indented <= MaxBytes
<1> DEFINE z == ZeroFill(f.doc, f.absent)
           d == Value(Parse(f))
           nn == Normalize(BindDigest(d, Placeholder))
           e == BindDigest(Value(nn), NoDigest)
           tr == BuildTestResultStatement(e, e.cases[1])
           body == Generate(BindDigest(e, Sha256(Value(tr))))
           dep == BuildDeploymentStatement(Value(body), Value(body))
           p == Placed(f)
           n == NormalDocument(p)
           b == BodyOf(f)
<1>1. /\ IsOk(Parse(f)) /\ Len(d.cases) = 1 /\ IsOk(nn) /\ IsOk(tr) /\ IsOk(body) /\ IsOk(dep)
      /\ BuildCase(f) = Ok([evidence |-> Value(body), deployment |-> Value(dep),
                            testResult |-> Value(tr)])
  BY DEF BuildCase, IsOk
<1>2. Parses(f)
  BY <1>1, OkIs DEF Parse, Parses
<1>3. Parse(f) = Ok(z) /\ Redigested(f.doc, z) /\ DocumentShape(z) /\ Facts(z) = Facts(f.doc)
  BY <1>2, Parsed
<1>4. d = z
  BY <1>3, OkIs
<1>5. Len(z.cases) = 1 /\ Len(f.doc.cases) = 1
  <2>1. Len(z.cases) = 1
    BY <1>1, <1>4
  <2>2. DOMAIN z.cases = 1 .. 1 /\ DOMAIN f.doc.cases = 1 .. Len(f.doc.cases) /\ Len(f.doc.cases) \in Nat
    BY <1>3, <2>1 DEF FileShape, DocumentShape, IsSequence
  <2>3. 1 .. Len(f.doc.cases) = 1 .. 1
    BY <1>3, <2>2 DEF Redigested
  <2> QED BY <2>1, <2>2, <2>3, OneElement
<1>6. DigestShape(Placeholder)
  BY DEF DigestShape, HasMembers, Placeholder
<1> HIDE DEF z, d
<1>7. /\ Redigested(z, p) /\ DocumentShape(p) /\ Facts(p) = Facts(z)
      /\ p.cases = <<WithDigest(z.cases[1], Placeholder)>>
  <2>1. p = BindDigest(z, Placeholder)
    BY DEF z, Placed
  <2>2. Redigested(z, p) /\ p.cases = <<WithDigest(z.cases[1], Placeholder)>>
    BY <1>3, <1>5, <1>6, <2>1, DigestBound
  <2> QED BY <1>3, <2>2, Redigest
<1>8. LooseDocument(p) /\ Value(nn) = n
  <2>1. nn = Normalize(p)
    BY <1>4 DEF Placed, z
  <2>2. Normalize(p) = IF LooseDocument(p) THEN Ok(n) ELSE Err
    BY <1>7, NormalizedDocument
  <2> HIDE DEF nn, n, p
  <2> QED BY <1>1, <2>1, <2>2, OkIs
<1>9. /\ DocumentShape(n) /\ LooseDocument(n) /\ NormalDocument(n) = n
      /\ Facts(n) = Facts(p) /\ DOMAIN n.cases = DOMAIN p.cases
  BY <1>7, <1>8, NormalDocumentKeeps
<1>10. Len(n.cases) = 1
  <2> HIDE DEF n, p
  <2>1. DOMAIN n.cases = 1 .. 1
    BY <1>7, <1>9
  <2>2. DOMAIN n.cases = 1 .. Len(n.cases) /\ Len(n.cases) \in Nat
    BY <1>9 DEF DocumentShape, IsSequence
  <2> QED BY <2>1, <2>2, OneElement
<1>11. e = Prepared(f)
  <2> HIDE DEF nn, n
  <2>1. e = BindDigest(n, NoDigest)
    BY <1>8
  <2> QED BY <2>1 DEF n, Prepared
<1>12. tr = Ok(ResultOf(f)) /\ Value(tr) = ResultOf(f)
  <2> HIDE DEF e
  <2>1. tr = Ok(TestResultStatement(e, e.cases[1]))
    BY <1>1, OkIs DEF BuildTestResultStatement
  <2>2. tr = Ok(ResultOf(f))
    BY <1>11, <2>1 DEF ResultOf
  <2> HIDE DEF tr
  <2> QED BY <2>2, OkIs
<1>13. body = Generate(b) /\ b = BindDigest(BindDigest(n, NoDigest), Sha256(ResultOf(f)))
  <2> HIDE DEF e, tr
  <2> QED BY <1>11, <1>12 DEF BodyOf, Prepared
<1>14. /\ DocumentShape(b) /\ LooseDocument(b) /\ NormalDocument(b) = b
       /\ Facts(b) = Facts(n)
       /\ b.cases = <<WithDigest(n.cases[1], Sha256(ResultOf(f)))>>
  <2> HIDE DEF n, b
  <2> QED BY <1>9, <1>10, <1>13, NormalBound
<1>15. Value(body) = b /\ Validate(b) /\ b.indented <= MaxBytes
  <2> HIDE DEF body, b, n
  <2>1. Generate(b) = IF LooseDocument(b) /\ Validate(b) /\ b.indented <= MaxBytes
                      THEN Ok(b) ELSE Err
    BY <1>14, Generated
  <2> QED BY <1>1, <1>13, <2>1, OkIs
<1>16. Value(dep) = DeploymentOf(f)
  <2>1. dep = BuildDeploymentStatement(b, b)
    BY <1>15
  <2>2. BuildDeploymentStatement(b, b) = Ok(DeploymentOf(f))
    BY DEF BuildDeploymentStatement, DeploymentOf
  <2> HIDE DEF dep
  <2> QED BY <2>1, <2>2, OkIs
<1> HIDE DEF body, tr, dep, nn
<1>17. BuildCase(f) = Ok([evidence |-> b, deployment |-> DeploymentOf(f), testResult |-> ResultOf(f)])
  BY <1>1, <1>12, <1>15, <1>16
<1>18. IsOk(BuildTestResultStatement(Prepared(f), Prepared(f).cases[1]))
  BY <1>1, <1>11 DEF tr
<1>19. Facts(b) = Facts(f.doc)
  BY <1>3, <1>7, <1>9, <1>14
<1> QED BY <1>2, <1>5, <1>7, <1>8, <1>9, <1>10, <1>14, <1>15, <1>17, <1>18, <1>19

-------------------------------------------------------------------------------
(* Two encodings of one document.                                            *)

SameDigest(g, h) ==
    /\ DigestShape(h) /\ h.of = g.of
    /\ h.form \in LooseForms <=> g.form \in LooseForms

SameTime(t, u) ==
    /\ TimeShape(u) /\ u.clock - u.offset = t.clock - t.offset /\ u.nanos = t.nanos

SameObservation(o, n, finding) ==
    /\ ObservationShape(n, finding)
    /\ n.state = o.state /\ n[finding] = o[finding]
    /\ DOMAIN n.reference = DOMAIN o.reference /\ DOMAIN n.observedAt = DOMAIN o.observedAt
    /\ \A i \in DOMAIN o.reference : SameDigest(o.reference[i], n.reference[i])
    /\ \A i \in DOMAIN o.observedAt : SameTime(o.observedAt[i], n.observedAt[i])

SameCase(c, e) ==
    /\ CaseShape(e)
    /\ e.id = c.id /\ e.kind = c.kind /\ e.testResult = c.testResult
    /\ SameDigest(c.correlationId, e.correlationId)
    /\ SameTime(c.startedAt, e.startedAt) /\ SameTime(c.completedAt, e.completedAt)
    /\ SameObservation(c.decision, e.decision, "verdict")
    /\ SameObservation(c.outcome, e.outcome, "result")

SameDocument(d, e) ==
    /\ DocumentShape(e)
    /\ e.agent.name = d.agent.name /\ SameDigest(d.agent.artifactDigest, e.agent.artifactDigest)
    /\ e.runtime = d.runtime
    /\ SameDigest(d.adapter.runtimeDigest, e.adapter.runtimeDigest)
    /\ e.runtimePolicy = d.runtimePolicy
    /\ e.enforcement.mode = d.enforcement.mode
    /\ e.enforcement.defaultBehavior = d.enforcement.defaultBehavior
    /\ ToSet(e.enforcement.required) = ToSet(d.enforcement.required)
    /\ ToSet(e.enforcement.observed) = ToSet(d.enforcement.observed)
    /\ SameDigest(d.tool, e.tool)
    /\ DOMAIN e.cases = DOMAIN d.cases
    /\ \A i \in DOMAIN d.cases : SameCase(d.cases[i], e.cases[i])
    /\ DOMAIN e.extensions = DOMAIN d.extensions
    /\ \A i \in DOMAIN d.extensions : e.extensions[i].legal = d.extensions[i].legal
    /\ e.illegal = d.illegal /\ e.indented = d.indented

LEMMA DigestItself == ASSUME NEW g, DigestShape(g) PROVE SameDigest(g, g)
  BY DEF SameDigest

LEMMA TimeItself == ASSUME NEW t, TimeShape(t) PROVE SameTime(t, t)
  BY DEF SameTime

LEMMA ObservationItself ==
    ASSUME NEW o, NEW finding, ObservationShape(o, finding) PROVE SameObservation(o, o, finding)
  BY DigestItself, TimeItself DEF SameObservation, ObservationShape

LEMMA CaseItself == ASSUME NEW c, CaseShape(c) PROVE SameCase(c, c)
  BY DigestItself, TimeItself, ObservationItself DEF SameCase, CaseShape

LEMMA SameDigestNormal ==
    ASSUME NEW g, DigestShape(g), NEW h, SameDigest(g, h)
    PROVE  NormalizeDigest(h) = NormalizeDigest(g)
  BY NormalDigest DEF SameDigest

LEMMA SameTimeNormal ==
    ASSUME NEW t, NEW u, SameTime(t, u)
    PROVE  NormalizeTime(u) = NormalizeTime(t) /\ (WholeSecond(u) <=> WholeSecond(t))
  BY DEF SameTime, NormalizeTime, WholeSecond

LEMMA SameObservationNormal ==
    ASSUME NEW o, NEW finding \in {"verdict", "result"}, ObservationShape(o, finding),
           NEW n, SameObservation(o, n, finding)
    PROVE  /\ NormalObservation(n, finding) = NormalObservation(o, finding)
           /\ OptionalForms(n.reference) \subseteq LooseForms
                <=> OptionalForms(o.reference) \subseteq LooseForms
           /\ (\A t \in ToSet(n.observedAt) : WholeSecond(t))
                <=> (\A t \in ToSet(o.observedAt) : WholeSecond(t))
<1>1. Each(n.reference, NormalizeDigest) = Each(o.reference, NormalizeDigest)
  <2>1. \A i \in DOMAIN o.reference : NormalizeDigest(n.reference[i]) = NormalizeDigest(o.reference[i])
    BY SameDigestNormal DEF SameObservation, ObservationShape
  <2>2. DOMAIN n.reference = DOMAIN o.reference
    BY DEF SameObservation
  <2> QED BY <2>1, <2>2 DEF Each
<1>2. Each(n.observedAt, NormalizeTime) = Each(o.observedAt, NormalizeTime)
  <2>1. \A i \in DOMAIN o.observedAt : NormalizeTime(n.observedAt[i]) = NormalizeTime(o.observedAt[i])
    BY SameTimeNormal DEF SameObservation
  <2>2. DOMAIN n.observedAt = DOMAIN o.observedAt
    BY DEF SameObservation
  <2> QED BY <2>1, <2>2 DEF Each
<1>3. n.state = o.state /\ n[finding] = o[finding]
  BY DEF SameObservation
<1>4. NormalObservation(n, finding) = NormalObservation(o, finding)
  BY <1>1, <1>2, <1>3 DEF NormalObservation
<1>5. OptionalForms(n.reference) \subseteq LooseForms
        <=> OptionalForms(o.reference) \subseteq LooseForms
  BY DEF OptionalForms, SameObservation, SameDigest
<1>6. (\A t \in ToSet(n.observedAt) : WholeSecond(t))
        <=> (\A t \in ToSet(o.observedAt) : WholeSecond(t))
  BY SameTimeNormal DEF ToSet, SameObservation
<1> QED BY <1>4, <1>5, <1>6

LEMMA SameCaseNormal ==
    ASSUME NEW c, CaseShape(c), NEW e, SameCase(c, e)
    PROVE  /\ NormalCase(e) = NormalCase(c)
           /\ CaseForms(e) \subseteq LooseForms <=> CaseForms(c) \subseteq LooseForms
           /\ WholeCase(e) <=> WholeCase(c)
<1>1. /\ NormalObservation(e.decision, "verdict") = NormalObservation(c.decision, "verdict")
      /\ OptionalForms(e.decision.reference) \subseteq LooseForms
           <=> OptionalForms(c.decision.reference) \subseteq LooseForms
      /\ (\A t \in ToSet(e.decision.observedAt) : WholeSecond(t))
           <=> (\A t \in ToSet(c.decision.observedAt) : WholeSecond(t))
  BY SameObservationNormal DEF SameCase, CaseShape
<1>2. /\ NormalObservation(e.outcome, "result") = NormalObservation(c.outcome, "result")
      /\ OptionalForms(e.outcome.reference) \subseteq LooseForms
           <=> OptionalForms(c.outcome.reference) \subseteq LooseForms
      /\ (\A t \in ToSet(e.outcome.observedAt) : WholeSecond(t))
           <=> (\A t \in ToSet(c.outcome.observedAt) : WholeSecond(t))
  BY SameObservationNormal DEF SameCase, CaseShape
<1>3. /\ NormalizeDigest(e.correlationId) = NormalizeDigest(c.correlationId)
      /\ e.correlationId.form \in LooseForms <=> c.correlationId.form \in LooseForms
  BY SameDigestNormal DEF SameCase, CaseShape, SameDigest
<1>4. /\ NormalizeTime(e.startedAt) = NormalizeTime(c.startedAt)
      /\ NormalizeTime(e.completedAt) = NormalizeTime(c.completedAt)
      /\ WholeSecond(e.startedAt) <=> WholeSecond(c.startedAt)
      /\ WholeSecond(e.completedAt) <=> WholeSecond(c.completedAt)
  BY SameTimeNormal DEF SameCase
<1>5. e.id = c.id /\ e.kind = c.kind /\ e.testResult = c.testResult
  BY DEF SameCase
<1>6. NormalCase(e) = NormalCase(c)
  BY <1>1, <1>2, <1>3, <1>4, <1>5 DEF NormalCase
<1>7. CaseForms(e) \subseteq LooseForms <=> CaseForms(c) \subseteq LooseForms
  BY <1>1, <1>2, <1>3, <1>5 DEF CaseForms
<1>8. WholeCase(e) <=> WholeCase(c)
  BY <1>1, <1>2, <1>4 DEF WholeCase, CaseTimes
<1> QED BY <1>6, <1>7, <1>8

(* Two encodings of one document have one normal form.                       *)
LEMMA SameDocumentNormal ==
    ASSUME NEW d, DocumentShape(d), NEW e, SameDocument(d, e)
    PROVE  /\ NormalDocument(e) = NormalDocument(d) /\ (LooseDocument(e) <=> LooseDocument(d))
           /\ Normalize(e) = Normalize(d) /\ Generate(e) = Generate(d)
<1>1. \A i \in DOMAIN d.cases :
         /\ NormalCase(e.cases[i]) = NormalCase(d.cases[i])
         /\ CaseForms(e.cases[i]) \subseteq LooseForms <=> CaseForms(d.cases[i]) \subseteq LooseForms
         /\ WholeCase(e.cases[i]) <=> WholeCase(d.cases[i])
  BY SameCaseNormal DEF SameDocument, DocumentShape
<1>2. /\ NormalizeDigest(e.agent.artifactDigest) = NormalizeDigest(d.agent.artifactDigest)
      /\ NormalizeDigest(e.adapter.runtimeDigest) = NormalizeDigest(d.adapter.runtimeDigest)
      /\ NormalizeDigest(e.tool) = NormalizeDigest(d.tool)
  BY SameDigestNormal DEF SameDocument, DocumentShape
<1>3. /\ DedupeSort(e.enforcement.required) = DedupeSort(d.enforcement.required)
      /\ DedupeSort(e.enforcement.observed) = DedupeSort(d.enforcement.observed)
  BY DEF SameDocument, DedupeSort
<1>4. [i \in DOMAIN e.cases |-> NormalCase(e.cases[i])]
        = [i \in DOMAIN d.cases |-> NormalCase(d.cases[i])]
  BY <1>1 DEF SameDocument
<1>5. [i \in DOMAIN e.extensions |-> [layout |-> "canonical", legal |-> e.extensions[i].legal]]
        = [i \in DOMAIN d.extensions |-> [layout |-> "canonical", legal |-> d.extensions[i].legal]]
  BY DEF SameDocument
<1>6. /\ e.agent.name = d.agent.name /\ e.runtime = d.runtime /\ e.runtimePolicy = d.runtimePolicy
      /\ e.enforcement.mode = d.enforcement.mode
      /\ e.enforcement.defaultBehavior = d.enforcement.defaultBehavior
      /\ e.illegal = d.illegal /\ e.indented = d.indented /\ DocumentShape(e)
      /\ DOMAIN e.cases = DOMAIN d.cases
  BY DEF SameDocument
<1>7. NormalDocument(e) = NormalDocument(d)
  BY <1>2, <1>3, <1>4, <1>5, <1>6 DEF NormalDocument
<1>8. LooseDocument(e) <=> LooseDocument(d)
  <2>1. CoreForms(e) \subseteq LooseForms <=> CoreForms(d) \subseteq LooseForms
    BY <1>6 DEF CoreForms, SameDocument, SameDigest
  <2>2. (UNION {CaseForms(e.cases[i]) : i \in DOMAIN e.cases}) \subseteq LooseForms
          <=> (UNION {CaseForms(d.cases[i]) : i \in DOMAIN d.cases}) \subseteq LooseForms
    <3>1. \A x : (UNION {CaseForms(x.cases[i]) : i \in DOMAIN x.cases}) \subseteq LooseForms
                   <=> \A i \in DOMAIN x.cases : CaseForms(x.cases[i]) \subseteq LooseForms
      OBVIOUS
    <3> QED BY <1>1, <1>6, <3>1
  <2>3. \A x : LooseDocument(x) <=>
                 /\ CoreForms(x) \subseteq LooseForms
                 /\ (UNION {CaseForms(x.cases[i]) : i \in DOMAIN x.cases}) \subseteq LooseForms
                 /\ \A i \in DOMAIN x.cases : WholeCase(x.cases[i])
    BY DEF LooseDocument, DigestForms, WholeCase
  <2> QED BY <1>1, <1>6, <2>1, <2>2, <2>3
<1>9. Normalize(e) = Normalize(d)
  BY <1>6, <1>7, <1>8, NormalizedDocument
<1>10. Generate(e) = Generate(d)
  BY <1>6, <1>7, <1>8, Generated
<1> QED BY <1>7, <1>8, <1>9, <1>10

LEMMA SameCaseRedigested ==
    ASSUME NEW c, CaseShape(c), NEW e, SameCase(c, e), NEW g, DigestShape(g)
    PROVE  SameCase(WithDigest(c, g), WithDigest(e, g))
<1> DEFINE x == WithDigest(c, g)
           y == WithDigest(e, g)
<1>1. /\ x.id = c.id /\ x.kind = c.kind /\ x.correlationId = c.correlationId
      /\ x.startedAt = c.startedAt /\ x.completedAt = c.completedAt
      /\ x.decision = c.decision /\ x.outcome = c.outcome
      /\ x.testResult = [testId |-> c.testResult.testId, statementDigest |-> g]
  BY CaseRedigested
<1>2. CaseShape(e)
  BY DEF SameCase
<1>3. /\ CaseShape(y)
      /\ y.id = e.id /\ y.kind = e.kind /\ y.correlationId = e.correlationId
      /\ y.startedAt = e.startedAt /\ y.completedAt = e.completedAt
      /\ y.decision = e.decision /\ y.outcome = e.outcome
      /\ y.testResult = [testId |-> e.testResult.testId, statementDigest |-> g]
  BY <1>2, CaseRedigested
<1> HIDE DEF x, y
<1>4. SameCase(x, y)
  BY <1>1, <1>3 DEF SameCase
<1> QED BY <1>4 DEF x, y

LEMMA SameRedigested ==
    ASSUME NEW d, DocumentShape(d), NEW e, SameDocument(d, e),
           NEW z, Redigested(d, z), NEW y, Redigested(e, y),
           \A i \in DOMAIN d.cases : SameCase(z.cases[i], y.cases[i])
    PROVE  SameDocument(z, y)
<1>1. DocumentShape(e)
  BY DEF SameDocument
<1>2. /\ z.agent = d.agent /\ z.runtime = d.runtime /\ z.adapter = d.adapter
      /\ z.runtimePolicy = d.runtimePolicy /\ z.enforcement = d.enforcement /\ z.tool = d.tool
      /\ z.extensions = d.extensions /\ z.illegal = d.illegal /\ z.indented = d.indented
  BY Redigest
<1>3. /\ DocumentShape(y)
      /\ y.agent = e.agent /\ y.runtime = e.runtime /\ y.adapter = e.adapter
      /\ y.runtimePolicy = e.runtimePolicy /\ y.enforcement = e.enforcement /\ y.tool = e.tool
      /\ y.extensions = e.extensions /\ y.illegal = e.illegal /\ y.indented = e.indented
  BY <1>1, Redigest
<1>4. DOMAIN z.cases = DOMAIN d.cases /\ DOMAIN y.cases = DOMAIN e.cases
  BY DEF Redigested
<1> QED BY <1>2, <1>3, <1>4 DEF SameDocument

LEMMA SameFilled ==
    ASSUME NEW d, DocumentShape(d), NEW e, SameDocument(d, e),
           NEW absent, absent \subseteq DeferredMembers
    PROVE  SameDocument(ZeroFill(d, absent), ZeroFill(e, absent))
<1>1. DocumentShape(e) /\ DOMAIN e.cases = DOMAIN d.cases
  BY DEF SameDocument
<1>2. /\ Redigested(d, ZeroFill(d, absent)) /\ Redigested(e, ZeroFill(e, absent))
      /\ absent = {} => ZeroFill(d, absent) = d /\ ZeroFill(e, absent) = e
      /\ absent # {} => \A i \in DOMAIN d.cases :
            /\ ZeroFill(d, absent).cases[i] = WithDigest(d.cases[i], NoDigest)
            /\ ZeroFill(e, absent).cases[i] = WithDigest(e.cases[i], NoDigest)
  BY <1>1, ZeroFilled
<1>3. CASE absent = {}
  BY <1>2, <1>3
<1>4. CASE absent # {}
  <2>1. DigestShape(NoDigest)
    BY DEF DigestShape, HasMembers, NoDigest
  <2>2. \A i \in DOMAIN d.cases : CaseShape(d.cases[i]) /\ SameCase(d.cases[i], e.cases[i])
    BY DEF SameDocument, DocumentShape
  <2>3. \A i \in DOMAIN d.cases :
           SameCase(WithDigest(d.cases[i], NoDigest), WithDigest(e.cases[i], NoDigest))
    BY <2>1, <2>2, SameCaseRedigested
  <2>4. \A i \in DOMAIN d.cases :
           SameCase(ZeroFill(d, absent).cases[i], ZeroFill(e, absent).cases[i])
    BY <1>2, <1>4, <2>3
  <2> QED BY <1>2, <2>4, SameRedigested
<1> QED BY <1>3, <1>4

LEMMA SameBound ==
    ASSUME NEW d, DocumentShape(d), NEW e, SameDocument(d, e), Len(d.cases) = 1, Len(e.cases) = 1,
           NEW g, DigestShape(g)
    PROVE  SameDocument(BindDigest(d, g), BindDigest(e, g))
<1>1. DocumentShape(e) /\ DOMAIN d.cases = {1}
  BY DEF SameDocument, DocumentShape, IsSequence
<1>2. /\ Redigested(d, BindDigest(d, g)) /\ BindDigest(d, g).cases = <<WithDigest(d.cases[1], g)>>
      /\ Redigested(e, BindDigest(e, g)) /\ BindDigest(e, g).cases = <<WithDigest(e.cases[1], g)>>
  BY <1>1, DigestBound
<1>3. SameCase(WithDigest(d.cases[1], g), WithDigest(e.cases[1], g))
  BY <1>1, SameCaseRedigested DEF SameDocument, DocumentShape
<1>4. BindDigest(d, g).cases[1] = WithDigest(d.cases[1], g)
  BY <1>2
<1>5. BindDigest(e, g).cases[1] = WithDigest(e.cases[1], g)
  BY <1>2
<1>6. \A i \in DOMAIN d.cases : SameCase(BindDigest(d, g).cases[i], BindDigest(e, g).cases[i])
  BY <1>1, <1>3, <1>4, <1>5
<1> QED BY <1>2, <1>6, SameRedigested

LEMMA OneCaseOnly ==
    ASSUME NEW f, ~ IsOk(Parse(f)) \/ Len(Value(Parse(f)).cases) # 1
    PROVE  BuildCase(f) = Err
  BY DEF BuildCase

(* Both programs give one answer to the encodings of one document.           *)
LEMMA SameAnswers ==
    ASSUME NEW f, FileShape(f), NEW h, FileShape(h),
           \A m \in {"bytes", "intact", "absent", "unknown"} : h[m] = f[m],
           SameDocument(f.doc, h.doc)
    PROVE  GenerateFromFile(h) = GenerateFromFile(f) /\ BuildCase(h) = BuildCase(f)
<1> DEFINE z == ZeroFill(f.doc, f.absent)
           y == ZeroFill(h.doc, h.absent)
<1>0. h.bytes = f.bytes /\ h.intact = f.intact /\ h.absent = f.absent /\ h.unknown = f.unknown
  OBVIOUS
<1>1. Parses(h) <=> Parses(f)
  BY <1>0 DEF Parses
<1>2. /\ ~ Parses(f) => ~ IsOk(Parse(f))
      /\ ~ Parses(h) => ~ IsOk(Parse(h))
  BY OkIs DEF Parse, Parses
<1>3. CASE ~ Parses(f)
  BY <1>1, <1>2, <1>3 DEF GenerateFromFile, BuildCase
<1>4. CASE Parses(f)
  <2>1. Parse(f) = Ok(z) /\ DocumentShape(z) /\ Redigested(f.doc, z)
    BY <1>4, Parsed
  <2>2. Parse(h) = Ok(y) /\ DocumentShape(y) /\ Redigested(h.doc, y)
    BY <1>1, <1>4, Parsed
  <2>3. SameDocument(z, y)
    <3>1. DocumentShape(f.doc) /\ f.absent \subseteq DeferredMembers /\ h.absent = f.absent
      BY <1>0, <1>4 DEF FileShape, Parses
    <3> QED BY <3>1, SameFilled
  <2> HIDE DEF z, y
  <2>4. IsOk(Parse(f)) /\ Value(Parse(f)) = z /\ IsOk(Parse(h)) /\ Value(Parse(h)) = y
    BY <2>1, <2>2, OkIs
  <2>5. GenerateFromFile(h) = GenerateFromFile(f)
    BY <2>1, <2>3, <2>4, SameDocumentNormal DEF GenerateFromFile
  <2>6. Len(y.cases) = Len(z.cases)
    <3>1. IsSequence(y.cases) /\ IsSequence(z.cases) /\ DOMAIN y.cases = DOMAIN z.cases
      BY <2>1, <2>2, <2>3 DEF DocumentShape, SameDocument
    <3> QED BY <3>1, SameLength
  <2>7. CASE Len(z.cases) # 1
    <3>1. Len(Value(Parse(f)).cases) # 1 /\ Len(Value(Parse(h)).cases) # 1
      BY <2>4, <2>6, <2>7
    <3> QED BY <2>5, <3>1, OneCaseOnly
  <2>8. CASE Len(z.cases) = 1
    <3>1. DigestShape(Placeholder)
      BY DEF DigestShape, HasMembers, Placeholder
    <3>2. SameDocument(BindDigest(z, Placeholder), BindDigest(y, Placeholder))
      BY <2>1, <2>3, <2>6, <2>8, <3>1, SameBound
    <3>3. DocumentShape(BindDigest(z, Placeholder))
      BY <2>1, <2>8, <3>1, DigestBound, Redigest
    <3>4. Normalize(BindDigest(y, Placeholder)) = Normalize(BindDigest(z, Placeholder))
      BY <3>2, <3>3, SameDocumentNormal
    <3>5. y.cases[1].testResult = z.cases[1].testResult
      <4>1. 1 \in DOMAIN z.cases
        BY <2>1, <2>8 DEF DocumentShape, IsSequence
      <4> QED BY <2>3, <4>1 DEF SameDocument, SameCase
    <3> QED BY <2>4, <2>5, <2>6, <3>4, <3>5 DEF BuildCase
  <2> QED BY <2>5, <2>7, <2>8
<1> QED BY <1>3, <1>4

-------------------------------------------------------------------------------
(* Every rewriting but the swap of two cases is another encoding.            *)

Members == {"agent", "runtime", "adapter", "runtimePolicy", "enforcement", "tool",
            "cases", "extensions", "illegal", "indented"}
CaseMembers == {"id", "kind", "correlationId", "startedAt", "completedAt",
                "decision", "outcome", "testResult"}

LEMMA OneCaseMember ==
    ASSUME NEW c, CaseShape(c), NEW m \in CaseMembers, NEW x
    PROVE  LET e == [c EXCEPT ![m] = x]
           IN  HasMembers(e, CaseMembers) /\ e[m] = x /\ \A k \in CaseMembers \ {m} : e[k] = c[k]
<1>1. c = [k \in CaseMembers |-> c[k]]
  BY DEF CaseShape, HasMembers, CaseMembers
<1> QED BY <1>1 DEF HasMembers

LEMMA DocumentItself == ASSUME NEW d, DocumentShape(d) PROVE SameDocument(d, d)
  BY CaseItself, DigestItself DEF SameDocument, DocumentShape

LEMMA SameObservationTwice ==
    ASSUME NEW a, NEW b, NEW c, NEW finding, SameObservation(a, b, finding), SameObservation(b, c, finding)
    PROVE  SameObservation(a, c, finding)
  BY DEF SameObservation, SameDigest, SameTime

LEMMA SameCaseTwice ==
    ASSUME NEW a, NEW b, NEW c, SameCase(a, b), SameCase(b, c)
    PROVE  SameCase(a, c)
<1>1. /\ SameObservation(a.decision, c.decision, "verdict")
      /\ SameObservation(a.outcome, c.outcome, "result")
  BY SameObservationTwice DEF SameCase
<1> QED BY <1>1 DEF SameCase, SameDigest, SameTime

LEMMA SameDocumentTwice ==
    ASSUME NEW a, NEW b, NEW c, SameDocument(a, b), SameDocument(b, c)
    PROVE  SameDocument(a, c)
<1>1. \A i \in DOMAIN a.cases : SameCase(a.cases[i], c.cases[i])
  BY SameCaseTwice DEF SameDocument
<1>2. /\ SameDigest(a.agent.artifactDigest, c.agent.artifactDigest)
      /\ SameDigest(a.adapter.runtimeDigest, c.adapter.runtimeDigest)
      /\ SameDigest(a.tool, c.tool)
  BY DEF SameDocument, SameDigest
<1> QED BY <1>1, <1>2 DEF SameDocument

LEMMA Recased ==
    ASSUME NEW g, DigestShape(g) PROVE SameDigest(g, Recase(g))
<1> DEFINE x == CASE g.form = "lower" -> "upper" [] g.form = "upper" -> "lower" [] OTHER -> g.form
<1>1. Recase(g) = [g EXCEPT !.form = x]
  BY DEF Recase
<1>2. x \in LooseForms <=> g.form \in LooseForms
  BY DEF LooseForms
<1> HIDE DEF x
<1> QED BY <1>1, <1>2 DEF SameDigest, DigestShape, HasMembers

LEMMA Rezoned ==
    ASSUME NEW t, TimeShape(t), NEW offset \in Int PROVE SameTime(t, Rezone(t, offset))
<1> DEFINE c == t.clock - t.offset + offset
           u == [clock |-> c, offset |-> offset, nanos |-> t.nanos]
<1>1. c \in Int /\ c - offset = t.clock - t.offset
  BY DEF TimeShape
<1>2. Rezone(t, offset) = u
  <2>1. Rezone(t, offset) = [t EXCEPT !.offset = offset, !.clock = c]
    BY DEF Rezone
  <2>2. t = [clock |-> t.clock, offset |-> t.offset, nanos |-> t.nanos]
    BY DEF TimeShape, HasMembers
  <2> HIDE DEF c
  <2> QED BY <2>1, <2>2
<1> HIDE DEF c
<1>3. SameTime(t, u)
  BY <1>1 DEF SameTime, TimeShape, HasMembers
<1> QED BY <1>2, <1>3

LEMMA CaseRewritten ==
    ASSUME NEW c, CaseShape(c)
    PROVE  /\ \A g : SameDigest(c.correlationId, g) => SameCase(c, [c EXCEPT !.correlationId = g])
           /\ \A t : SameTime(c.startedAt, t) => SameCase(c, [c EXCEPT !.startedAt = t])
           /\ \A o : SameObservation(c.decision, o, "verdict") => SameCase(c, [c EXCEPT !.decision = o])
           /\ \A o : SameObservation(c.outcome, o, "result") => SameCase(c, [c EXCEPT !.outcome = o])
<1>1. SameCase(c, c)
  BY CaseItself
<1>2. ASSUME NEW m \in {"correlationId", "startedAt", "decision", "outcome"}, NEW x
      PROVE  LET e == [c EXCEPT ![m] = x]
             IN  HasMembers(e, CaseMembers) /\ e[m] = x /\ \A k \in CaseMembers \ {m} : e[k] = c[k]
  BY OneCaseMember DEF CaseMembers
<1>3. ASSUME NEW g, SameDigest(c.correlationId, g) PROVE SameCase(c, [c EXCEPT !.correlationId = g])
  <2> DEFINE e == [c EXCEPT !.correlationId = g]
  <2>1. HasMembers(e, CaseMembers) /\ e.correlationId = g
        /\ \A k \in CaseMembers \ {"correlationId"} : e[k] = c[k]
    BY <1>2
  <2> HIDE DEF e
  <2>2. /\ e.id = c.id /\ e.kind = c.kind /\ e.startedAt = c.startedAt
        /\ e.completedAt = c.completedAt /\ e.decision = c.decision /\ e.outcome = c.outcome
        /\ e.testResult = c.testResult
    BY <2>1 DEF CaseMembers
  <2>3. CaseShape(e)
    BY <1>3, <2>1, <2>2 DEF CaseShape, CaseMembers, SameDigest
  <2>4. SameCase(c, e)
    BY <1>1, <1>3, <2>1, <2>2, <2>3 DEF SameCase
  <2> QED BY <2>4 DEF e
<1>4. ASSUME NEW t, SameTime(c.startedAt, t) PROVE SameCase(c, [c EXCEPT !.startedAt = t])
  <2> DEFINE e == [c EXCEPT !.startedAt = t]
  <2>1. HasMembers(e, CaseMembers) /\ e.startedAt = t
        /\ \A k \in CaseMembers \ {"startedAt"} : e[k] = c[k]
    BY <1>2
  <2> HIDE DEF e
  <2>2. /\ e.id = c.id /\ e.kind = c.kind /\ e.correlationId = c.correlationId
        /\ e.completedAt = c.completedAt /\ e.decision = c.decision /\ e.outcome = c.outcome
        /\ e.testResult = c.testResult
    BY <2>1 DEF CaseMembers
  <2>3. CaseShape(e)
    BY <1>4, <2>1, <2>2 DEF CaseShape, CaseMembers, SameTime
  <2>4. SameCase(c, e)
    BY <1>1, <1>4, <2>1, <2>2, <2>3 DEF SameCase
  <2> QED BY <2>4 DEF e
<1>5. ASSUME NEW o, SameObservation(c.decision, o, "verdict") PROVE SameCase(c, [c EXCEPT !.decision = o])
  <2> DEFINE e == [c EXCEPT !.decision = o]
  <2>1. HasMembers(e, CaseMembers) /\ e.decision = o
        /\ \A k \in CaseMembers \ {"decision"} : e[k] = c[k]
    BY <1>2
  <2> HIDE DEF e
  <2>2. /\ e.id = c.id /\ e.kind = c.kind /\ e.correlationId = c.correlationId
        /\ e.startedAt = c.startedAt /\ e.completedAt = c.completedAt /\ e.outcome = c.outcome
        /\ e.testResult = c.testResult
    BY <2>1 DEF CaseMembers
  <2>3. CaseShape(e)
    BY <1>5, <2>1, <2>2 DEF CaseShape, CaseMembers, SameObservation
  <2>4. SameCase(c, e)
    BY <1>1, <1>5, <2>1, <2>2, <2>3 DEF SameCase
  <2> QED BY <2>4 DEF e
<1>6. ASSUME NEW o, SameObservation(c.outcome, o, "result") PROVE SameCase(c, [c EXCEPT !.outcome = o])
  <2> DEFINE e == [c EXCEPT !.outcome = o]
  <2>1. HasMembers(e, CaseMembers) /\ e.outcome = o
        /\ \A k \in CaseMembers \ {"outcome"} : e[k] = c[k]
    BY <1>2
  <2> HIDE DEF e
  <2>2. /\ e.id = c.id /\ e.kind = c.kind /\ e.correlationId = c.correlationId
        /\ e.startedAt = c.startedAt /\ e.completedAt = c.completedAt /\ e.decision = c.decision
        /\ e.testResult = c.testResult
    BY <2>1 DEF CaseMembers
  <2>3. CaseShape(e)
    BY <1>6, <2>1, <2>2 DEF CaseShape, CaseMembers, SameObservation
  <2>4. SameCase(c, e)
    BY <1>1, <1>6, <2>1, <2>2, <2>3 DEF SameCase
  <2> QED BY <2>4 DEF e
<1> QED BY <1>3, <1>4, <1>5, <1>6

LEMMA ReferenceRecased ==
    ASSUME NEW o, ObservationShape(o, "verdict")
    PROVE  SameObservation(o, [o EXCEPT !.reference = [i \in DOMAIN @ |-> Recase(@[i])]], "verdict")
<1> DEFINE r == [i \in DOMAIN o.reference |-> Recase(o.reference[i])]
           n == [state |-> o.state, verdict |-> o.verdict, reference |-> r,
                 observedAt |-> o.observedAt]
<1>1. o = [state |-> o.state, verdict |-> o.verdict, reference |-> o.reference,
           observedAt |-> o.observedAt]
  BY DEF ObservationShape, HasMembers
<1>2. IsOptional(r)
  BY OptionalRewritten DEF ObservationShape
<1>3. \A i \in DOMAIN o.reference : SameDigest(o.reference[i], r[i])
  BY Recased DEF ObservationShape
<1>4. [o EXCEPT !.reference = [i \in DOMAIN @ |-> Recase(@[i])]] = n
  <2> HIDE DEF r
  <2>1. [o EXCEPT !.reference = r] = n
    BY <1>1
  <2> QED BY <2>1 DEF r
<1>5. DOMAIN r = DOMAIN o.reference
  OBVIOUS
<1> HIDE DEF r
<1>6. ObservationShape(n, "verdict")
  <2>1. HasMembers(n, {"state", "verdict", "reference", "observedAt"})
    BY DEF HasMembers
  <2>2. \A i \in DOMAIN r : DigestShape(r[i])
    BY <1>3, <1>5 DEF SameDigest
  <2> QED BY <1>2, <2>1, <2>2 DEF ObservationShape
<1>7. SameObservation(o, n, "verdict")
  BY <1>3, <1>5, <1>6, TimeItself DEF SameObservation, ObservationShape
<1> QED BY <1>4, <1>7

LEMMA ObservedRezoned ==
    ASSUME NEW o, ObservationShape(o, "result"), NEW offset \in Int
    PROVE  SameObservation(o, [o EXCEPT !.observedAt =
                                   [i \in DOMAIN @ |-> Rezone(@[i], offset)]], "result")
<1> DEFINE r == [i \in DOMAIN o.observedAt |-> Rezone(o.observedAt[i], offset)]
           n == [state |-> o.state, result |-> o.result, reference |-> o.reference,
                 observedAt |-> r]
<1>1. o = [state |-> o.state, result |-> o.result, reference |-> o.reference,
           observedAt |-> o.observedAt]
  BY DEF ObservationShape, HasMembers
<1>2. IsOptional(r)
  BY OptionalRewritten DEF ObservationShape
<1>3. \A i \in DOMAIN o.observedAt : SameTime(o.observedAt[i], r[i])
  BY Rezoned DEF ObservationShape
<1>4. [o EXCEPT !.observedAt = [i \in DOMAIN @ |-> Rezone(@[i], offset)]] = n
  <2> HIDE DEF r
  <2>1. [o EXCEPT !.observedAt = r] = n
    BY <1>1
  <2> QED BY <2>1 DEF r
<1>5. DOMAIN r = DOMAIN o.observedAt
  OBVIOUS
<1> HIDE DEF r
<1>6. ObservationShape(n, "result")
  <2>1. HasMembers(n, {"state", "result", "reference", "observedAt"})
    BY DEF HasMembers
  <2>2. \A i \in DOMAIN r : TimeShape(r[i])
    BY <1>3, <1>5 DEF SameTime
  <2> QED BY <1>2, <2>1, <2>2 DEF ObservationShape
<1>7. SameObservation(o, n, "result")
  BY <1>3, <1>5, <1>6, DigestItself DEF SameObservation, ObservationShape
<1> QED BY <1>4, <1>7

LEMMA FirstCaseRewritten ==
    ASSUME NEW d, DocumentShape(d), NEW k, 1 \in DOMAIN d.cases => SameCase(d.cases[1], k)
    PROVE  LET e == [d EXCEPT !.cases = [d.cases EXCEPT ![1] = k]]
           IN  /\ SameDocument(d, e)
               /\ 1 \in DOMAIN d.cases => e.cases[1] = k
<1> DEFINE q == [d.cases EXCEPT ![1] = k]
           e == [d EXCEPT !.cases = q]
<1>1. HasMembers(e, Members) /\ e.cases = q /\ \A m \in Members \ {"cases"} : e[m] = d[m]
  <2>1. "cases" \in Members
    BY DEF Members
  <2> HIDE DEF q
  <2>2. d = [m \in Members |-> d[m]]
    BY DEF DocumentShape, HasMembers, Members
  <2> QED BY <2>1, <2>2 DEF HasMembers
<1>2. DOMAIN q = DOMAIN d.cases /\ \A i \in DOMAIN d.cases : SameCase(d.cases[i], q[i])
  BY CaseItself DEF DocumentShape
<1>3. IsSequence(q)
  <2>1. Len(d.cases) \in Nat /\ DOMAIN d.cases = 1 .. Len(d.cases)
    BY DEF DocumentShape, IsSequence
  <2>2. q = [i \in 1 .. Len(d.cases) |-> q[i]]
    BY <2>1
  <2> HIDE DEF q
  <2> QED BY <2>1, <2>2 DEF IsSequence, ToSet
<1>4. 1 \in DOMAIN d.cases => q[1] = k
  OBVIOUS
<1> HIDE DEF q, e
<1>5. /\ e.agent = d.agent /\ e.runtime = d.runtime /\ e.adapter = d.adapter
      /\ e.runtimePolicy = d.runtimePolicy /\ e.enforcement = d.enforcement /\ e.tool = d.tool
      /\ e.extensions = d.extensions /\ e.illegal = d.illegal /\ e.indented = d.indented
  BY <1>1 DEF Members
<1>6. DocumentShape(e)
  <2>1. \A i \in DOMAIN q : CaseShape(q[i])
    BY <1>2 DEF SameCase
  <2> QED BY <1>1, <1>3, <1>5, <2>1 DEF DocumentShape, Members
<1>7. SameDocument(d, e)
  BY <1>1, <1>2, <1>5, <1>6, DocumentItself DEF SameDocument
<1> QED BY <1>1, <1>4, <1>7 DEF e, q

LEMMA MemberRewritten ==
    ASSUME NEW d, DocumentShape(d)
    PROVE  /\ \A g : SameDigest(d.agent.artifactDigest, g) =>
                 SameDocument(d, [d EXCEPT !.agent.artifactDigest = g])
           /\ \A g : SameDigest(d.adapter.runtimeDigest, g) =>
                 SameDocument(d, [d EXCEPT !.adapter.runtimeDigest = g])
           /\ \A g : SameDigest(d.tool, g) => SameDocument(d, [d EXCEPT !.tool = g])
           /\ \A q \in Seq(Int) : ToSet(q) = ToSet(d.enforcement.required) =>
                 SameDocument(d, [d EXCEPT !.enforcement.required = q])
           /\ \A x : /\ IsSequence(x) /\ DOMAIN x = DOMAIN d.extensions
                     /\ \A i \in DOMAIN x : /\ HasMembers(x[i], {"layout", "legal"})
                                            /\ x[i].legal = d.extensions[i].legal
                     => SameDocument(d, [d EXCEPT !.extensions = x])
<1>1. SameDocument(d, d)
  BY DocumentItself
<1>2. d = [m \in Members |-> d[m]]
  BY DEF DocumentShape, HasMembers, Members
<1>3. ASSUME NEW g, SameDigest(d.agent.artifactDigest, g)
      PROVE  SameDocument(d, [d EXCEPT !.agent.artifactDigest = g])
  <2> DEFINE a == [name |-> d.agent.name, artifactDigest |-> g]
             e == [d EXCEPT !.agent = a]
  <2>1. [d EXCEPT !.agent.artifactDigest = g] = e
    <3>1. [d.agent EXCEPT !.artifactDigest = g] = a
      BY DEF DocumentShape, HasMembers
    <3> QED BY <3>1
  <2>2. HasMembers(e, Members) /\ e.agent = a /\ \A k \in Members \ {"agent"} : e[k] = d[k]
    <3>1. "agent" \in Members
      BY DEF Members
    <3> HIDE DEF a
    <3> QED BY <1>2, <3>1 DEF HasMembers
  <2>3. HasMembers(a, {"name", "artifactDigest"}) /\ a.name = d.agent.name /\ a.artifactDigest = g
    BY DEF HasMembers
  <2> HIDE DEF e, a
  <2>4. /\ e.runtime = d.runtime /\ e.adapter = d.adapter /\ e.cases = d.cases
        /\ e.runtimePolicy = d.runtimePolicy /\ e.enforcement = d.enforcement /\ e.tool = d.tool
        /\ e.extensions = d.extensions /\ e.illegal = d.illegal /\ e.indented = d.indented
    BY <2>2 DEF Members
  <2>5. DocumentShape(e)
    BY <1>3, <2>2, <2>3, <2>4 DEF DocumentShape, Members, SameDigest
  <2>6. SameDocument(d, e)
    BY <1>1, <1>3, <2>2, <2>3, <2>4, <2>5 DEF SameDocument
  <2> QED BY <2>1, <2>6
<1>4. ASSUME NEW g, SameDigest(d.adapter.runtimeDigest, g)
      PROVE  SameDocument(d, [d EXCEPT !.adapter.runtimeDigest = g])
  <2> DEFINE a == [runtimeDigest |-> g]
             e == [d EXCEPT !.adapter = a]
  <2>1. [d EXCEPT !.adapter.runtimeDigest = g] = e
    <3>1. [d.adapter EXCEPT !.runtimeDigest = g] = a
      BY DEF DocumentShape, HasMembers
    <3> QED BY <3>1
  <2>2. HasMembers(e, Members) /\ e.adapter = a /\ \A k \in Members \ {"adapter"} : e[k] = d[k]
    <3>1. "adapter" \in Members
      BY DEF Members
    <3> HIDE DEF a
    <3> QED BY <1>2, <3>1 DEF HasMembers
  <2>3. HasMembers(a, {"runtimeDigest"}) /\ a.runtimeDigest = g
    BY DEF HasMembers
  <2> HIDE DEF e, a
  <2>4. /\ e.runtime = d.runtime /\ e.agent = d.agent /\ e.cases = d.cases
        /\ e.runtimePolicy = d.runtimePolicy /\ e.enforcement = d.enforcement /\ e.tool = d.tool
        /\ e.extensions = d.extensions /\ e.illegal = d.illegal /\ e.indented = d.indented
    BY <2>2 DEF Members
  <2>5. DocumentShape(e)
    BY <1>4, <2>2, <2>3, <2>4 DEF DocumentShape, Members, SameDigest
  <2>6. SameDocument(d, e)
    BY <1>1, <1>4, <2>2, <2>3, <2>4, <2>5 DEF SameDocument
  <2> QED BY <2>1, <2>6
<1>5. ASSUME NEW g, SameDigest(d.tool, g)
      PROVE  SameDocument(d, [d EXCEPT !.tool = g])
  <2> DEFINE e == [d EXCEPT !.tool = g]
  <2>2. HasMembers(e, Members) /\ e.tool = g /\ \A k \in Members \ {"tool"} : e[k] = d[k]
    <3>1. "tool" \in Members
      BY DEF Members
    <3> QED BY <1>2, <3>1 DEF HasMembers
  <2> HIDE DEF e
  <2>4. /\ e.runtime = d.runtime /\ e.agent = d.agent /\ e.cases = d.cases
        /\ e.runtimePolicy = d.runtimePolicy /\ e.enforcement = d.enforcement
        /\ e.adapter = d.adapter
        /\ e.extensions = d.extensions /\ e.illegal = d.illegal /\ e.indented = d.indented
    BY <2>2 DEF Members
  <2>5. DocumentShape(e)
    BY <1>5, <2>2, <2>4 DEF DocumentShape, Members, SameDigest
  <2>6. SameDocument(d, e)
    BY <1>1, <1>5, <2>2, <2>4, <2>5 DEF SameDocument
  <2> QED BY <2>6 DEF e
<1>6. ASSUME NEW q \in Seq(Int), ToSet(q) = ToSet(d.enforcement.required)
      PROVE  SameDocument(d, [d EXCEPT !.enforcement.required = q])
  <2> DEFINE a == [mode |-> d.enforcement.mode, defaultBehavior |-> d.enforcement.defaultBehavior,
                   required |-> q, observed |-> d.enforcement.observed]
             e == [d EXCEPT !.enforcement = a]
  <2>1. [d EXCEPT !.enforcement.required = q] = e
    <3>1. d.enforcement = [mode |-> d.enforcement.mode,
                           defaultBehavior |-> d.enforcement.defaultBehavior,
                           required |-> d.enforcement.required,
                           observed |-> d.enforcement.observed]
      <4>1. HasMembers(d.enforcement, {"mode", "defaultBehavior", "required", "observed"})
        BY DEF DocumentShape
      <4> HIDE DEF a, e
      <4> QED BY <4>1, Zenon DEF HasMembers
    <3>2. [d.enforcement EXCEPT !.required = q] = a
      BY <3>1
    <3> QED BY <3>2
  <2>2. /\ HasMembers(e, Members) /\ e.enforcement = a
        /\ \A k \in Members \ {"enforcement"} : e[k] = d[k]
    <3>1. "enforcement" \in Members
      BY DEF Members
    <3> HIDE DEF a
    <3> QED BY <1>2, <3>1 DEF HasMembers
  <2>3. /\ HasMembers(a, {"mode", "defaultBehavior", "required", "observed"})
        /\ a.mode = d.enforcement.mode /\ a.defaultBehavior = d.enforcement.defaultBehavior
        /\ a.required = q /\ a.observed = d.enforcement.observed
    BY DEF HasMembers
  <2> HIDE DEF e, a
  <2>4. /\ e.runtime = d.runtime /\ e.agent = d.agent /\ e.cases = d.cases
        /\ e.runtimePolicy = d.runtimePolicy /\ e.adapter = d.adapter /\ e.tool = d.tool
        /\ e.extensions = d.extensions /\ e.illegal = d.illegal /\ e.indented = d.indented
    BY <2>2 DEF Members
  <2>5. DocumentShape(e)
    BY <1>6, <2>2, <2>3, <2>4 DEF DocumentShape, Members
  <2>6. SameDocument(d, e)
    BY <1>1, <1>6, <2>2, <2>3, <2>4, <2>5 DEF SameDocument
  <2> QED BY <2>1, <2>6
<1>7. ASSUME NEW x, IsSequence(x), DOMAIN x = DOMAIN d.extensions,
             \A i \in DOMAIN x : /\ HasMembers(x[i], {"layout", "legal"})
                                 /\ x[i].legal = d.extensions[i].legal
      PROVE  SameDocument(d, [d EXCEPT !.extensions = x])
  <2> DEFINE e == [d EXCEPT !.extensions = x]
  <2>2. HasMembers(e, Members) /\ e.extensions = x /\ \A k \in Members \ {"extensions"} : e[k] = d[k]
    <3>1. "extensions" \in Members
      BY DEF Members
    <3> QED BY <1>2, <3>1 DEF HasMembers
  <2> HIDE DEF e
  <2>4. /\ e.runtime = d.runtime /\ e.agent = d.agent /\ e.cases = d.cases
        /\ e.runtimePolicy = d.runtimePolicy /\ e.enforcement = d.enforcement
        /\ e.adapter = d.adapter /\ e.tool = d.tool
        /\ e.illegal = d.illegal /\ e.indented = d.indented
    BY <2>2 DEF Members
  <2>5. DocumentShape(e)
    BY <1>7, <2>2, <2>4 DEF DocumentShape, Members
  <2>6. SameDocument(d, e)
    BY <1>1, <1>7, <2>2, <2>4, <2>5 DEF SameDocument
  <2> QED BY <2>6 DEF e
<1> QED BY <1>3, <1>4, <1>5, <1>6, <1>7

LEMMA DigestWritten ==
    ASSUME NEW d, DocumentShape(d)
    PROVE  /\ SameDocument(d, [d EXCEPT !.agent.artifactDigest = Recase(@)])
           /\ SameDocument(d, [d EXCEPT !.adapter.runtimeDigest = Recase(@), !.tool = Recase(@)])
           /\ SameDocument(d, [d EXCEPT !.cases[1].correlationId = Recase(@),
                                        !.cases[1].decision.reference = Each(@, Recase)])
<1>1. /\ SameDigest(d.agent.artifactDigest, Recase(d.agent.artifactDigest))
      /\ SameDigest(d.adapter.runtimeDigest, Recase(d.adapter.runtimeDigest))
      /\ SameDigest(d.tool, Recase(d.tool))
  BY Recased DEF DocumentShape
<1>2. SameDocument(d, [d EXCEPT !.agent.artifactDigest = Recase(d.agent.artifactDigest)])
  BY <1>1, MemberRewritten
<1>3. SameDocument(d, [d EXCEPT !.adapter.runtimeDigest = Recase(d.adapter.runtimeDigest),
                                !.tool = Recase(d.tool)])
  <2> DEFINE g == Recase(d.adapter.runtimeDigest)
             h == Recase(d.tool)
             e == [d EXCEPT !.adapter.runtimeDigest = g]
  <2>1. SameDocument(d, e)
    BY <1>1, MemberRewritten
  <2>2. DocumentShape(e) /\ SameDigest(d.tool, e.tool)
    BY <2>1 DEF SameDocument
  <2>3. e.tool = d.tool
    BY DEF DocumentShape, HasMembers
  <2>4. SameDocument(e, [e EXCEPT !.tool = h])
    <3> HIDE DEF e
    <3>1. SameDigest(e.tool, h)
      BY <1>1, <2>3
    <3> QED BY <2>2, <3>1, MemberRewritten
  <2>5. SameDocument(d, [e EXCEPT !.tool = h])
    <3> HIDE DEF e, h
    <3> QED BY <2>1, <2>4, SameDocumentTwice
  <2>6. [e EXCEPT !.tool = h] = [d EXCEPT !.adapter.runtimeDigest = g, !.tool = h]
    BY Zenon
  <2> QED BY <2>5, <2>6
<1>4. SameDocument(d, [d EXCEPT !.cases[1].correlationId = Recase(@),
                                !.cases[1].decision.reference = Each(@, Recase)])
  <2> DEFINE c == d.cases[1]
             o == [c.decision EXCEPT !.reference = [i \in DOMAIN @ |-> Recase(@[i])]]
             b == [c EXCEPT !.correlationId = Recase(c.correlationId)]
             k == [b EXCEPT !.decision = o]
             e == [d EXCEPT !.cases = [d.cases EXCEPT ![1] = k]]
  <2>1. ASSUME CaseShape(c) PROVE SameCase(c, k)
    <3>1. SameDigest(c.correlationId, Recase(c.correlationId))
      BY <2>1, Recased DEF CaseShape
    <3>2. SameCase(c, b)
      BY <2>1, <3>1, CaseRewritten
    <3>3. b.decision = c.decision
      BY <2>1 DEF CaseShape, HasMembers
    <3>4. SameObservation(c.decision, o, "verdict")
      BY <2>1, ReferenceRecased DEF CaseShape
    <3> HIDE DEF o, b
    <3>5. SameCase(b, k)
      BY <3>2, <3>3, <3>4, CaseRewritten DEF SameCase
    <3> HIDE DEF k, c
    <3> QED BY <3>2, <3>5, SameCaseTwice
  <2>2. SameDocument(d, e)
    <3> HIDE DEF k
    <3> QED BY <2>1, FirstCaseRewritten DEF DocumentShape
  <2>3. [d EXCEPT !.cases[1].correlationId = Recase(@),
                  !.cases[1].decision.reference = Each(@, Recase)] = e
    <3> DEFINE q == [d.cases EXCEPT ![1] = b]
               x == [d EXCEPT !.cases = q]
    <3>1. [d EXCEPT !.cases[1].correlationId = Recase(@),
                    !.cases[1].decision.reference = Each(@, Recase)]
             = [x EXCEPT !.cases[1].decision.reference = Each(@, Recase)]
      BY Zenon
    <3>2. x.cases = q /\ x = [m \in Members |-> x[m]] /\ \A m \in Members \ {"cases"} : x[m] = d[m]
      <4>1. d = [m \in Members |-> d[m]] /\ "cases" \in Members
        BY DEF DocumentShape, HasMembers, Members
      <4> HIDE DEF q
      <4> QED BY <4>1
    <3>3. 1 \in DOMAIN d.cases => q[1] = b /\ b.decision = c.decision
      <4>1. 1 \in DOMAIN d.cases => CaseShape(c)
        BY DEF DocumentShape
      <4> QED BY <4>1 DEF CaseShape, HasMembers
    <3> HIDE DEF x, q
    <3>4. [x EXCEPT !.cases[1].decision.reference = Each(@, Recase)]
             = [x EXCEPT !.cases = [q EXCEPT ![1] = [q[1] EXCEPT !.decision =
                   [q[1].decision EXCEPT !.reference = [i \in DOMAIN @ |-> Recase(@[i])]]]]]
      BY <3>2 DEF Each
    <3>5. [q EXCEPT ![1] = [q[1] EXCEPT !.decision =
                   [q[1].decision EXCEPT !.reference = [i \in DOMAIN @ |-> Recase(@[i])]]]]
             = [d.cases EXCEPT ![1] = k]
      <4>1. [q EXCEPT ![1] = k] = [d.cases EXCEPT ![1] = k]
        <5> HIDE DEF b, k, c
        <5> QED BY DEF q
      <4>2. CASE 1 \in DOMAIN d.cases
        BY <3>3, <4>1, <4>2
      <4>3. CASE 1 \notin DOMAIN d.cases
        <5>1. \A y : [q EXCEPT ![1] = y] = [d.cases EXCEPT ![1] = k]
          <6> HIDE DEF b, k, c
          <6> QED BY <4>3 DEF q
        <5> QED BY <5>1
      <4> QED BY <4>2, <4>3
    <3>6. \A y : [x EXCEPT !.cases = y] = [d EXCEPT !.cases = y]
      <4>1. d = [m \in Members |-> d[m]] /\ "cases" \in Members
        BY DEF DocumentShape, HasMembers, Members
      <4> QED BY <3>2, <4>1
    <3> QED BY <3>1, <3>4, <3>5, <3>6
  <2> QED BY <2>2, <2>3
<1> QED BY <1>2, <1>3, <1>4

LEMMA TimeWritten ==
    ASSUME NEW d, DocumentShape(d), NEW offset \in Int
    PROVE  /\ SameDocument(d, [d EXCEPT !.cases[1].startedAt = Rezone(@, offset)])
           /\ SameDocument(d, [d EXCEPT !.cases[1].outcome.observedAt =
                                            Each(@, LAMBDA t : Rezone(t, offset))])
<1> DEFINE c == d.cases[1]
<1>1. 1 \in DOMAIN d.cases => CaseShape(c)
  BY DEF DocumentShape
<1>2. SameDocument(d, [d EXCEPT !.cases[1].startedAt = Rezone(@, offset)])
  <2> DEFINE k == [c EXCEPT !.startedAt = Rezone(c.startedAt, offset)]
  <2>1. ASSUME CaseShape(c) PROVE SameCase(c, k)
    <3>1. SameTime(c.startedAt, Rezone(c.startedAt, offset))
      BY <2>1, Rezoned DEF CaseShape
    <3> QED BY <2>1, <3>1, CaseRewritten
  <2>2. SameDocument(d, [d EXCEPT !.cases = [d.cases EXCEPT ![1] = k]])
    <3> HIDE DEF k
    <3> QED BY <1>1, <2>1, FirstCaseRewritten
  <2>3. [d EXCEPT !.cases[1].startedAt = Rezone(@, offset)]
          = [d EXCEPT !.cases = [d.cases EXCEPT ![1] = k]]
    OBVIOUS
  <2> QED BY <2>2, <2>3
<1>3. SameDocument(d, [d EXCEPT !.cases[1].outcome.observedAt =
                                    Each(@, LAMBDA t : Rezone(t, offset))])
  <2> DEFINE o == [c.outcome EXCEPT !.observedAt = [i \in DOMAIN @ |-> Rezone(@[i], offset)]]
             k == [c EXCEPT !.outcome = o]
  <2>1. ASSUME CaseShape(c) PROVE SameCase(c, k)
    <3>1. SameObservation(c.outcome, o, "result")
      BY <2>1, ObservedRezoned DEF CaseShape
    <3> HIDE DEF o
    <3> QED BY <2>1, <3>1, CaseRewritten
  <2>2. SameDocument(d, [d EXCEPT !.cases = [d.cases EXCEPT ![1] = k]])
    <3> HIDE DEF k
    <3> QED BY <1>1, <2>1, FirstCaseRewritten
  <2>3. [d EXCEPT !.cases[1].outcome.observedAt = Each(@, LAMBDA t : Rezone(t, offset))]
          = [d EXCEPT !.cases = [d.cases EXCEPT ![1] = k]]
    BY DEF Each
  <2> QED BY <2>2, <2>3
<1> QED BY <1>2, <1>3

LEMMA PointsWritten ==
    ASSUME NEW d, DocumentShape(d)
    PROVE  LET points == d.enforcement.required
           IN  /\ \A i \in 1 .. Len(points) - 1 :
                     SameDocument(d, [d EXCEPT !.enforcement.required =
                         [points EXCEPT ![i] = points[i + 1], ![i + 1] = points[i]]])
               /\ \A p \in ToSet(points) :
                     SameDocument(d, [d EXCEPT !.enforcement.required = Append(points, p)])
<1> DEFINE points == d.enforcement.required
<1>1. points \in Seq(Int) /\ Len(points) \in Nat /\ DOMAIN points = 1 .. Len(points)
  BY DEF DocumentShape
<1>2. ASSUME NEW q \in Seq(Int), ToSet(q) = ToSet(points)
      PROVE  SameDocument(d, [d EXCEPT !.enforcement.required = q])
  BY <1>2, MemberRewritten
<1> HIDE DEF points
<1>3. ASSUME NEW i \in 1 .. Len(points) - 1
      PROVE  SameDocument(d, [d EXCEPT !.enforcement.required =
                 [points EXCEPT ![i] = points[i + 1], ![i + 1] = points[i]]])
  <2> DEFINE q == [points EXCEPT ![i] = points[i + 1], ![i + 1] = points[i]]
  <2>1. i \in 1 .. Len(points) /\ i + 1 \in 1 .. Len(points) /\ i # i + 1
    BY <1>1
  <2>2. /\ DOMAIN q = 1 .. Len(points) /\ q[i] = points[i + 1] /\ q[i + 1] = points[i]
        /\ \A j \in 1 .. Len(points) : j # i /\ j # i + 1 => q[j] = points[j]
        /\ q = [j \in 1 .. Len(points) |-> q[j]]
    <3>1. DOMAIN q = 1 .. Len(points) /\ q = [j \in 1 .. Len(points) |-> q[j]]
      BY <1>1
    <3>2. q[i] = points[i + 1] /\ q[i + 1] = points[i]
      BY <1>1, <2>1
    <3>3. \A j \in 1 .. Len(points) : j # i /\ j # i + 1 => q[j] = points[j]
      BY <1>1, <2>1
    <3> QED BY <3>1, <3>2, <3>3
  <2> HIDE DEF q
  <2>3. ASSUME NEW j \in 1 .. Len(points)
        PROVE  q[j] \in Int
    <3>1. \A m \in 1 .. Len(points) : points[m] \in Int
      BY <1>1
    <3>2. q[j] \in {points[m] : m \in 1 .. Len(points)}
      BY <2>1, <2>2
    <3> QED BY <3>1, <3>2
  <2>4. q \in Seq(Int)
    BY <1>1, <2>2, <2>3
  <2>5. ToSet(q) = ToSet(points)
    BY <1>1, <2>1, <2>2 DEF ToSet
  <2> QED BY <1>2, <2>4, <2>5 DEF q
<1>4. ASSUME NEW p \in ToSet(points)
      PROVE  SameDocument(d, [d EXCEPT !.enforcement.required = Append(points, p)])
  <2>1. p \in Int
    BY <1>1 DEF ToSet
  <2>2. Append(points, p) \in Seq(Int)
    BY <1>1, <2>1
  <2>3. /\ DOMAIN Append(points, p) = 1 .. Len(points) + 1
        /\ Append(points, p)[Len(points) + 1] = p
        /\ \A j \in 1 .. Len(points) : Append(points, p)[j] = points[j]
    BY <1>1, <2>1
  <2>4. ToSet(Append(points, p)) = ToSet(points)
    BY <1>1, <2>3 DEF ToSet
  <2> QED BY <1>2, <2>2, <2>4
<1> QED BY <1>3, <1>4 DEF points

LEMMA LaidOut ==
    ASSUME NEW d, DocumentShape(d)
    PROVE  SameDocument(d, [d EXCEPT !.extensions = Each(@, LAMBDA x :
               [x EXCEPT !.layout = IF @ = "canonical" THEN "other" ELSE "canonical"])])
<1> DEFINE other(x) == [x EXCEPT !.layout = IF @ = "canonical" THEN "other" ELSE "canonical"]
           r == [i \in DOMAIN d.extensions |-> other(d.extensions[i])]
<1>1. /\ IsSequence(d.extensions)
      /\ \A i \in DOMAIN d.extensions : HasMembers(d.extensions[i], {"layout", "legal"})
  BY DEF DocumentShape
<1>2. \A x : HasMembers(x, {"layout", "legal"}) =>
                HasMembers(other(x), {"layout", "legal"}) /\ other(x).legal = x.legal
  BY DEF HasMembers
<1> HIDE DEF other
<1>3. DOMAIN r = DOMAIN d.extensions /\ r = [i \in DOMAIN d.extensions |-> r[i]]
  OBVIOUS
<1>4. \A i \in DOMAIN r : HasMembers(r[i], {"layout", "legal"}) /\ r[i].legal = d.extensions[i].legal
  BY <1>1, <1>2
<1> HIDE DEF r
<1>5. IsSequence(r)
  BY <1>1, <1>3, SequenceRewritten
<1>6. SameDocument(d, [d EXCEPT !.extensions = r])
  BY <1>3, <1>4, <1>5, MemberRewritten
<1>7. [d EXCEPT !.extensions = Each(@, LAMBDA x :
          [x EXCEPT !.layout = IF @ = "canonical" THEN "other" ELSE "canonical"])]
        = [d EXCEPT !.extensions = r]
  BY DEF Each, r, other
<1> QED BY <1>6, <1>7

-------------------------------------------------------------------------------
(* Two cases in the other order.                                             *)

LEMMA SortTwo ==
    ASSUME NEW a, NEW b, a.id \in Int, b.id \in Int, CaseBefore(a, b)
    PROVE  SortCases(<<a, b>>) = <<a, b>> /\ SortCases(<<b, a>>) = <<a, b>>
<1>1. ~ CaseBefore(b, a)
  BY KindOrders DEF CaseBefore
<1>2. ASSUME NEW cases, DOMAIN cases = 1 .. 2, {cases[1], cases[2]} = {a, b}, a # b
      PROVE  SortCases(cases) = <<a, b>>
  <2>1. Ordinal(cases)
    BY <1>2 DEF Ordinal
  <2>2. PICK p \in [1 .. 2 -> 1 .. 2] :
           /\ SortCases(cases) = [k \in 1 .. 2 |-> cases[p[k]]]
           /\ \A i \in 1 .. 2 : \E k \in 1 .. 2 : p[k] = i
           /\ \A i, j \in 1 .. 2 : i < j => Precedes(cases, p[i], p[j])
    BY <1>2, <2>1, SortCasesRearranges
  <2>3. Precedes(cases, p[1], p[2]) /\ p[1] \in {1, 2} /\ p[2] \in {1, 2} /\ p[1] # p[2]
    <3>1. 1 \in 1 .. 2 /\ 2 \in 1 .. 2 /\ \A i \in 1 .. 2 : i = 1 \/ i = 2
      OBVIOUS
    <3> QED BY <2>2, <3>1
  <2>4. ~ (cases[p[1]] = b /\ cases[p[2]] = a)
    BY <1>1, <2>3 DEF Precedes
  <2>5. cases[p[1]] = a /\ cases[p[2]] = b
    BY <1>2, <2>3, <2>4
  <2>6. SortCases(cases) = [k \in 1 .. 2 |-> IF k = 1 THEN a ELSE b]
    BY <2>2, <2>5
  <2> QED BY <2>6
<1>3. a # b
  BY <1>1
<1>4. DOMAIN <<a, b>> = 1 .. 2 /\ <<a, b>>[1] = a /\ <<a, b>>[2] = b
  OBVIOUS
<1>5. DOMAIN <<b, a>> = 1 .. 2 /\ <<b, a>>[1] = b /\ <<b, a>>[2] = a
  OBVIOUS
<1>6. SortCases(<<a, b>>) = <<a, b>>
  BY <1>2, <1>3, <1>4
<1>7. SortCases(<<b, a>>) = <<a, b>>
  BY <1>2, <1>3, <1>5
<1> QED BY <1>6, <1>7

Swapped(d, e) ==
    /\ IsSequence(e.cases) /\ Len(d.cases) = 2 /\ Len(e.cases) = 2
    /\ e.cases[1] = d.cases[2] /\ e.cases[2] = d.cases[1]
    /\ HasMembers(e, Members) /\ \A m \in Members \ {"cases"} : e[m] = d[m]

LEMMA SwappedShape ==
    ASSUME NEW d, DocumentShape(d), NEW e, Swapped(d, e)
    PROVE  /\ DocumentShape(e)
           /\ DOMAIN d.cases = {1, 2} /\ DOMAIN e.cases = {1, 2}
           /\ CaseShape(d.cases[1]) /\ CaseShape(d.cases[2])
           /\ e.agent = d.agent /\ e.runtime = d.runtime /\ e.adapter = d.adapter
           /\ e.runtimePolicy = d.runtimePolicy /\ e.enforcement = d.enforcement
           /\ e.tool = d.tool /\ e.extensions = d.extensions /\ e.illegal = d.illegal
           /\ e.indented = d.indented
<1>1. /\ e.agent = d.agent /\ e.runtime = d.runtime /\ e.adapter = d.adapter
      /\ e.runtimePolicy = d.runtimePolicy /\ e.enforcement = d.enforcement
      /\ e.tool = d.tool /\ e.extensions = d.extensions /\ e.illegal = d.illegal
      /\ e.indented = d.indented
  BY DEF Swapped, Members
<1>2. DOMAIN d.cases = {1, 2}
  BY DEF DocumentShape, IsSequence, Swapped
<1>3. DOMAIN e.cases = {1, 2}
  BY DEF IsSequence, Swapped
<1>4. CaseShape(d.cases[1]) /\ CaseShape(d.cases[2])
  BY <1>2 DEF DocumentShape
<1>5. CaseShape(e.cases[1]) /\ CaseShape(e.cases[2])
  BY <1>4 DEF Swapped
<1>6. DocumentShape(e)
  BY <1>1, <1>3, <1>5 DEF DocumentShape, Swapped, Members
<1> QED BY <1>1, <1>2, <1>3, <1>4, <1>6

(* Either the order of the cases tells the two apart, or they bear one       *)
(* identifier and no document that holds both is valid.                      *)
LEMMA SwappedGenerate ==
    ASSUME NEW d, DocumentShape(d), NEW e, Swapped(d, e)
    PROVE  Generate(e) = Generate(d)
<1> DEFINE a == NormalCase(d.cases[1])
           b == NormalCase(d.cases[2])
           x == [i \in DOMAIN d.cases |-> NormalCase(d.cases[i])]
           y == [i \in DOMAIN e.cases |-> NormalCase(e.cases[i])]
           n == NormalDocument(d)
           m == NormalDocument(e)
<1>1. /\ DocumentShape(e)
      /\ DOMAIN d.cases = {1, 2} /\ DOMAIN e.cases = {1, 2}
      /\ CaseShape(d.cases[1]) /\ CaseShape(d.cases[2])
      /\ e.agent = d.agent /\ e.runtime = d.runtime /\ e.adapter = d.adapter
      /\ e.runtimePolicy = d.runtimePolicy /\ e.enforcement = d.enforcement
      /\ e.tool = d.tool /\ e.extensions = d.extensions /\ e.illegal = d.illegal
      /\ e.indented = d.indented
  BY SwappedShape
<1>2. e.cases[1] = d.cases[2] /\ e.cases[2] = d.cases[1]
  BY DEF Swapped
<1>3. LooseDocument(e) <=> LooseDocument(d)
  <2>1. {e.cases[i] : i \in DOMAIN e.cases} = {d.cases[i] : i \in DOMAIN d.cases}
    BY <1>1, <1>2
  <2>2. \A z : (LooseDocument(z) <=>
                 /\ CoreForms(z) \subseteq LooseForms
                 /\ \A c \in {z.cases[i] : i \in DOMAIN z.cases} :
                       CaseForms(c) \subseteq LooseForms /\ WholeCase(c))
    BY DEF LooseDocument, DigestForms, WholeCase
  <2>3. CoreForms(e) = CoreForms(d)
    BY <1>1 DEF CoreForms
  <2> QED BY <2>1, <2>2, <2>3
<1>4. a.id \in Int /\ b.id \in Int
  BY <1>1 DEF NormalCase, CaseShape
<1>5. x = <<a, b>> /\ y = <<b, a>>
  <2> HIDE DEF a, b
  <2>1. x = [i \in {1, 2} |-> IF i = 1 THEN a ELSE b]
    BY <1>1 DEF a, b
  <2>2. y = [i \in {1, 2} |-> IF i = 1 THEN b ELSE a]
    BY <1>1, <1>2 DEF a, b
  <2>3. 1 .. 2 = {1, 2}
    OBVIOUS
  <2> HIDE DEF x, y
  <2> QED BY <2>1, <2>2, <2>3
<1>6. n.cases = SortCases(x) /\ m.cases = SortCases(y)
  BY DEF NormalDocument
<1>7. n.cases = m.cases => n = m
  BY <1>1 DEF NormalDocument
<1> HIDE DEF a, b, x, y, n, m
<1>8. CASE CaseBefore(a, b)
  <2>1. n = m
    BY <1>4, <1>5, <1>6, <1>7, <1>8, SortTwo
  <2> QED BY <1>1, <1>3, <2>1, Generated DEF n, m
<1>9. CASE CaseBefore(b, a)
  <2>1. n = m
    BY <1>4, <1>5, <1>6, <1>7, <1>9, SortTwo
  <2> QED BY <1>1, <1>3, <2>1, Generated DEF n, m
<1>10. CASE ~ CaseBefore(a, b) /\ ~ CaseBefore(b, a)
  <2>1. a.id = b.id
    BY <1>4, <1>10, KindOrders DEF CaseBefore
  <2>2. ASSUME NEW u, NEW v, u.id = v.id, v.id \in Int,
               NEW w, w.cases = SortCases(<<u, v>>)
        PROVE  ~ Validate(w)
    <3> DEFINE q == <<u, v>>
    <3>1. DOMAIN q = 1 .. 2 /\ q[1] = u /\ q[2] = v /\ w.cases = SortCases(q)
      BY <2>2
    <3> HIDE DEF q
    <3>2. Ordinal(q)
      BY <2>2, <3>1 DEF Ordinal
    <3>3. PICK p \in [1 .. 2 -> 1 .. 2] :
             /\ SortCases(q) = [k \in 1 .. 2 |-> q[p[k]]]
             /\ \A i \in 1 .. 2 : \E k \in 1 .. 2 : p[k] = i
             /\ \A i, j \in 1 .. 2 : i < j => Precedes(q, p[i], p[j])
      BY <3>1, <3>2, SortCasesRearranges
    <3>4. p[1] \in {1, 2} /\ p[2] \in {1, 2}
      BY <3>3
    <3>5. w.cases[1].id = w.cases[2].id /\ DOMAIN w.cases = 1 .. 2
      BY <2>2, <3>1, <3>3, <3>4
    <3>6. ~ Distinct(w.cases, LAMBDA c : c.id)
      BY <3>5 DEF Distinct
    <3> QED BY <3>6 DEF Validate, ValidConformance
  <2>3. ~ Validate(n) /\ ~ Validate(m)
    BY <1>4, <1>5, <1>6, <2>1, <2>2
  <2> QED BY <1>1, <2>3, Generated DEF n, m
<1> QED BY <1>8, <1>9, <1>10

LEMMA TwoElements == ASSUME NEW k \in Nat, 1 .. k = {1, 2} PROVE k = 2
<1>1. 2 \in 1 .. k
  BY Zenon
<1>2. k \in 1 .. k
  BY <1>1
<1>3. k \in {1, 2}
  BY <1>2, Zenon
<1> QED BY <1>1, <1>3

LEMMA SwappedAnswers ==
    ASSUME NEW f, FileShape(f), NEW h, FileShape(h),
           \A m \in {"bytes", "intact", "absent", "unknown"} : h[m] = f[m],
           Swapped(f.doc, h.doc)
    PROVE  GenerateFromFile(h) = GenerateFromFile(f) /\ BuildCase(h) = BuildCase(f)
<1> DEFINE d == f.doc
           e == h.doc
           z == ZeroFill(f.doc, f.absent)
           y == ZeroFill(h.doc, h.absent)
<1>0. h.bytes = f.bytes /\ h.intact = f.intact /\ h.absent = f.absent /\ h.unknown = f.unknown
  OBVIOUS
<1>1. Parses(h) <=> Parses(f)
  BY <1>0 DEF Parses
<1>2. /\ ~ Parses(f) => ~ IsOk(Parse(f))
      /\ ~ Parses(h) => ~ IsOk(Parse(h))
  BY OkIs DEF Parse, Parses
<1>3. CASE ~ Parses(f)
  BY <1>1, <1>2, <1>3 DEF GenerateFromFile, BuildCase
<1>4. CASE Parses(f)
  <2>1. Parse(f) = Ok(z) /\ DocumentShape(z) /\ Redigested(d, z)
    BY <1>4, Parsed
  <2>2. Parse(h) = Ok(y) /\ DocumentShape(y) /\ Redigested(e, y)
    BY <1>1, <1>4, Parsed
  <2>3. DocumentShape(d) /\ DocumentShape(e) /\ f.absent \subseteq DeferredMembers
    BY <1>4 DEF FileShape, Parses
  <2>4. /\ f.absent = {} => z = d /\ y = e
        /\ f.absent # {} => /\ \A i \in DOMAIN d.cases : z.cases[i] = WithDigest(d.cases[i], NoDigest)
                            /\ \A i \in DOMAIN e.cases : y.cases[i] = WithDigest(e.cases[i], NoDigest)
    BY <1>0, <2>3, ZeroFilled
  <2>5. DOMAIN d.cases = {1, 2} /\ DOMAIN e.cases = {1, 2}
    BY <2>3, SwappedShape
  <2>6. e.cases[1] = d.cases[2] /\ e.cases[2] = d.cases[1]
    BY DEF Swapped
  <2>7. \A m \in Members \ {"cases"} : z[m] = d[m] /\ y[m] = e[m]
    BY <2>1, <2>2, <2>3, Redigest DEF Members
  <2>8. \A m \in Members \ {"cases"} : y[m] = z[m]
    BY <2>7 DEF Swapped
  <2> HIDE DEF z, y, d, e
  <2>9. y.cases[1] = z.cases[2] /\ y.cases[2] = z.cases[1]
    BY <2>4, <2>5, <2>6
  <2>10. IsSequence(y.cases) /\ IsSequence(z.cases) /\ DOMAIN y.cases = {1, 2} /\ DOMAIN z.cases = {1, 2}
    BY <2>1, <2>2, <2>5 DEF Redigested
  <2>11. Len(y.cases) = 2 /\ Len(z.cases) = 2
    <3>1. ASSUME NEW q, IsSequence(q), DOMAIN q = {1, 2} PROVE Len(q) = 2
      <4>1. Len(q) \in Nat /\ DOMAIN q = 1 .. Len(q)
        BY <3>1, SequenceFacts
      <4>2. 1 .. Len(q) = {1, 2}
        BY <3>1, <4>1
      <4> QED BY <4>1, <4>2, TwoElements
    <3> QED BY <2>10, <3>1
  <2>12. HasMembers(y, Members)
    BY <2>2 DEF DocumentShape, Members
  <2>13. Swapped(z, y)
    BY <2>8, <2>9, <2>10, <2>11, <2>12 DEF Swapped
  <2>14. Generate(y) = Generate(z)
    BY <2>1, <2>13, SwappedGenerate
  <2>15. IsOk(Parse(f)) /\ Value(Parse(f)) = z /\ IsOk(Parse(h)) /\ Value(Parse(h)) = y
    BY <2>1, <2>2, OkIs
  <2>16. GenerateFromFile(h) = GenerateFromFile(f)
    BY <2>14, <2>15 DEF GenerateFromFile
  <2>17. BuildCase(f) = Err /\ BuildCase(h) = Err
    BY <2>11, <2>15, OneCaseOnly
  <2> QED BY <2>16, <2>17
<1> QED BY <1>3, <1>4

-------------------------------------------------------------------------------
(* The producer's steps.                                                     *)

CanonInv == FileShape(file)

LEMMA DocumentReplaced ==
    ASSUME NEW f, FileShape(f), NEW x, SameDocument(f.doc, x) \/ Swapped(f.doc, x)
    PROVE  LET h == [f EXCEPT !.doc = x]
           IN  /\ FileShape(h)
               /\ GenerateFromFile(h) = GenerateFromFile(f) /\ BuildCase(h) = BuildCase(f)
<1> DEFINE h == [f EXCEPT !.doc = x]
<1>1. /\ HasMembers(h, {"bytes", "intact", "absent", "unknown", "doc"})
      /\ h.doc = x /\ \A m \in {"bytes", "intact", "absent", "unknown"} : h[m] = f[m]
  BY DEF FileShape, HasMembers
<1>2. DocumentShape(x)
  BY SwappedShape DEF SameDocument, FileShape
<1> HIDE DEF h
<1>3. FileShape(h)
  BY <1>1, <1>2 DEF FileShape
<1>4. GenerateFromFile(h) = GenerateFromFile(f) /\ BuildCase(h) = BuildCase(f)
  BY <1>1, <1>3, SameAnswers, SwappedAnswers
<1> QED BY <1>3, <1>4 DEF h

LEMMA Reversed ==
    ASSUME NEW d, DocumentShape(d), Len(d.cases) = 2
    PROVE  Swapped(d, [d EXCEPT !.cases = Reverse(@)])
<1> DEFINE q == Reverse(d.cases)
           e == [d EXCEPT !.cases = q]
<1>1. IsSequence(d.cases)
  BY DEF DocumentShape
<1>2. q = [i \in 1 .. 2 |-> d.cases[(2 - i) + 1]]
  BY DEF Reverse
<1>3. Len(q) = 2 /\ DOMAIN q = 1 .. 2 /\ q[1] = d.cases[2] /\ q[2] = d.cases[1]
  BY <1>2
<1>4. IsSequence(q)
  BY <1>2 DEF IsSequence, ToSet
<1>5. "cases" \in Members /\ d = [m \in Members |-> d[m]]
  BY DEF DocumentShape, HasMembers, Members
<1> HIDE DEF q
<1>6. HasMembers(e, Members) /\ e.cases = q /\ \A m \in Members \ {"cases"} : e[m] = d[m]
  BY <1>5 DEF HasMembers
<1> HIDE DEF e
<1>7. Swapped(d, e)
  BY <1>3, <1>4, <1>6 DEF Swapped
<1> QED BY <1>7 DEF e, q

(* Each rewriting leaves another encoding of the document, or its cases in   *)
(* the other order.                                                          *)
LEMMA Rewriting ==
    ASSUME CanonInv, CanonNext
    PROVE  \E x : /\ file' = [file EXCEPT !.doc = x]
                  /\ SameDocument(file.doc, x) \/ Swapped(file.doc, x)
<1> DEFINE d == file.doc
<1>1. DocumentShape(d)
  BY DEF CanonInv, FileShape
<1>2. CASE WriteDigest
  BY <1>1, <1>2, DigestWritten DEF WriteDigest, Rewrite
<1>3. CASE WriteTime
  <2>1. PICK offset \in Offsets :
          \/ Rewrite([d EXCEPT !.cases[1].startedAt = Rezone(@, offset)])
          \/ Rewrite([d EXCEPT !.cases[1].outcome.observedAt =
                                   Each(@, LAMBDA t : Rezone(t, offset))])
    BY <1>3 DEF WriteTime
  <2>2. offset \in Int
    BY CanonAssumption
  <2> QED BY <1>1, <2>1, <2>2, TimeWritten DEF Rewrite
<1>4. CASE SwapPoints
  BY <1>1, <1>4, PointsWritten DEF SwapPoints, Rewrite
<1>5. CASE RepeatPoint
  BY <1>1, <1>5, PointsWritten DEF RepeatPoint, Rewrite
<1>6. CASE SwapCases
  BY <1>1, <1>6, Reversed DEF SwapCases, Rewrite
<1>7. CASE Relayout
  BY <1>1, <1>7, LaidOut DEF Relayout, Rewrite
<1> QED BY <1>2, <1>3, <1>4, <1>5, <1>6, <1>7 DEF CanonNext

LEMMA CanonStep ==
    ASSUME CanonInv, CanonNext
    PROVE  /\ CanonInv'
           /\ GenerateFromFile(file') = GenerateFromFile(file)
           /\ BuildCase(file') = BuildCase(file)
<1>1. PICK x : /\ file' = [file EXCEPT !.doc = x]
               /\ SameDocument(file.doc, x) \/ Swapped(file.doc, x)
  BY Rewriting
<1>2. LET h == [file EXCEPT !.doc = x]
      IN  /\ FileShape(h)
          /\ GenerateFromFile(h) = GenerateFromFile(file) /\ BuildCase(h) = BuildCase(file)
  BY <1>1, DocumentReplaced DEF CanonInv
<1> QED BY <1>1, <1>2 DEF CanonInv

(* Whatever is rewritten, the file keeps the members that the structs of     *)
(* internal/evidence/deployment.go declare.                                  *)
THEOREM CanonInvariant == CanonSpec => []CanonInv
<1>1. CanonInit => CanonInv
  BY CanonAssumption DEF CanonInit, CanonInv
<1>2. CanonInv /\ [CanonNext]_file => CanonInv'
  <2>1. CASE UNCHANGED file
    BY <2>1 DEF CanonInv
  <2> QED BY <2>1, CanonStep
<1> QED BY <1>1, <1>2, PTL DEF CanonSpec

(* GenerateFromFile answers every encoding of one document alike: a body     *)
(* that is equal, or a refusal.                                              *)
THEOREM OneBodyForAllEncodings == CanonSpec => SameFactsSameBody
<1>1. CanonInv /\ [CanonNext]_file => [GenerateFromFile(file') = GenerateFromFile(file)]_file
  BY CanonStep
<1> QED BY <1>1, CanonInvariant, PTL DEF CanonSpec, SameFactsSameBody

(* BuildCase derives equal statements from every encoding: it normalizes the *)
(* evidence before either statement, and so before any digest of one.        *)
THEOREM SameStatementsForAllEncodings == CanonSpec => SameFactsSameStatements
<1>1. CanonInv /\ [CanonNext]_file => [BuildCase(file') = BuildCase(file)]_file
  BY CanonStep
<1> QED BY <1>1, CanonInvariant, PTL DEF CanonSpec, SameFactsSameStatements

-------------------------------------------------------------------------------
(* What an accepted file comes to.                                           *)

LEMMA Answered ==
    ASSUME NEW f, FileShape(f), IsOk(GenerateFromFile(f))
    PROVE  LET n == Value(GenerateFromFile(f))
           IN  /\ GenerateFromFile(f) = Ok(n)
               /\ DocumentShape(n) /\ LooseDocument(n) /\ NormalDocument(n) = n
               /\ Validate(n) /\ n.indented <= MaxBytes
               /\ Facts(n) = Facts(f.doc) /\ f.absent = {}
<1> DEFINE z == ZeroFill(f.doc, f.absent)
           n == NormalDocument(z)
<1>1. IsOk(Parse(f)) /\ GenerateFromFile(f) = Generate(Value(Parse(f)))
  BY DEF GenerateFromFile, IsOk
<1>2. Parses(f)
  BY <1>1, OkIs DEF Parse, Parses
<1>3. Parse(f) = Ok(z) /\ Redigested(f.doc, z) /\ DocumentShape(z) /\ Facts(z) = Facts(f.doc)
  BY <1>2, Parsed
<1>4. /\ f.absent # {} =>
            \A i \in DOMAIN f.doc.cases : z.cases[i] = WithDigest(f.doc.cases[i], NoDigest)
      /\ DOMAIN z.cases = DOMAIN f.doc.cases
  BY <1>2, <1>3, ZeroFilled DEF FileShape, Parses, Redigested
<1> HIDE DEF z
<1>5. GenerateFromFile(f) = Generate(z)
  BY <1>1, <1>3, OkIs
<1>6. LooseDocument(z) /\ Validate(n) /\ z.indented <= MaxBytes /\ Generate(z) = Ok(n)
  <2> HIDE DEF n
  <2>1. Generate(z) = IF LooseDocument(z) /\ Validate(n) /\ z.indented <= MaxBytes
                      THEN Ok(n) ELSE Err
    BY <1>3, Generated DEF n
  <2> QED BY <1>5, <2>1, OkIs
<1>7. /\ DocumentShape(n) /\ LooseDocument(n) /\ NormalDocument(n) = n
      /\ Facts(n) = Facts(z) /\ DOMAIN n.cases = DOMAIN z.cases
  BY <1>3, <1>6, NormalDocumentKeeps
<1>8. n.indented = z.indented
  BY DEF NormalDocument
<1> HIDE DEF n
<1>9. f.absent = {}
  <2> SUFFICES ASSUME f.absent # {} PROVE FALSE
    OBVIOUS
  <2>1. Len(n.cases) \in Nat /\ DOMAIN n.cases = 1 .. Len(n.cases)
    BY <1>7, SequenceFacts DEF DocumentShape
  <2>2. Len(n.cases) >= 1
    BY <1>6 DEF Validate, ValidConformance
  <2>3. 1 \in DOMAIN f.doc.cases /\ 1 \in DOMAIN z.cases
    BY <1>4, <1>7, <2>1, <2>2
  <2>4. z.cases[1] = WithDigest(f.doc.cases[1], NoDigest)
    BY <1>4, <2>3
  <2>5. CaseShape(f.doc.cases[1]) /\ DigestShape(NoDigest)
    BY <2>3 DEF FileShape, DocumentShape, DigestShape, HasMembers, NoDigest
  <2>6. z.cases[1].testResult.statementDigest = NoDigest
    BY <2>4, <2>5, DigestGiven
  <2>7. "none" \in DigestForms(z)
    BY <2>3, <2>6 DEF DigestForms, CaseForms, NoDigest
  <2> QED BY <1>6, <2>7 DEF LooseDocument, LooseForms
<1>10. Value(GenerateFromFile(f)) = n
  BY <1>5, <1>6, OkIs
<1> QED BY <1>3, <1>5, <1>6, <1>7, <1>8, <1>9, <1>10

LEMMA GeneratedFromBody ==
    ASSUME NEW n, DocumentShape(n), LooseDocument(n), NormalDocument(n) = n, Validate(n),
           n.indented <= MaxBytes
    PROVE  GenerateFromFile(Completed(n)) = Ok(n)
<1> DEFINE f == Completed(n)
<1>1. f.doc = n /\ f.absent = {} /\ FileShape(f) /\ Parses(f)
  BY DEF Completed, FileShape, HasMembers, Parses
<1> HIDE DEF f
<1>2. ZeroFill(f.doc, f.absent) = n
  BY <1>1, ZeroFilled
<1>3. Parse(f) = Ok(n)
  BY <1>1, <1>2, Parsed
<1>4. GenerateFromFile(f) = Generate(n)
  BY <1>3, OkIs DEF GenerateFromFile
<1>5. Generate(n) = Ok(n)
  BY Generated
<1> QED BY <1>4, <1>5 DEF f

(* A body that Generate accepted states the facts of its file, completed at  *)
(* most with the digest of the test result that BuildCase itself derived.    *)
THEOREM BodiesStateTheirFiles == CanonSpec => []BodyStatesTheFile
<1>1. ASSUME CanonInv PROVE BodyStatesTheFile
  <2> DEFINE cli == GenerateFromFile(file)
             built == BuildCase(file)
  <2>1. ASSUME IsOk(cli) PROVE Facts(Value(cli)) = Facts(file.doc) /\ file.absent = {}
    BY <1>1, <2>1, Answered DEF CanonInv
  <2>2. ASSUME IsOk(built)
        PROVE  /\ Facts(Value(built).deployment.predicate) = Facts(file.doc)
               /\ Value(built).evidence.cases[1].testResult.statementDigest
                     = Sha256(Value(built).testResult)
    <3> DEFINE b == BodyOf(file)
               n == NormalDocument(Placed(file))
    <3>1. /\ built = Ok([evidence |-> b, deployment |-> DeploymentOf(file),
                         testResult |-> ResultOf(file)])
          /\ DocumentShape(n) /\ Len(n.cases) = 1
          /\ b.cases = <<WithDigest(n.cases[1], Sha256(ResultOf(file)))>>
          /\ Facts(b) = Facts(file.doc)
      BY <1>1, <2>2, Built DEF CanonInv
    <3> HIDE DEF b, built, n
    <3>2. /\ Value(built).evidence = b /\ Value(built).deployment = DeploymentOf(file)
          /\ Value(built).testResult = ResultOf(file)
      BY <3>1, OkIs
    <3>3. DeploymentOf(file).predicate = b
      BY DEF DeploymentOf, b
    <3>4. CaseShape(n.cases[1])
      BY <3>1 DEF DocumentShape, IsSequence
    <3>5. DigestShape(Sha256(ResultOf(file)))
      BY DEF DigestShape, HasMembers, Sha256
    <3>6. WithDigest(n.cases[1], Sha256(ResultOf(file))).testResult.statementDigest
             = Sha256(ResultOf(file))
      BY <3>4, <3>5, DigestGiven
    <3>7. b.cases[1].testResult.statementDigest = Sha256(ResultOf(file))
      BY <3>1, <3>6
    <3> QED BY <3>1, <3>2, <3>3, <3>7
  <2> QED BY <2>1, <2>2 DEF BodyStatesTheFile
<1> QED BY <1>1, CanonInvariant, PTL

(* The CLI, run on what it or BuildCase has completed, gives that back.      *)
THEOREM TheCLIRepeatsTheHelper == CanonSpec => []CLIRepeatsTheHelper
<1>1. ASSUME CanonInv PROVE CLIRepeatsTheHelper
  <2> DEFINE cli == GenerateFromFile(file)
             built == BuildCase(file)
  <2>1. ASSUME IsOk(built)
        PROVE  GenerateFromFile(Completed(Value(built).evidence))
                  = Ok(Value(built).deployment.predicate)
    <3> DEFINE b == BodyOf(file)
    <3>1. /\ built = Ok([evidence |-> b, deployment |-> DeploymentOf(file),
                         testResult |-> ResultOf(file)])
          /\ DocumentShape(b) /\ LooseDocument(b) /\ NormalDocument(b) = b
          /\ Validate(b) /\ b.indented <= MaxBytes
      BY <1>1, <2>1, Built DEF CanonInv
    <3> HIDE DEF b, built
    <3>2. Value(built).evidence = b /\ Value(built).deployment = DeploymentOf(file)
      BY <3>1, OkIs
    <3>3. DeploymentOf(file).predicate = b
      BY DEF DeploymentOf, b
    <3> QED BY <3>1, <3>2, <3>3, GeneratedFromBody
  <2>2. ASSUME IsOk(cli) PROVE GenerateFromFile(Completed(Value(cli))) = cli
    <3>1. LET n == Value(cli)
          IN  /\ cli = Ok(n) /\ DocumentShape(n) /\ LooseDocument(n) /\ NormalDocument(n) = n
              /\ Validate(n) /\ n.indented <= MaxBytes
      BY <1>1, <2>2, Answered DEF CanonInv
    <3> HIDE DEF cli
    <3> QED BY <3>1, GeneratedFromBody
  <2> QED BY <2>1, <2>2 DEF CLIRepeatsTheHelper
<1> QED BY <1>1, CanonInvariant, PTL

-------------------------------------------------------------------------------
(* The two derivations of the policy: what the one requires, the other       *)
(* reports the absence of.                                                   *)

(* A subject list of one names and digests the agent, or is reported.        *)
LEMMA OneSubject ==
    ASSUME NEW s, IsSequence(s.subject), Len(s.subject) = 1
    PROVE  ToSet(s.subject) = {s.subject[1]} /\ DOMAIN s.subject = {1}
<1>1. DOMAIN s.subject = 1..1
  BY SequenceFacts
<1>2. DOMAIN s.subject = {1}
  BY <1>1
<1> QED BY <1>2 DEF ToSet

(* An admissible deployment statement is reported at most for duplicates.    *)
LEMMA DeploymentClean ==
    ASSUME NEW s, DeploymentShape(s), deployment_envelope_valid(s), valid_case_cardinality(s),
           runtime_policy_consistent(s)
    PROVE  DeploymentViolations(s) \subseteq {"duplicate case ids", "duplicate case kinds"}
<1>1. default_behavior_valid(s)
  BY DEF deployment_envelope_valid, nested_core_shape_valid, default_behavior_valid
<1>2. \A sub \in ToSet(s.subject) : NamesAgent(sub, s) /\ DigestsAgent(sub, s)
  BY OneSubject DEF DeploymentShape, deployment_envelope_valid
<1> QED BY <1>1, <1>2 DEF DeploymentViolations, When, deployment_envelope_valid

(* The reports that only a deployment statement gives rise to.               *)
LEMMA DeploymentReports ==
    ASSUME NEW s
    PROVE  LET v == DeploymentViolations(s)
           IN  /\ s.type # StatementType => "statement type" \in v
               /\ "schemaVersion" \in s.predicate.illegal => "schema version" \in v
               /\ ~ required_root_keys_present(s) => "missing core fields" \in v
               /\ ~ nested_core_shape_valid(s) => "nested core shape" \in v
               /\ ~ valid_case_cardinality(s) => "case cardinality" \in v
               /\ ~ controlled_tool_valid(s) => "controlled tool" \in v
               /\ ~ adapter_valid(s) => "adapter" \in v
               /\ Len(s.subject) # 1 => "subject count" \in v
               /\ (\E sub \in ToSet(s.subject) : ~ NamesAgent(sub, s)) => "subject name" \in v
               /\ (\E sub \in ToSet(s.subject) : ~ DigestsAgent(sub, s)) => "subject digest" \in v
               /\ ~ (s.keys \subseteq allowed_root_keys) => "unexpected field" \in v
  BY DEF DeploymentViolations, When

(* One that is not admissible for itself is reported.                        *)
LEMMA DeploymentFlagged ==
    ASSUME NEW s, DeploymentShape(s), ~ (deployment_envelope_valid(s) /\ valid_case_cardinality(s))
    PROVE  DeploymentViolations(s) # {}
<1>1. CASE /\ Len(s.subject) = 1
           /\ ~ \E i \in DOMAIN s.subject :
                   NamesAgent(s.subject[i], s) /\ DigestsAgent(s.subject[i], s)
  <2>1. ~ NamesAgent(s.subject[1], s) \/ ~ DigestsAgent(s.subject[1], s)
    BY <1>1, OneSubject DEF DeploymentShape
  <2>2. s.subject[1] \in ToSet(s.subject)
    BY <1>1, OneSubject DEF DeploymentShape
  <2> QED BY <2>1, <2>2, DeploymentReports
<1>2. CASE ~ (/\ Len(s.subject) = 1
              /\ ~ \E i \in DOMAIN s.subject :
                      NamesAgent(s.subject[i], s) /\ DigestsAgent(s.subject[i], s))
  BY <1>2, DeploymentReports DEF deployment_envelope_valid
<1> QED BY <1>1, <1>2

(* A case that is admissible is not reported.                                *)
LEMMA CaseClean ==
    ASSUME NEW b, NEW s, NEW c, case_admissible(b, s, c)
    PROVE  CaseViolations(b, s, c) = {}
<1>1. PICK i : case_test_results(b, c) = {i} /\ tr_statement_valid(s, c, b[i])
  BY DEF case_admissible, linkage_valid
<1>2. Cardinality(case_test_results(b, c)) = 1
  BY <1>1, FS_Singleton
<1>3. ~ \E j \in case_test_results(b, c) :
          case_test_results(b, c) = {j} /\ ~ tr_statement_valid(s, c, b[j])
  BY <1>1
<1>4. case_test_results(b, c) # {} /\ ~ Cardinality(case_test_results(b, c)) > 1
  BY <1>1, <1>2
<1> QED BY <1>3, <1>4 DEF CaseViolations, When, case_admissible

(* A case of a known kind that is not admissible is reported.                *)
LEMMA CaseFlagged ==
    ASSUME NEW b, IsSequence(b), NEW s, NEW c, c.kind \in Kinds, ~ case_admissible(b, s, c)
    PROVE  CaseViolations(b, s, c) # {}
<1> DEFINE trs == case_test_results(b, c)
<1>1. CASE trs = {} \/ Cardinality(trs) > 1
  BY <1>1 DEF CaseViolations, When
<1>2. CASE trs # {} /\ ~ Cardinality(trs) > 1
  <2>1. trs \subseteq DOMAIN b
    BY DEF case_test_results, test_result_statements
  <2>2. IsFiniteSet(trs) /\ Cardinality(trs) \in Nat
    BY <2>1, DomainFinite
  <2>3. Cardinality(trs) = 1
    BY <1>2, <2>2, FS_EmptySet
  <2>4. PICK i : trs = {i}
    BY <2>2, <2>3, FS_Singleton
  <2>5. CASE ~ tr_statement_valid(s, c, b[i])
    BY <2>4, <2>5 DEF CaseViolations, When
  <2>6. CASE tr_statement_valid(s, c, b[i])
    <3>1. linkage_valid(b, s, c)
      BY <2>4, <2>6 DEF linkage_valid
    <3> QED BY <3>1 DEF CaseViolations, When, case_admissible, Kinds
  <2> QED BY <2>5, <2>6
<1> QED BY <1>1, <1>2

(* With one deployment statement, the reports are those about it.            *)
LEMMA ReportsOfOne ==
    ASSUME NEW b, NEW i, deployment_statements(b) = {i}
    PROVE  agent_governance_violations(b) =
               DeploymentViolations(b[i])
                   \cup UNION {CaseViolations(b, b[i], c) : c \in ToSet(b[i].predicate.cases)}
<1> DEFINE D == {b[j] : j \in deployment_statements(b)}
           own == UNION {DeploymentViolations(s) : s \in D}
           cases == UNION {UNION {CaseViolations(b, s, c) : c \in ToSet(s.predicate.cases)}
                             : s \in D}
           about == UNION {CaseViolations(b, b[i], c) : c \in ToSet(b[i].predicate.cases)}
           count == When(Cardinality(deployment_statements(b)) # 1, "deployment count")
<1>1. \A s : s \in D <=> s = b[i]
  OBVIOUS
<1>2. count = {}
  BY FS_Singleton DEF When
<1>3. agent_governance_violations(b) = count \cup own \cup cases
  BY DEF agent_governance_violations
<1> HIDE DEF D
<1>4. own = DeploymentViolations(b[i])
  BY <1>1
<1>5. cases = about
  BY <1>1
<1> HIDE DEF own, cases, about, count
<1>6. agent_governance_violations(b) = DeploymentViolations(b[i]) \cup about
  BY <1>2, <1>3, <1>4, <1>5
<1> QED BY <1>6 DEF about

(***************************************************************************)
(* The two accounts of a decision: whatever is in a file, either the       *)
(* positive derivation succeeds and only duplicates are reported, or it    *)
(* does not and something is.                                              *)
(***************************************************************************)
LEMMA AccountsAgree ==
    ASSUME NEW b, IsSequence(b), \A i \in DOMAIN b : StatementShape(b[i])
    PROVE  LET v == agent_governance_violations(b)
           IN  IF PositivelyAdmitted(b)
               THEN v \subseteq {"duplicate case ids", "duplicate case kinds"}
               ELSE v # {}
<1> DEFINE v == agent_governance_violations(b)
           ds == deployment_statements(b)
<1>1. ASSUME PositivelyAdmitted(b)
      PROVE  v \subseteq {"duplicate case ids", "duplicate case kinds"}
  <2>1. PICK i \in ds : ds = {i} /\ admissible_deployment(b, b[i])
    BY <1>1 DEF PositivelyAdmitted
  <2> DEFINE s == b[i]
             cases == s.predicate.cases
  <2>2. DeploymentShape(s)
    BY <2>1 DEF StatementShape, deployment_statements
  <2>3. DOMAIN cases = 1..Len(cases) /\ Len(cases) \in Nat
    BY <2>2, SequenceFacts DEF DeploymentShape
  <2>4. 1 \in DOMAIN cases
    BY <2>1, <2>3 DEF admissible_deployment, valid_case_cardinality
  <2>5. runtime_policy_consistent(s)
    BY <2>1, <2>4 DEF admissible_deployment, case_admissible, deployment_enforcing
  <2>6. DeploymentViolations(s) \subseteq {"duplicate case ids", "duplicate case kinds"}
    BY <2>1, <2>2, <2>5, DeploymentClean DEF admissible_deployment
  <2>7. \A c \in ToSet(cases) : CaseViolations(b, s, c) = {}
    BY <2>1, CaseClean DEF admissible_deployment, ToSet
  <2>8. v = DeploymentViolations(s) \cup UNION {CaseViolations(b, s, c) : c \in ToSet(cases)}
    BY <2>1, ReportsOfOne
  <2> HIDE DEF s, cases, v
  <2> QED BY <2>6, <2>7, <2>8
<1>2. ASSUME ~ PositivelyAdmitted(b) PROVE v # {}
  <2>1. CASE Cardinality(ds) # 1
    BY <2>1 DEF agent_governance_violations, When
  <2>2. CASE Cardinality(ds) = 1
    <3>1. ds \subseteq DOMAIN b
      BY DEF deployment_statements
    <3>2. IsFiniteSet(ds)
      BY <3>1, DomainFinite
    <3>3. PICK i : ds = {i}
      BY <2>2, <3>2, FS_Singleton
    <3> DEFINE s == b[i]
    <3>4. DeploymentShape(s)
      BY <3>3 DEF StatementShape, deployment_statements
    <3>5. ~ admissible_deployment(b, s)
      BY <1>2, <3>3 DEF PositivelyAdmitted
    <3>6. v = DeploymentViolations(s)
                  \cup UNION {CaseViolations(b, s, c) : c \in ToSet(s.predicate.cases)}
      BY <3>3, ReportsOfOne
    <3>7. CASE ~ (deployment_envelope_valid(s) /\ valid_case_cardinality(s))
      BY <3>4, <3>6, <3>7, DeploymentFlagged
    <3>8. CASE deployment_envelope_valid(s) /\ valid_case_cardinality(s)
      <4>1. PICK k \in DOMAIN s.predicate.cases : ~ case_admissible(b, s, s.predicate.cases[k])
        BY <3>5, <3>8 DEF admissible_deployment
      <4> DEFINE c == s.predicate.cases[k]
      <4>2. c.kind \in Kinds
        BY <3>8 DEF deployment_envelope_valid, nested_core_shape_valid, case_shape_valid
      <4>3. CaseViolations(b, s, c) # {}
        BY <4>1, <4>2, CaseFlagged
      <4>4. c \in ToSet(s.predicate.cases)
        BY DEF ToSet
      <4> HIDE DEF v, s, c
      <4> QED BY <3>6, <4>3, <4>4
    <3> QED BY <3>7, <3>8
  <2> QED BY <2>1, <2>2
<1> QED BY <1>1, <1>2

-------------------------------------------------------------------------------
(* One more statement in the file.                                           *)

(* What a file holds after one more delivery.                                *)
LEMMA LongerFile ==
    ASSUME NEW b, IsSequence(b), NEW t
    PROVE  LET longer == Append(b, t)
               last == Len(b) + 1
           IN  /\ DOMAIN longer = DOMAIN b \cup {last} /\ last \notin DOMAIN b
               /\ longer[last] = t /\ \A i \in DOMAIN b : longer[i] = b[i]
<1> DEFINE longer == Append(b, t)
           last == Len(b) + 1
<1>1. Len(b) \in Nat /\ DOMAIN b = 1..Len(b)
  BY SequenceFacts
<1>2. /\ IsSequence(longer) /\ Len(longer) = last
      /\ \A i \in DOMAIN b : longer[i] = b[i]
      /\ longer[last] = t
  BY SequenceLonger
<1>3. DOMAIN longer = 1..last
  BY <1>2, SequenceFacts
<1> QED BY <1>1, <1>2, <1>3

LEMMA LongerDeployments ==
    ASSUME NEW b, IsSequence(b), NEW t
    PROVE  /\ t.predicateType # DeploymentType =>
                 deployment_statements(Append(b, t)) = deployment_statements(b)
           /\ t.predicateType = DeploymentType =>
                 deployment_statements(Append(b, t)) = deployment_statements(b) \cup {Len(b) + 1}
<1> DEFINE longer == Append(b, t)
           last == Len(b) + 1
<1>1. /\ DOMAIN longer = DOMAIN b \cup {last} /\ last \notin DOMAIN b
      /\ longer[last] = t /\ \A i \in DOMAIN b : longer[i] = b[i]
  BY LongerFile
<1> HIDE DEF longer, last
<1>2. /\ t.predicateType # DeploymentType =>
            deployment_statements(longer) = deployment_statements(b)
      /\ t.predicateType = DeploymentType =>
            deployment_statements(longer) = deployment_statements(b) \cup {last}
  BY <1>1 DEF deployment_statements
<1> QED BY <1>2 DEF longer, last

LEMMA LongerClaims ==
    ASSUME NEW b, IsSequence(b), NEW t, NEW c
    PROVE  /\ ~ (t.predicateType = TestResultType /\ Claims(t, c.id)) =>
                 case_test_results(Append(b, t), c) = case_test_results(b, c)
           /\ t.predicateType = TestResultType /\ Claims(t, c.id) =>
                 case_test_results(Append(b, t), c) = case_test_results(b, c) \cup {Len(b) + 1}
<1> DEFINE longer == Append(b, t)
           last == Len(b) + 1
<1>1. /\ DOMAIN longer = DOMAIN b \cup {last} /\ last \notin DOMAIN b
      /\ longer[last] = t /\ \A i \in DOMAIN b : longer[i] = b[i]
  BY LongerFile
<1> HIDE DEF longer, last
<1>2. /\ ~ (t.predicateType = TestResultType /\ Claims(t, c.id)) =>
            case_test_results(longer, c) = case_test_results(b, c)
      /\ t.predicateType = TestResultType /\ Claims(t, c.id) =>
            case_test_results(longer, c) = case_test_results(b, c) \cup {last}
  BY <1>1 DEF case_test_results, test_result_statements
<1> QED BY <1>2 DEF longer, last

(***************************************************************************)
(* An unrelated statement leaves an admission as it was.                   *)
(***************************************************************************)
LEMMA UnrelatedAdmitted ==
    ASSUME NEW b, IsSequence(b), allow(b), NEW t,
           t.predicateType # DeploymentType, ~ ClaimsCaseOf(t, b)
    PROVE  allow(Append(b, t))
<1> DEFINE longer == Append(b, t)
<1>1. PICK i \in deployment_statements(b) :
          deployment_statements(b) = {i} /\ admissible_deployment(b, b[i])
  BY DEF allow, PositivelyAdmitted
<1> DEFINE s == b[i]
           cases == s.predicate.cases
<1>2. deployment_statements(longer) = {i} /\ longer[i] = s
  BY <1>1, LongerFile, LongerDeployments DEF deployment_statements
<1>3. ASSUME NEW k \in DOMAIN cases PROVE case_admissible(longer, s, cases[k])
  <2> DEFINE c == cases[k]
  <2>1. ~ (t.predicateType = TestResultType /\ Claims(t, c.id))
    BY <1>1 DEF ClaimsCaseOf, ToSet
  <2>2. case_test_results(longer, c) = case_test_results(b, c)
    BY <2>1, LongerClaims
  <2>3. \A j \in case_test_results(b, c) : longer[j] = b[j]
    BY LongerFile DEF case_test_results, test_result_statements
  <2>4. case_admissible(b, s, c)
    BY <1>1 DEF admissible_deployment
  <2> HIDE DEF longer, s, c
  <2>5. linkage_valid(longer, s, c)
    BY <2>2, <2>3, <2>4 DEF case_admissible, linkage_valid
  <2> QED BY <2>4, <2>5 DEF case_admissible, c
<1>4. admissible_deployment(longer, s)
  BY <1>1, <1>3 DEF admissible_deployment
<1>5. \A c \in ToSet(cases) : CaseViolations(longer, s, c) = {}
  BY <1>3, CaseClean DEF ToSet
<1>6. DeploymentViolations(s) = {}
  BY <1>1, ReportsOfOne DEF allow
<1>7. agent_governance_violations(longer) =
          DeploymentViolations(s) \cup UNION {CaseViolations(longer, s, c) : c \in ToSet(cases)}
  <2>1. agent_governance_violations(longer) =
            DeploymentViolations(longer[i])
                \cup UNION {CaseViolations(longer, longer[i], c) :
                             c \in ToSet(longer[i].predicate.cases)}
    <3>1. deployment_statements(longer) = {i}
      BY <1>2
    <3> HIDE DEF longer
    <3> QED BY <3>1, ReportsOfOne
  <2> HIDE DEF longer, s
  <2> QED BY <1>2, <2>1
<1> HIDE DEF longer, s, cases
<1>8. agent_governance_violations(longer) = {}
  BY <1>5, <1>6, <1>7
<1> QED BY <1>2, <1>4, <1>8 DEF allow, PositivelyAdmitted, longer

(***************************************************************************)
(* A second deployment statement, or a second claim to a case, revokes an  *)
(* admission, if it is the same statement once more too.                   *)
(***************************************************************************)
LEMMA AmbiguousRefused ==
    ASSUME NEW b, IsSequence(b), allow(b), NEW t,
           t.predicateType = DeploymentType \/ ClaimsCaseOf(t, b)
    PROVE  ~ allow(Append(b, t))
<1> DEFINE longer == Append(b, t)
           last == Len(b) + 1
<1>1. PICK i \in deployment_statements(b) :
          deployment_statements(b) = {i} /\ admissible_deployment(b, b[i])
  BY DEF allow, PositivelyAdmitted
<1>2. i \in DOMAIN b /\ last \notin DOMAIN b /\ longer[i] = b[i]
  BY LongerFile DEF deployment_statements
<1>3. CASE t.predicateType = DeploymentType
  <2>1. deployment_statements(longer) = {i, last}
    BY <1>1, <1>3, LongerDeployments
  <2> QED BY <1>2, <2>1 DEF allow, PositivelyAdmitted
<1>4. CASE t.predicateType # DeploymentType /\ ClaimsCaseOf(t, b)
  <2>1. PICK k \in DOMAIN b[i].predicate.cases :
            t.predicateType = TestResultType /\ Claims(t, b[i].predicate.cases[k].id)
    BY <1>1, <1>4 DEF ClaimsCaseOf, ToSet
  <2> DEFINE c == b[i].predicate.cases[k]
  <2>2. PICK j : case_test_results(b, c) = {j}
    BY <1>1 DEF admissible_deployment, case_admissible, linkage_valid
  <2>3. j \in DOMAIN b
    BY <2>2 DEF case_test_results, test_result_statements
  <2>4. case_test_results(longer, c) = {j, last}
    BY <2>1, <2>2, LongerClaims
  <2> HIDE DEF c, longer, last
  <2>5. ~ linkage_valid(longer, b[i], c)
    BY <1>2, <2>3, <2>4 DEF linkage_valid
  <2>6. ~ admissible_deployment(longer, b[i])
    BY <2>5 DEF admissible_deployment, case_admissible, c
  <2>7. deployment_statements(longer) = {i}
    BY <1>1, <1>4, LongerDeployments DEF longer
  <2> QED BY <1>2, <2>6, <2>7 DEF allow, PositivelyAdmitted, longer
<1> QED BY <1>3, <1>4

-------------------------------------------------------------------------------
(* What an admission warrants.                                               *)

(* The rules on annotations leave no key and no value open.                  *)
LEMMA AnnotationsPinned ==
    ASSUME NEW s, NEW c, NEW d, HasMembers(d.annotations, DOMAIN d.annotations),
           d.annotations.caseId = c.id, tr_annotations_valid(s, c, d)
    PROVE  d.annotations = Annotations(s.predicate, c)
<1> DEFINE a == d.annotations
           e == s.predicate
           linked == (IF c.decision.state = "observed" THEN {"decisionDigest"} ELSE {})
                       \cup (IF c.outcome.state = "verified" THEN {"resultArtifactDigest"} ELSE {})
           base == {"agentDigest", "caseId", "correlationId", "decisionState", "decisionVerdict",
                    "outcomeState", "outcomeResult"}
<1>1. DOMAIN BaseAnnotations(e, c) = base
  BY DEF BaseAnnotations
<1>2. DOMAIN a = base \cup linked
  BY DEF tr_annotations_valid, expected_annotation_keys
<1>3. \A k \in base : a[k] = BaseAnnotations(e, c)[k]
  BY DEF tr_annotations_valid, BaseAnnotations
<1>4. "decisionDigest" \in linked => a["decisionDigest"] = Value(c.decision.reference)
  BY DEF tr_annotations_valid, Value
<1>5. "resultArtifactDigest" \in linked => a["resultArtifactDigest"] = Value(c.outcome.reference)
  BY DEF tr_annotations_valid, Value
<1>6. \A k \in base \cup linked :
          a[k] = IF k = "decisionDigest" THEN Value(c.decision.reference)
                 ELSE IF k = "resultArtifactDigest" THEN Value(c.outcome.reference)
                 ELSE BaseAnnotations(e, c)[k]
  BY <1>3, <1>4, <1>5
<1>7. Annotations(e, c) = [k \in base \cup linked |->
          IF k = "decisionDigest" THEN Value(c.decision.reference)
          ELSE IF k = "resultArtifactDigest" THEN Value(c.outcome.reference)
          ELSE BaseAnnotations(e, c)[k]]
  BY <1>1 DEF Annotations, Linking
<1>8. a = [k \in base \cup linked |-> a[k]]
  BY <1>2 DEF HasMembers
<1> HIDE DEF a, base, linked, e
<1>9. a = Annotations(e, c)
  BY <1>6, <1>7, <1>8
<1> QED BY <1>9 DEF a, e

(***************************************************************************)
(* A test result that passes the cross-binding rules is the statement that *)
(* BuildTestResultStatement derives, its url and root members apart.       *)
(***************************************************************************)
LEMMA FaithfulResult ==
    ASSUME NEW s, NEW c, NEW t, ResultShape(t), Claims(t, c.id), tr_statement_valid(s, c, t),
           s.subject = <<AgentSubject(s.predicate)>>
    PROVE  [t EXCEPT !.predicate.url = "absent", !.keys = {"configuration"}]
               = TestResultStatement(s.predicate, c)
<1> DEFINE e == s.predicate
           p == t.predicate
           d == p.configuration[1]
           built == TestResultStatement(e, c)
           descriptor == [name |-> ConformanceDescriptor, digest |-> e.tool,
                          annotations |-> Annotations(e, c)]
<1>1. p.configuration = <<d>> /\ 1 \in DOMAIN p.configuration
  BY SequenceFacts DEF ResultShape, Claims
<1>2. d.annotations = Annotations(e, c)
  BY <1>1, AnnotationsPinned DEF ResultShape, Claims, tr_statement_valid
<1>3. d = descriptor
  <2>1. d = [m \in {"name", "digest", "annotations"} |-> d[m]]
    BY <1>1 DEF ResultShape, HasMembers
  <2>2. d.name = ConformanceDescriptor /\ d.digest = e.tool
    BY DEF tr_statement_valid
  <2> HIDE DEF d, e
  <2> QED BY <1>2, <2>1, <2>2
<1>4. t.subject = <<AgentSubject(e)>>
  <2>1. t.subject = <<t.subject[1]>>
    BY SequenceFacts DEF ResultShape, tr_statement_valid
  <2>2. t.subject[1] = AgentSubject(e)
    BY DEF tr_statement_valid
  <2> QED BY <2>1, <2>2
<1>5. p = [configuration |-> <<descriptor>>, result |-> built.predicate.result,
           passedTests |-> built.predicate.passedTests, warnedTests |-> built.predicate.warnedTests,
           failedTests |-> <<>>, url |-> p.url]
  <2>1. p = [m \in {"configuration", "result", "passedTests", "warnedTests", "failedTests", "url"}
                |-> p[m]]
    BY DEF ResultShape, HasMembers
  <2>2. /\ p.result = built.predicate.result
        /\ p.passedTests = built.predicate.passedTests
        /\ p.warnedTests = built.predicate.warnedTests
        /\ p.failedTests = <<>>
    BY DEF tr_statement_valid, tr_result_profile_valid, TestResultStatement
  <2> HIDE DEF p, built, descriptor
  <2> QED BY <1>1, <1>3, <2>1, <2>2
<1>6. [p EXCEPT !.url = "absent"] = built.predicate
  BY <1>5 DEF TestResultStatement
<1>7. t = [m \in {"type", "predicateType", "subject", "keys", "predicate"} |-> t[m]]
  BY DEF ResultShape, HasMembers
<1>8. t.type = StatementType /\ t.predicateType = TestResultType
  BY DEF ResultShape, tr_statement_valid
<1>9. built = [type |-> StatementType, predicateType |-> TestResultType,
               subject |-> <<AgentSubject(e)>>, keys |-> {"configuration"},
               predicate |-> built.predicate]
  BY DEF TestResultStatement
<1> HIDE DEF built, e, d, descriptor
<1> DEFINE freed == [m \in {"type", "predicateType", "subject", "keys", "predicate"} |->
               IF m = "predicate" THEN [p EXCEPT !.url = "absent"]
               ELSE IF m = "keys" THEN {"configuration"} ELSE t[m]]
<1>10. [t EXCEPT !.predicate.url = "absent", !.keys = {"configuration"}] = freed
  <2>1. DOMAIN t = {"type", "predicateType", "subject", "keys", "predicate"}
    BY <1>7
  <2> QED BY <2>1
<1>11. freed = built
  BY <1>4, <1>6, <1>8, <1>9
<1> QED BY <1>10, <1>11 DEF built, e

(* Ids and kinds of an admitted deployment statement are distinct: a set of  *)
(* keys smaller than the list of cases is reported.                          *)
LEMMA CasesDistinct ==
    ASSUME NEW s, IsSequence(s.predicate.cases), DeploymentViolations(s) = {}
    PROVE  /\ \A i, j \in DOMAIN s.predicate.cases :
                  s.predicate.cases[i].id = s.predicate.cases[j].id => i = j
           /\ \A i, j \in DOMAIN s.predicate.cases :
                  s.predicate.cases[i].kind = s.predicate.cases[j].kind => i = j
<1> DEFINE q == s.predicate.cases
           ids == [i \in DOMAIN q |-> q[i].id]
           kinds == [i \in DOMAIN q |-> q[i].kind]
<1>1. /\ Cardinality({c.id : c \in ToSet(q)}) = Len(q)
      /\ Cardinality({c.kind : c \in ToSet(q)}) = Len(q)
  BY DEF DeploymentViolations, When
<1>2. \A x : x \in ToSet(q) <=> \E i \in DOMAIN q : x = q[i]
  BY DEF ToSet
<1>3. DOMAIN ids = DOMAIN q /\ DOMAIN kinds = DOMAIN q /\ IsSequence(q)
  OBVIOUS
<1>4. \A i \in DOMAIN q : ids[i] = q[i].id /\ kinds[i] = q[i].kind
  OBVIOUS
<1> HIDE DEF q, ids, kinds
<1>5. {c.id : c \in ToSet(q)} = {ids[i] : i \in DOMAIN q}
  BY <1>2, <1>4
<1>6. {c.kind : c \in ToSet(q)} = {kinds[i] : i \in DOMAIN q}
  BY <1>2, <1>4
<1>7. \A i, j \in DOMAIN q : ids[i] = ids[j] => i = j
  BY <1>1, <1>3, <1>5, KeysDistinct
<1>8. \A i, j \in DOMAIN q : kinds[i] = kinds[j] => i = j
  BY <1>1, <1>3, <1>6, KeysDistinct
<1> QED BY <1>4, <1>7, <1>8 DEF q

(* An admissible case is proved by its facts and by one faithful result.     *)
LEMMA CaseWarranted ==
    ASSUME NEW b, \A i \in DOMAIN b : StatementShape(b[i]),
           NEW s, NEW c, case_admissible(b, s, c),
           s.subject = <<AgentSubject(s.predicate)>>
    PROVE  FactsProveKind(c) /\ OneFaithfulResult(b, s.predicate, c)
<1>1. FactsProveKind(c)
  BY DEF case_admissible, FactsProveKind
<1>2. PICK j : case_test_results(b, c) = {j} /\ tr_statement_valid(s, c, b[j])
  BY DEF case_admissible, linkage_valid
<1>3. /\ j \in DOMAIN b /\ b[j].predicateType = TestResultType /\ Claims(b[j], c.id)
      /\ \A k \in DOMAIN b \ {j} : b[k].predicateType = TestResultType => ~ Claims(b[k], c.id)
  BY <1>2 DEF case_test_results, test_result_statements
<1>4. ResultShape(b[j])
  BY <1>3 DEF StatementShape
<1>5. [b[j] EXCEPT !.predicate.url = "absent", !.keys = {"configuration"}]
          = TestResultStatement(s.predicate, c)
  BY <1>2, <1>3, <1>4, FaithfulResult
<1>6. c.testResult.statementDigest = Sha256(b[j])
  BY <1>2 DEF tr_statement_valid
<1> QED BY <1>1, <1>3, <1>5, <1>6 DEF OneFaithfulResult

(***************************************************************************)
(* What an admission warrants, of any file: one deployment statement, a    *)
(* loaded and enforcing control that was exercised, cases each proved by   *)
(* its facts and by one test result faithful to them.                      *)
(***************************************************************************)
LEMMA Warranted ==
    ASSUME NEW b, \A i \in DOMAIN b : StatementShape(b[i]), allow(b)
    PROVE  \E i \in DOMAIN b :
              /\ b[i].predicateType = DeploymentType
              /\ \A j \in DOMAIN b \ {i} : b[j].predicateType # DeploymentType
              /\ WarrantedBy(b, b[i])
<1>1. PICK i : deployment_statements(b) = {i} /\ admissible_deployment(b, b[i])
  BY DEF allow, PositivelyAdmitted
<1> DEFINE s == b[i]
           p == s.predicate
<1>2. /\ i \in DOMAIN b /\ s.predicateType = DeploymentType
      /\ \A j \in DOMAIN b \ {i} : b[j].predicateType # DeploymentType
  BY <1>1 DEF deployment_statements
<1>3. DeploymentShape(s)
  BY <1>2 DEF StatementShape
<1>4. s.subject = <<AgentSubject(p)>>
  <2>1. Len(s.subject) = 1
    BY <1>1 DEF admissible_deployment, deployment_envelope_valid
  <2>2. NamesAgent(s.subject[1], s) /\ DigestsAgent(s.subject[1], s)
    BY <1>1, <1>3, <2>1, OneSubject
       DEF admissible_deployment, deployment_envelope_valid, DeploymentShape
  <2>3. HasMembers(s.subject[1], {"name", "digest"})
    BY <1>3, <2>1, OneSubject DEF DeploymentShape
  <2>4. s.subject[1] = AgentSubject(p)
    BY <2>2, <2>3 DEF HasMembers, AgentSubject, NamesAgent, DigestsAgent
  <2>5. s.subject = <<s.subject[1]>>
    BY <1>3, <2>1, SequenceFacts DEF DeploymentShape
  <2> QED BY <2>4, <2>5
<1>5. IsSequence(p.cases) /\ DOMAIN p.cases = 1..Len(p.cases) /\ 1 \in DOMAIN p.cases
  <2>1. IsSequence(p.cases) /\ DOMAIN p.cases = 1..Len(p.cases) /\ Len(p.cases) \in Nat
    BY <1>3, SequenceFacts DEF DeploymentShape
  <2> QED BY <1>1, <2>1 DEF admissible_deployment, valid_case_cardinality
<1>6. p.cases # <<>>
  BY <1>5
<1>7. deployment_enforcing(s)
  BY <1>1, <1>5 DEF admissible_deployment, case_admissible
<1>8. /\ p.runtimePolicy.loaded /\ p.enforcement.mode = "enforce"
      /\ p.enforcement.required # <<>>
      /\ ToSet(p.enforcement.required) \subseteq ToSet(p.enforcement.observed)
  BY <1>7 DEF deployment_enforcing
<1>9. DeploymentViolations(s) = {}
  BY <1>1, ReportsOfOne DEF allow
<1>10. Distinct(p.cases, LAMBDA c : c.id) /\ Distinct(p.cases, LAMBDA c : c.kind)
  BY <1>5, <1>9, CasesDistinct DEF Distinct
<1>11. \A k \in DOMAIN p.cases :
          FactsProveKind(p.cases[k]) /\ OneFaithfulResult(b, p, p.cases[k])
  BY <1>1, <1>4, CaseWarranted DEF admissible_deployment
<1>12. WarrantedBy(b, s)
  BY <1>4, <1>6, <1>8, <1>10, <1>11 DEF WarrantedBy
<1> QED BY <1>2, <1>12

-------------------------------------------------------------------------------
(* The files of GateBundle hold statements with their members, whatever the  *)
(* signer alters.                                                            *)

PredicateShape(p) == "cases" \in DOMAIN p /\ IsSequence(p.cases)

(* No alteration of a predicate takes its list of cases away.                *)
LEMMA PredicateVariantShape ==
    ASSUME NEW p, PredicateShape(p), NEW v \in PredicateVariants(p)
    PROVE  PredicateShape(v)
<1>1. CASE v \in {[p EXCEPT !.illegal = {m}] :
                     m \in {"grammar", "schemaVersion", "contractVersion", "toolName"}}
  BY <1>1 DEF PredicateShape
<1>2. CASE v \in {[p EXCEPT !.agent.name = "other"], [p EXCEPT !.agent.artifactDigest = Upper(@)],
                  [p EXCEPT !.adapter.runtimeDigest = Other],
                  [p EXCEPT !.tool = Other], [p EXCEPT !.tool = Upper(@)]}
  BY <1>2 DEF PredicateShape
<1>3. CASE v \in {[p EXCEPT !.runtimePolicy.count = n] : n \in {0, MaxPolicies, MaxPolicies + 1}}
                   \cup {[p EXCEPT !.runtimePolicy.loaded = ~ @],
                         [p EXCEPT !.runtimePolicy.loaded = FALSE, !.runtimePolicy.count = 0]}
  BY <1>3 DEF PredicateShape
<1>4. CASE v \in {[p EXCEPT !.enforcement.mode = "monitor"],
                  [p EXCEPT !.enforcement.defaultBehavior = "unknown"]}
                   \cup {[p EXCEPT !.enforcement.required = x] : x \in {<<>>, <<1, 2>>, <<1, 1>>}}
                   \cup {[p EXCEPT !.enforcement.observed = x] :
                            x \in {<<>>, <<2>>, <<1, 1>>, <<1, 2>>}}
  BY <1>4 DEF PredicateShape
<1>5. CASE v \in {[p EXCEPT !.cases = <<>>], [p EXCEPT !.cases = Append(@, @[1])],
                  [p EXCEPT !.cases = Append(@, [@[1] EXCEPT !.id = 8])]}
  <2>1. IsSequence(<<>>)
    BY DEF IsSequence
  <2>2. \A x : IsSequence(Append(p.cases, x))
    BY SequenceLonger DEF PredicateShape
  <2> QED BY <1>5, <2>1, <2>2 DEF PredicateShape
<1>6. CASE v \in UNION {{ReplaceCase(p, i, c) : c \in CaseVariants(p.cases[i])} :
                          i \in DOMAIN p.cases}
  <2>1. PICK i \in DOMAIN p.cases : \E c : v = ReplaceCase(p, i, c)
    BY <1>6
  <2>2. PICK c : v = ReplaceCase(p, i, c)
    BY <2>1
  <2>3. v.cases = [p.cases EXCEPT ![i] = c] /\ DOMAIN v = DOMAIN p
    BY <2>2 DEF ReplaceCase, PredicateShape
  <2>4. Len(p.cases) \in Nat /\ p.cases = [k \in 1..Len(p.cases) |-> p.cases[k]]
    BY SequenceFacts DEF PredicateShape
  <2> DEFINE q == [p.cases EXCEPT ![i] = c]
             n == Len(p.cases)
  <2>5. q = [k \in 1..n |-> q[k]] /\ n \in Nat
    BY <2>4
  <2> HIDE DEF q, n
  <2>6. IsSequence(q)
    BY <2>5, SequenceFunction
  <2> QED BY <2>3, <2>6 DEF PredicateShape, q
<1> QED BY <1>1, <1>2, <1>3, <1>4, <1>5, <1>6 DEF PredicateVariants

(* An altered deployment statement has the members of one.                   *)
LEMMA DeploymentVariantShape ==
    ASSUME NEW s, DeploymentShape(s), s.subject # <<>>, NEW v \in DeploymentVariants(s)
    PROVE  DeploymentShape(v)
<1> DEFINE members == {"type", "predicateType", "subject", "keys", "predicate"}
<1>1. s = [m \in members |-> s[m]]
  BY DEF DeploymentShape, HasMembers
<1>2. Len(s.subject) \in Nat /\ DOMAIN s.subject = 1..Len(s.subject)
      /\ 1 \in DOMAIN s.subject
  BY SequenceFacts DEF DeploymentShape, IsSequence
<1>3. CASE v \in {[s EXCEPT !.type = "other"]}
  BY <1>1, <1>3 DEF DeploymentShape, HasMembers
<1>4. CASE v \in {[s EXCEPT !.keys = @ \cup {"compliant"}], [s EXCEPT !.keys = @ \ {"audit"}]}
  BY <1>1, <1>4 DEF DeploymentShape, HasMembers
<1>5. CASE v \in {[s EXCEPT !.predicate = p] : p \in PredicateVariants(s.predicate)}
  <2>1. PICK p \in PredicateVariants(s.predicate) : v = [s EXCEPT !.predicate = p]
    BY <1>5
  <2>2. PredicateShape(p)
    BY PredicateVariantShape DEF DeploymentShape, PredicateShape
  <2> QED BY <1>1, <2>1, <2>2 DEF DeploymentShape, PredicateShape, HasMembers
<1>6. CASE v \in {[s EXCEPT !.subject = x] :
                     x \in {<<>>, s.subject \o s.subject, <<[s.subject[1] EXCEPT !.name = "other"]>>,
                            <<[s.subject[1] EXCEPT !.digest = Other]>>}}
  <2> DEFINE Named(x) == IsSequence(x) /\ \A i \in DOMAIN x : HasMembers(x[i], {"name", "digest"})
  <2>1. Named(<<>>)
    BY DEF IsSequence
  <2>2. Named(s.subject \o s.subject)
    <3> DEFINE S == ToSet(s.subject)
               q == s.subject
    <3>1. q \in Seq(S) /\ \A x \in S : HasMembers(x, {"name", "digest"})
      BY DEF DeploymentShape, IsSequence, ToSet
    <3> HIDE DEF S, q
    <3>2. q \o q \in Seq(S) /\ \A i \in DOMAIN (q \o q) : (q \o q)[i] \in S
      BY <3>1
    <3>3. IsSequence(q \o q)
      BY <3>2, SequenceOf
    <3> QED BY <3>1, <3>2, <3>3 DEF q
  <2>3. \A a : HasMembers(a, {"name", "digest"}) => Named(<<a>>)
    <3> SUFFICES ASSUME NEW a, HasMembers(a, {"name", "digest"}) PROVE Named(<<a>>)
      OBVIOUS
    <3>1. <<a>> \in Seq({a})
      OBVIOUS
    <3>2. IsSequence(<<a>>)
      BY <3>1, SequenceOf
    <3> QED BY <3>2
  <2>4. HasMembers(s.subject[1], {"name", "digest"})
    BY <1>2 DEF DeploymentShape
  <2>5. /\ HasMembers([s.subject[1] EXCEPT !.name = "other"], {"name", "digest"})
        /\ HasMembers([s.subject[1] EXCEPT !.digest = Other], {"name", "digest"})
    BY <2>4 DEF HasMembers
  <2>6. PICK x : v = [s EXCEPT !.subject = x] /\ Named(x)
    BY <1>6, <2>1, <2>2, <2>3, <2>5
  <2> QED BY <1>1, <2>6 DEF DeploymentShape, HasMembers
<1> QED BY <1>3, <1>4, <1>5, <1>6 DEF DeploymentVariants

(* A deployment statement bound to other results has the members of one.     *)
LEMMA BoundShape ==
    ASSUME NEW s, DeploymentShape(s), NEW rs
    PROVE  DeploymentShape(Bound(s, rs)) /\ Bound(s, rs).subject = s.subject
<1> DEFINE q == [i \in DOMAIN s.predicate.cases |->
                   [s.predicate.cases[i] EXCEPT !.testResult.statementDigest = Sha256(rs[i])]]
           n == Len(s.predicate.cases)
           p == [s.predicate EXCEPT !.cases = q]
<1>1. n \in Nat /\ DOMAIN s.predicate.cases = 1..n
  BY SequenceFacts DEF DeploymentShape
<1>2. q = [i \in 1..n |-> q[i]]
  BY <1>1
<1>3. Bound(s, rs) = [s EXCEPT !.predicate = p]
  BY DEF Bound, DeploymentShape, HasMembers
<1> HIDE DEF q, n
<1>4. IsSequence(q)
  BY <1>1, <1>2, SequenceFunction
<1>5. "cases" \in DOMAIN p /\ IsSequence(p.cases)
  BY <1>4 DEF DeploymentShape
<1> HIDE DEF p
<1> QED BY <1>3, <1>5 DEF DeploymentShape, HasMembers

(* An altered list of annotations still maps keys to values.                 *)
LEMMA AnnotationVariantShape ==
    ASSUME NEW a, HasMembers(a, DOMAIN a), NEW v \in AnnotationVariants(a)
    PROVE  HasMembers(v, DOMAIN v)
<1>1. CASE v \in {[a EXCEPT !.caseId = 9], [a EXCEPT !.agentDigest = Other],
                  [a EXCEPT !.correlationId = Sha256(9)],
                  [a EXCEPT !.decisionVerdict = "deny"], [a EXCEPT !.outcomeResult = "blocked"],
                  [k \in DOMAIN a \cup {"compliant"} |-> IF k \in DOMAIN a THEN a[k] ELSE "yes"]}
  BY <1>1 DEF HasMembers
<1>2. CASE v \in {[k \in DOMAIN a \ {gone} |-> a[k]] : gone \in DOMAIN a}
  BY <1>2 DEF HasMembers
<1> QED BY <1>1, <1>2 DEF AnnotationVariants

(* The shape of the predicate of a test result, and of its descriptors.      *)
DescriptorShape(d) ==
    HasMembers(d, {"name", "digest", "annotations"})
        /\ HasMembers(d.annotations, DOMAIN d.annotations)

TestPredicateShape(p) ==
    /\ HasMembers(p, {"configuration", "result", "passedTests", "warnedTests", "failedTests", "url"})
    /\ IsSequence(p.configuration)
    /\ \A i \in DOMAIN p.configuration : DescriptorShape(p.configuration[i])

(* A list with one descriptor replaced by another is a list of descriptors.  *)
LEMMA ConfigurationShape ==
    ASSUME NEW q, IsSequence(q), \A i \in DOMAIN q : DescriptorShape(q[i]),
           NEW d, 1 \in DOMAIN q => DescriptorShape(d)
    PROVE  LET w == [q EXCEPT ![1] = d]
           IN  IsSequence(w) /\ \A i \in DOMAIN w : DescriptorShape(w[i])
<1> DEFINE w == [q EXCEPT ![1] = d]
           n == Len(q)
<1>1. n \in Nat /\ DOMAIN q = 1..n /\ q = [i \in 1..n |-> q[i]]
  BY SequenceFacts
<1>2. w = [i \in 1..n |-> w[i]]
  BY <1>1
<1>3. \A i \in DOMAIN w : i \in DOMAIN q /\ (w[i] = q[i] \/ (i = 1 /\ w[i] = d))
  BY <1>1
<1> HIDE DEF w, n
<1>4. IsSequence(w)
  BY <1>1, <1>2, SequenceFunction
<1> QED BY <1>3, <1>4 DEF w

(* An altered test result has the members of one.                            *)
LEMMA ResultVariantShape ==
    ASSUME NEW t, ResultShape(t), NEW v \in ResultVariants(t)
    PROVE  ResultShape(v)
<1> DEFINE p == t.predicate
           q == p.configuration
           d == q[1]
<1>1. TestPredicateShape(p)
  BY DEF ResultShape, TestPredicateShape, DescriptorShape
<1>2. \A w : TestPredicateShape(w) => ResultShape([t EXCEPT !.predicate = w])
  BY DEF ResultShape, HasMembers, TestPredicateShape, DescriptorShape
<1>3. \A c : IsSequence(c) /\ (\A i \in DOMAIN c : DescriptorShape(c[i]))
                => ResultShape([t EXCEPT !.predicate.configuration = c])
  <2> SUFFICES ASSUME NEW c, IsSequence(c), \A i \in DOMAIN c : DescriptorShape(c[i])
               PROVE  ResultShape([t EXCEPT !.predicate.configuration = c])
    OBVIOUS
  <2> DEFINE w == [p EXCEPT !.configuration = c]
  <2>1. TestPredicateShape(w)
    BY <1>1 DEF TestPredicateShape, HasMembers
  <2>2. [t EXCEPT !.predicate.configuration = c] = [t EXCEPT !.predicate = w]
    BY DEF ResultShape, HasMembers
  <2> HIDE DEF w
  <2> QED BY <1>2, <2>1, <2>2
<1>4. IsSequence(q) /\ \A i \in DOMAIN q : DescriptorShape(q[i])
  BY <1>1 DEF TestPredicateShape
<1>5. CASE v \in {[t EXCEPT !.type = "other"], [t EXCEPT !.keys = @ \cup {"compliant"}]}
  BY <1>5 DEF ResultShape, HasMembers
<1>6. CASE v = [t EXCEPT !.subject[1].name = "other"]
  <2> DEFINE x == [t.subject EXCEPT ![1].name = "other"]
             n == Len(t.subject)
  <2>1. n \in Nat /\ DOMAIN t.subject = 1..n
    BY SequenceFacts DEF ResultShape
  <2>2. x = [i \in 1..n |-> x[i]]
    BY <2>1
  <2>3. v = [t EXCEPT !.subject = x]
    BY <1>6 DEF ResultShape, HasMembers
  <2> HIDE DEF x, n
  <2>4. IsSequence(x)
    BY <2>1, <2>2, SequenceFunction
  <2> QED BY <2>3, <2>4 DEF ResultShape, HasMembers
<1>7. CASE v = [t EXCEPT !.subject = @ \o @]
  <2>1. t.subject \o t.subject \in Seq(ToSet(t.subject))
    BY DEF ResultShape, IsSequence
  <2>2. IsSequence(t.subject \o t.subject)
    BY <2>1, SequenceOf
  <2> QED BY <1>7, <2>2 DEF ResultShape, HasMembers
<1>8. CASE v \in {[t EXCEPT !.predicate.result = "WARNED"],
                  [t EXCEPT !.predicate.passedTests = <<>>],
                  [t EXCEPT !.predicate.failedTests = <<9>>],
                  [t EXCEPT !.predicate.url = "legal"], [t EXCEPT !.predicate.url = "illegal"]}
  BY <1>1, <1>8 DEF ResultShape, HasMembers
<1>9. CASE v = [t EXCEPT !.predicate.configuration = <<>>]
  <2>1. IsSequence(<<>>)
    BY DEF IsSequence
  <2> QED BY <1>3, <1>9, <2>1
<1>10. CASE v = [t EXCEPT !.predicate.configuration = @ \o @]
  <2> DEFINE S == ToSet(q)
  <2>1. q \in Seq(S) /\ \A x \in S : DescriptorShape(x)
    BY <1>4 DEF IsSequence, ToSet
  <2>2. v = [t EXCEPT !.predicate.configuration = q \o q]
    BY <1>10
  <2> HIDE DEF S, q
  <2>3. q \o q \in Seq(S) /\ \A i \in DOMAIN (q \o q) : (q \o q)[i] \in S
    BY <2>1
  <2>4. IsSequence(q \o q)
    BY <2>3, SequenceOf
  <2> QED BY <1>3, <2>1, <2>2, <2>3, <2>4
<1>11. CASE v \in {[t EXCEPT !.predicate.configuration[1].name = "other"],
                   [t EXCEPT !.predicate.configuration[1].digest = Other]}
                    \cup {[t EXCEPT !.predicate.configuration[1].annotations = a] :
                             a \in AnnotationVariants(d.annotations)}
  <2>1. PICK e : /\ v = [t EXCEPT !.predicate.configuration[1] = e]
                 /\ 1 \in DOMAIN q => DescriptorShape(e)
    <3>1. CASE v = [t EXCEPT !.predicate.configuration[1].name = "other"]
      <4> DEFINE e == [d EXCEPT !.name = "other"]
      <4>1. v = [t EXCEPT !.predicate.configuration[1] = e]
        BY <3>1
      <4>2. 1 \in DOMAIN q => DescriptorShape(e)
        <5> SUFFICES ASSUME 1 \in DOMAIN q PROVE DescriptorShape(e)
          OBVIOUS
        <5>1. DescriptorShape(d)
          BY <1>4
        <5> HIDE DEF d
        <5> QED BY <5>1 DEF DescriptorShape, HasMembers
      <4> QED BY <4>1, <4>2
    <3>2. CASE v = [t EXCEPT !.predicate.configuration[1].digest = Other]
      <4> DEFINE e == [d EXCEPT !.digest = Other]
      <4>1. v = [t EXCEPT !.predicate.configuration[1] = e]
        BY <3>2
      <4>2. 1 \in DOMAIN q => DescriptorShape(e)
        <5> SUFFICES ASSUME 1 \in DOMAIN q PROVE DescriptorShape(e)
          OBVIOUS
        <5>1. DescriptorShape(d)
          BY <1>4
        <5> HIDE DEF d
        <5> QED BY <5>1 DEF DescriptorShape, HasMembers
      <4> QED BY <4>1, <4>2
    <3>3. ASSUME NEW a \in AnnotationVariants(d.annotations),
                 v = [t EXCEPT !.predicate.configuration[1].annotations = a]
          PROVE  \E e : /\ v = [t EXCEPT !.predicate.configuration[1] = e]
                        /\ 1 \in DOMAIN q => DescriptorShape(e)
      <4> DEFINE e == [d EXCEPT !.annotations = a]
      <4>1. v = [t EXCEPT !.predicate.configuration[1] = e]
        BY <3>3
      <4>2. 1 \in DOMAIN q => DescriptorShape(e)
        <5> SUFFICES ASSUME 1 \in DOMAIN q PROVE DescriptorShape(e)
          OBVIOUS
        <5>1. DescriptorShape(d)
          BY <1>4
        <5>2. HasMembers(a, DOMAIN a)
          BY <5>1, AnnotationVariantShape DEF DescriptorShape
        <5> QED BY <5>1, <5>2 DEF DescriptorShape, HasMembers
      <4> QED BY <4>1, <4>2
    <3> QED BY <1>11, <3>1, <3>2, <3>3
  <2> DEFINE w == [q EXCEPT ![1] = e]
  <2>2. v = [t EXCEPT !.predicate.configuration = w]
    BY <2>1
  <2>3. IsSequence(w) /\ \A i \in DOMAIN w : DescriptorShape(w[i])
    BY <1>4, <2>1, ConfigurationShape
  <2> HIDE DEF w
  <2> QED BY <1>3, <2>2, <2>3
<1> QED BY <1>5, <1>6, <1>7, <1>8, <1>9, <1>10, <1>11 DEF ResultVariants

(* The test results that the helper derives have the members of one.         *)
LEMMA DerivedResultShape ==
    ASSUME NEW p, NEW c
    PROVE  ResultShape(TestResultStatement(p, c))
<1> DEFINE t == TestResultStatement(p, c)
           d == [name |-> ConformanceDescriptor, digest |-> p.tool,
                 annotations |-> Annotations(p, c)]
<1>1. \A x : IsSequence(<<x>>) /\ DOMAIN <<x>> = {1} /\ <<x>>[1] = x
  BY DEF IsSequence, ToSet
<1>2. HasMembers(d.annotations, DOMAIN d.annotations)
  BY DEF HasMembers, Annotations, Linking
<1>3. HasMembers(d, {"name", "digest", "annotations"})
  BY DEF HasMembers
<1>4. t.predicate.configuration = <<d>>
  BY DEF TestResultStatement
<1>5. HasMembers(t, {"type", "predicateType", "subject", "keys", "predicate"})
  BY DEF TestResultStatement, HasMembers
<1>6. HasMembers(t.predicate, {"configuration", "result", "passedTests", "warnedTests",
                               "failedTests", "url"})
  BY DEF TestResultStatement, HasMembers
<1>7. t.predicateType = TestResultType /\ t.subject = <<AgentSubject(p)>>
  BY DEF TestResultStatement
<1> HIDE DEF t, d
<1>8. IsSequence(t.subject) /\ IsSequence(t.predicate.configuration)
      /\ DOMAIN t.predicate.configuration = {1} /\ t.predicate.configuration[1] = d
  BY <1>1, <1>4, <1>7
<1>9. ResultShape(t)
  BY <1>2, <1>3, <1>5, <1>6, <1>7, <1>8 DEF ResultShape
<1> QED BY <1>9 DEF t

(***************************************************************************)
(* Whatever a signer alters and whatever is delivered, the statements have *)
(* their members and the file is a list of statements.  Before the first   *)
(* alteration the deployment statement still names a subject, which the    *)
(* alterations of a subject start from.                                    *)
(***************************************************************************)
FilesInv ==
    /\ DeploymentShape(deployment)
    /\ ~ altered => deployment.subject # <<>>
    /\ \A i \in DOMAIN results : ResultShape(results[i])
    /\ IsSequence(bundle)
    /\ \A i \in DOMAIN bundle : StatementShape(bundle[i])

THEOREM FilesCorrect == Spec => []FilesInv
<1>1. Init => FilesInv
  <2> SUFFICES ASSUME Init PROVE FilesInv
    OBVIOUS
  <2>1. IsSequence(bundle) /\ DOMAIN bundle = {}
    BY DEF Init, IsSequence
  <2> QED BY <2>1, ShapeAssumption DEF Init, FilesInv
<1>2. FilesInv /\ [Next]_vars => FilesInv'
  <2> SUFFICES ASSUME FilesInv, [Next]_vars PROVE FilesInv'
    OBVIOUS
  <2> USE DEF FilesInv
  <2>1. CASE AlterDeployment
    BY <2>1, DeploymentVariantShape DEF AlterDeployment
  <2>2. CASE AlterResult
    <3>1. PICK i \in DOMAIN results, t \in UNION {ResultVariants(results[j]) : j \in DOMAIN results} :
              results' = [results EXCEPT ![i] = t]
      BY <2>2 DEF AlterResult
    <3>2. ResultShape(t)
      BY <3>1, ResultVariantShape
    <3>3. \A j \in DOMAIN results' : ResultShape(results'[j])
      BY <3>1, <3>2
    <3>4. DeploymentShape(deployment')
      BY <2>2, BoundShape DEF AlterResult
    <3> QED BY <2>2, <3>3, <3>4 DEF AlterResult
  <2>3. CASE AlterBoth
    <3>1. PICK p \in PredicateVariants(deployment.predicate) :
              LET rs == [i \in DOMAIN p.cases |-> BuildTestResultStatement(p, p.cases[i])]
              IN  /\ \A i \in DOMAIN rs : IsOk(rs[i])
                  /\ results' = [i \in DOMAIN rs |-> Value(rs[i])]
                  /\ deployment' = Bound([deployment EXCEPT !.subject = <<AgentSubject(p)>>,
                                                            !.predicate = p], results')
      BY <2>3 DEF AlterBoth
    <3>2. \A i \in DOMAIN results' : results'[i] = TestResultStatement(p, p.cases[i])
      BY <3>1 DEF BuildTestResultStatement, IsOk, Ok, Err, Value
    <3>3. \A i \in DOMAIN results' : ResultShape(results'[i])
      BY <3>2, DerivedResultShape
    <3> DEFINE s == [deployment EXCEPT !.subject = <<AgentSubject(p)>>, !.predicate = p]
    <3>4. DeploymentShape(s)
      <4>1. PredicateShape(p)
        BY PredicateVariantShape DEF DeploymentShape, PredicateShape
      <4>2. IsSequence(<<AgentSubject(p)>>) /\ DOMAIN <<AgentSubject(p)>> = {1}
            /\ HasMembers(AgentSubject(p), {"name", "digest"})
        BY DEF IsSequence, ToSet, HasMembers, AgentSubject
      <4>3. /\ HasMembers(s, {"type", "predicateType", "subject", "keys", "predicate"})
            /\ s.predicateType = deployment.predicateType
            /\ s.subject = <<AgentSubject(p)>> /\ s.predicate = p
        BY DEF DeploymentShape, HasMembers
      <4>4. \A i \in DOMAIN s.subject : HasMembers(s.subject[i], {"name", "digest"})
        BY <4>2, <4>3
      <4> HIDE DEF s
      <4> QED BY <4>1, <4>2, <4>3, <4>4 DEF DeploymentShape, PredicateShape
    <3>5. DeploymentShape(deployment')
      BY <3>1, <3>4, BoundShape
    <3> QED BY <2>3, <3>3, <3>5 DEF AlterBoth
  <2>4. CASE Deliver
    <3>1. PICK s \in Shelf : bundle' = Append(bundle, s)
      BY <2>4 DEF Deliver
    <3>2. StatementShape(s)
      <4>1. DeploymentType # TestResultType
        BY DEF DeploymentType, TestResultType
      <4> QED BY <3>1, <4>1, ShapeAssumption
              DEF Shelf, ToSet, StatementShape, DeploymentShape, ResultShape
    <3>3. IsSequence(bundle')
      BY <3>1, SequenceLonger
    <3>4. \A i \in DOMAIN bundle' : StatementShape(bundle'[i])
      BY <3>1, <3>2, LongerFile
    <3> QED BY <2>4, <3>3, <3>4 DEF Deliver
  <2>5. CASE UNCHANGED vars
    BY <2>5 DEF vars
  <2> QED BY <2>1, <2>2, <2>3, <2>4, <2>5 DEF Next
<1> QED BY <1>1, <1>2, PTL DEF Spec

(* Every admission is warranted: whatever the signer altered, consistently   *)
(* or not, and whatever else is in the file, an admitted file has the one    *)
(* deployment statement, proved cases and faithful test results.             *)
THEOREM AdmissionsWarranted == Spec => []AdmittedIsWarranted
<1>1. FilesInv => AdmittedIsWarranted
  BY Warranted DEF FilesInv, AdmittedIsWarranted
<1> QED BY <1>1, FilesCorrect, PTL

(* Every denial is attributed: the violations are empty only for files that  *)
(* the positive derivation admits, and add nothing to it but the duplicates. *)
THEOREM DenialsAreAttributed == Spec => []DenialsAttributed
<1>1. FilesInv => DenialsAttributed
  BY AccountsAgree DEF FilesInv, DenialsAttributed
<1> QED BY <1>1, FilesCorrect, PTL

(* An admission outlasts exactly the deliveries that make nothing ambiguous: *)
(* neither a second deployment statement nor a second claim to a case.       *)
THEOREM AmbiguityIsRevoked == Spec => AmbiguityRevokes
<1> DEFINE s == bundle'[Len(bundle')]
           Decided == allow(bundle') =
                         (s.predicateType # DeploymentType /\ ~ ClaimsCaseOf(s, bundle))
           Revoked == allow(bundle) /\ Len(bundle') > Len(bundle) => Decided
<1>1. FilesInv /\ [Next]_vars => [Revoked]_bundle
  <2> SUFFICES ASSUME FilesInv, Next, allow(bundle), Len(bundle') > Len(bundle), bundle' # bundle
               PROVE  Decided
    BY DEF vars
  <2>1. Deliver
    BY DEF Next, AlterDeployment, AlterResult, AlterBoth
  <2>2. PICK t : bundle' = Append(bundle, t)
    BY <2>1 DEF Deliver
  <2>3. IsSequence(bundle) /\ s = t
    BY <2>2, SequenceLonger DEF FilesInv
  <2>4. CASE t.predicateType # DeploymentType /\ ~ ClaimsCaseOf(t, bundle)
    <3>1. allow(bundle')
      BY <2>2, <2>3, <2>4, UnrelatedAdmitted
    <3> QED BY <2>3, <2>4, <3>1 DEF allow
  <2>5. CASE t.predicateType = DeploymentType \/ ClaimsCaseOf(t, bundle)
    <3>1. ~ allow(bundle')
      BY <2>2, <2>3, <2>5, AmbiguousRefused
    <3> QED BY <2>3, <2>5, <3>1 DEF allow
  <2> QED BY <2>4, <2>5
<1> QED BY <1>1, FilesCorrect, PTL DEF Spec, AmbiguityRevokes
-------------------------------------------------------------------------------
(* What the helper builds, as the gate reads it.                             *)

(* The test result states of the completed evidence what it stated of the    *)
(* evidence before the digest was bound.                                     *)
LEMMA ResultOfTheBody ==
    ASSUME NEW f, FileShape(f), IsOk(BuildCase(f))
    PROVE  LET b == BodyOf(f)
               c == b.cases[1]
               t == ResultOf(f)
           IN  /\ t = TestResultStatement(b, c)
               /\ b.cases = <<c>> /\ CaseShape(c) /\ c.testResult.statementDigest = Sha256(t)
<1> DEFINE n == NormalDocument(Placed(f))
           k == n.cases[1]
           e == Prepared(f)
           b == BodyOf(f)
           c == b.cases[1]
           t == ResultOf(f)
           g == WithDigest(k, NoDigest)
           h == WithDigest(k, Sha256(t))
<1>1. DocumentShape(n) /\ Len(n.cases) = 1 /\ b.cases = <<h>>
  BY Built
<1>2. DigestShape(NoDigest) /\ DigestShape(Sha256(t))
  BY DEF DigestShape, HasMembers, NoDigest, Sha256
<1>3. e = BindDigest(n, NoDigest) /\ b = BindDigest(e, Sha256(t))
  BY DEF Prepared, BodyOf
<1>4. CaseShape(k)
  BY <1>1, SequenceFacts DEF DocumentShape
<1> HIDE DEF n, k, e, b, t
<1>5. Redigested(n, e) /\ e.cases = <<g>> /\ DocumentShape(e)
  BY <1>1, <1>2, <1>3, DigestBound, Redigest DEF k
<1>6. Redigested(e, b)
  <2>1. Len(e.cases) = 1
    BY <1>5
  <2> QED BY <1>2, <1>3, <1>5, <2>1, DigestBound
<1>7. b.agent = e.agent /\ b.tool = e.tool
  BY <1>5, <1>6, Redigest
<1>8. /\ CaseShape(h)
      /\ h.id = k.id /\ h.correlationId = k.correlationId
      /\ h.decision = k.decision /\ h.outcome = k.outcome
      /\ g.id = k.id /\ g.correlationId = k.correlationId
      /\ g.decision = k.decision /\ g.outcome = k.outcome
  BY <1>2, <1>4, RedigestedMembers, Zenon
<1>9. h.testResult.statementDigest = Sha256(t)
  BY <1>2, <1>4, DigestGiven
<1> HIDE DEF g, h
<1>10. t = TestResultStatement(e, g)
  BY <1>5 DEF t, e, ResultOf
<1>11. TestResultStatement(e, g) = TestResultStatement(b, h)
  BY <1>7, <1>8 DEF TestResultStatement, AgentSubject, Annotations, Linking, BaseAnnotations
<1>12. c = h
  BY <1>1
<1> QED BY <1>1, <1>8, <1>9, <1>10, <1>11, <1>12 DEF b, t

(* A completed body, and the two statements about its one case.              *)
Complete(b, c, t, s) ==
    /\ DocumentShape(b) /\ LooseDocument(b) /\ NormalDocument(b) = b /\ Validate(b)
    /\ b.cases = <<c>> /\ CaseShape(c)
    /\ t = TestResultStatement(b, c) /\ c.testResult.statementDigest = Sha256(t)
    /\ s.type = StatementType /\ s.predicateType = DeploymentType
    /\ s.subject = <<AgentSubject(b)>> /\ s.predicate = b
    /\ HasMembers(s, {"type", "predicateType", "subject", "keys", "predicate"})
    /\ CoreKeys \subseteq s.keys /\ s.keys \subseteq CoreKeys \cup {"extensions"}

LEMMA CompleteOf ==
    ASSUME NEW f, FileShape(f), IsOk(BuildCase(f))
    PROVE  Complete(BodyOf(f), BodyOf(f).cases[1], ResultOf(f), DeploymentOf(f))
<1>1. LET b == BodyOf(f)
      IN  DocumentShape(b) /\ LooseDocument(b) /\ NormalDocument(b) = b /\ Validate(b)
  BY Built
<1>2. LET b == BodyOf(f)
          s == DeploymentOf(f)
      IN  /\ s.type = StatementType /\ s.predicateType = DeploymentType
          /\ s.subject = <<AgentSubject(b)>> /\ s.predicate = b
          /\ HasMembers(s, {"type", "predicateType", "subject", "keys", "predicate"})
          /\ CoreKeys \subseteq s.keys /\ s.keys \subseteq CoreKeys \cup {"extensions"}
  BY DEF DeploymentOf, HasMembers
<1> QED BY <1>1, <1>2, ResultOfTheBody DEF Complete

(* The deployment statement is faultless in all but the tool it names.       *)
LEMMA DeploymentReadable ==
    ASSUME NEW b, NEW c, NEW t, NEW s, Complete(b, c, t, s)
    PROVE  /\ DeploymentShape(s)
           /\ DeploymentViolations(s) = When(b.tool.of # controlled_tool_digest.of, "controlled tool")
<1>1. /\ DocumentShape(b) /\ LooseDocument(b) /\ NormalDocument(b) = b /\ Validate(b)
      /\ b.cases = <<c>> /\ CaseShape(c)
      /\ s.predicate = b /\ s.subject = <<AgentSubject(b)>> /\ s.type = StatementType
      /\ s.keys \subseteq allowed_root_keys /\ required_root_keys_present(s)
  BY DEF Complete, allowed_root_keys, required_root_keys_present
<1>2. /\ DOMAIN s.subject = {1} /\ s.subject[1] = AgentSubject(b) /\ Len(s.subject) = 1
      /\ IsSequence(s.subject)
  BY <1>1 DEF IsSequence, ToSet
<1>3. DOMAIN b.cases = {1} /\ b.cases[1] = c /\ Len(b.cases) = 1 /\ ToSet(b.cases) = {c}
  BY <1>1 DEF ToSet
<1>4. "cases" \in DOMAIN b /\ IsSequence(b.cases)
  BY <1>1 DEF DocumentShape, HasMembers
<1>5. DeploymentShape(s)
  BY <1>1, <1>2, <1>4 DEF DeploymentShape, Complete, AgentSubject, HasMembers
<1>6. \A sub \in ToSet(s.subject) : NamesAgent(sub, s) /\ DigestsAgent(sub, s)
  BY <1>1, <1>2 DEF ToSet, NamesAgent, DigestsAgent, AgentSubject
<1>7. DigestForms(b) \subseteq {"lower"}
  BY <1>1, NormalDocumentKeeps
<1>8. /\ b.illegal = {} /\ ValidRuntimeAdapter(b) /\ ValidRuntimePolicy(b) /\ ValidEnforcement(b)
      /\ ValidCase(b, c)
  BY <1>1, <1>3 DEF Validate, ValidConformance
<1>9. adapter_valid(s) /\ default_behavior_valid(s)
  BY <1>1, <1>8 DEF adapter_valid, default_behavior_valid, ValidRuntimeAdapter, ValidEnforcement
<1>10. runtime_policy_consistent(s)
  <2> DEFINE rp == b.runtimePolicy
  <2>1. rp.count \in 0 .. MaxPolicies /\ rp.loaded = (rp.count >= 1) /\ MaxPolicies \in Nat
    BY <1>8, BoundsAssumption DEF ValidRuntimePolicy
  <2>2. s.predicate.runtimePolicy = rp
    BY <1>1
  <2> HIDE DEF rp
  <2>3. CASE rp.count >= 1
    <3>1. rp.count \in 1 .. MaxPolicies
      BY <2>1, <2>3
    <3>2. rp.loaded
      BY <2>1, <2>3
    <3> QED BY <2>2, <3>1, <3>2 DEF runtime_policy_consistent
  <2>4. CASE ~ rp.count >= 1
    <3>1. rp.count = 0
      BY <2>1, <2>4
    <3> QED BY <2>1, <2>2, <2>4, <3>1 DEF runtime_policy_consistent
  <2> QED BY <2>3, <2>4
<1>11. nested_core_shape_valid(s)
  <2>1. CoreForms(b) = {"lower"}
    BY <1>7 DEF DigestForms, CoreForms
  <2>2. Unique(b.enforcement.required) /\ Unique(b.enforcement.observed)
    <3>1. {b.enforcement.required, b.enforcement.observed} \subseteq Seq(Int)
      BY <1>1 DEF DocumentShape
    <3>2. /\ b.enforcement.required = DedupeSort(b.enforcement.required)
          /\ b.enforcement.observed = DedupeSort(b.enforcement.observed)
      <4>1. b.enforcement = NormalDocument(b).enforcement
        BY <1>1
      <4> QED BY <4>1 DEF NormalDocument
    <3> QED BY <3>1, <3>2, PointsOnce DEF Unique
  <2>3. case_shape_valid(c)
    <3>1. observation_shape_valid(c.decision)
      BY <1>8 DEF ValidCase, ValidDecision, Recorded, Unrecorded, observation_shape_valid
    <3>2. observation_shape_valid(c.outcome)
      BY <1>8 DEF ValidCase, ValidOutcome, Recorded, Unrecorded, observation_shape_valid
    <3> QED BY <1>8, <3>1, <3>2 DEF case_shape_valid, ValidCase, ValidInterval, ValidDecision,
                                    ValidOutcome, ValidTestResult
  <2> QED BY <1>1, <1>3, <1>8, <2>1, <2>2, <2>3 DEF nested_core_shape_valid, ValidEnforcement
<1>12. controlled_tool_valid(s) <=> b.tool.of = controlled_tool_digest.of
  <2>1. b.tool = [of |-> b.tool.of, form |-> "lower"]
    BY <1>1, <1>7 DEF DocumentShape, DigestShape, HasMembers, DigestForms, CoreForms
  <2> QED BY <1>1, <1>8, <2>1 DEF controlled_tool_valid, controlled_tool_digest, Sha256
<1>13. valid_case_cardinality(s)
  BY <1>1, <1>3 DEF valid_case_cardinality, Validate, ValidConformance
<1>14. /\ Cardinality({x.id : x \in ToSet(b.cases)}) = Len(b.cases)
       /\ Cardinality({x.kind : x \in ToSet(b.cases)}) = Len(b.cases)
  <2>1. {x.id : x \in ToSet(b.cases)} = {c.id} /\ {x.kind : x \in ToSet(b.cases)} = {c.kind}
    BY <1>3
  <2>2. Cardinality({c.id}) = 1 /\ Cardinality({c.kind}) = 1
    BY FS_Singleton
  <2> QED BY <1>3, <2>1, <2>2
<1>15. DeploymentViolations(s) = When(~ controlled_tool_valid(s), "controlled tool")
  <2>1. /\ s.type = StatementType /\ "schemaVersion" \notin s.predicate.illegal
        /\ required_root_keys_present(s) /\ s.keys \subseteq allowed_root_keys
    BY <1>1, <1>8
  <2>2. /\ Cardinality({x.id : x \in ToSet(s.predicate.cases)}) = Len(s.predicate.cases)
        /\ Cardinality({x.kind : x \in ToSet(s.predicate.cases)}) = Len(s.predicate.cases)
    BY <1>1, <1>14
  <2>3. /\ ~ \E sub \in ToSet(s.subject) : ~ NamesAgent(sub, s)
        /\ ~ \E sub \in ToSet(s.subject) : ~ DigestsAgent(sub, s)
        /\ Len(s.subject) = 1
    BY <1>2, <1>6
  <2> DEFINE typeV == When(s.type # StatementType, "statement type")
             versionV == When("schemaVersion" \in s.predicate.illegal, "schema version")
             coreV == When(~ required_root_keys_present(s), "missing core fields")
             nestedV == When(~ nested_core_shape_valid(s), "nested core shape")
             numberV == When(~ valid_case_cardinality(s), "case cardinality")
             toolV == When(~ controlled_tool_valid(s), "controlled tool")
             adapterV == When(~ adapter_valid(s), "adapter")
             defaultV == When(~ default_behavior_valid(s), "default behavior")
             policyV == When(~ runtime_policy_consistent(s), "runtime policy facts")
             subjectsV == When(Len(s.subject) # 1, "subject count")
             nameV == When(\E sub \in ToSet(s.subject) : ~ NamesAgent(sub, s), "subject name")
             digestV == When(\E sub \in ToSet(s.subject) : ~ DigestsAgent(sub, s), "subject digest")
             keysV == When(~ (s.keys \subseteq allowed_root_keys), "unexpected field")
             idsV == When(Cardinality({x.id : x \in ToSet(s.predicate.cases)}) # Len(s.predicate.cases),
                              "duplicate case ids")
             kindsV == When(Cardinality({x.kind : x \in ToSet(s.predicate.cases)}) # Len(s.predicate.cases),
                              "duplicate case kinds")
  <2>4. DeploymentViolations(s) = UNION {typeV, versionV, coreV, nestedV, numberV, toolV, adapterV, defaultV,
                                          policyV, subjectsV, nameV, digestV, keysV, idsV, kindsV}
    BY Zenon DEF DeploymentViolations
  <2>5. /\ typeV = {} /\ versionV = {} /\ coreV = {} /\ nestedV = {} /\ numberV = {}
        /\ adapterV = {} /\ defaultV = {} /\ policyV = {} /\ subjectsV = {} /\ nameV = {}
        /\ digestV = {} /\ keysV = {} /\ idsV = {} /\ kindsV = {}
    BY <1>9, <1>10, <1>11, <1>13, <2>1, <2>2, <2>3 DEF When
  <2> HIDE DEF typeV, versionV, coreV, nestedV, numberV, toolV, adapterV, defaultV,
               policyV, subjectsV, nameV, digestV, keysV, idsV, kindsV
  <2>6. DeploymentViolations(s) = toolV
    BY <2>4, <2>5
  <2> QED BY <2>6 DEF toolV
<1> QED BY <1>5, <1>12, <1>15 DEF When

(* The test result is the one that its case is bound to.                     *)
LEMMA ResultReadable ==
    ASSUME NEW b, NEW c, NEW t, NEW s, Complete(b, c, t, s)
    PROVE  /\ ResultShape(t) /\ tr_statement_valid(s, c, t)
           /\ t.predicateType = TestResultType /\ Claims(t, c.id)
<1> DEFINE a == Annotations(b, c)
           d == [name |-> ConformanceDescriptor, digest |-> b.tool, annotations |-> a]
           verified == c.outcome.state = "verified"
<1>1. /\ t = TestResultStatement(b, c) /\ CaseShape(c)
      /\ c.testResult.statementDigest = Sha256(t)
      /\ s.subject = <<AgentSubject(b)>> /\ s.predicate = b
  BY DEF Complete
<1>2. ValidCase(b, c)
  BY DEF Complete, Validate, ValidConformance
<1>3. /\ t.type = StatementType /\ t.predicateType = TestResultType
      /\ t.subject = <<AgentSubject(b)>> /\ t.predicate.configuration = <<d>>
      /\ t.predicate.result = IF verified THEN "PASSED" ELSE "WARNED"
      /\ t.predicate.passedTests = IF verified THEN <<c.id>> ELSE <<>>
      /\ t.predicate.warnedTests = IF verified THEN <<>> ELSE <<c.id>>
      /\ t.predicate.failedTests = <<>> /\ t.predicate.url = "absent"
      /\ HasMembers(t, {"type", "predicateType", "subject", "keys", "predicate"})
      /\ HasMembers(t.predicate, {"configuration", "result", "passedTests", "warnedTests",
                                  "failedTests", "url"})
  BY <1>1 DEF TestResultStatement, HasMembers
<1>4. /\ DOMAIN a = expected_annotation_keys(c) /\ a = [m \in DOMAIN a |-> a[m]]
      /\ a.agentDigest = b.agent.artifactDigest /\ a.caseId = c.id
      /\ a.correlationId = c.correlationId
      /\ a.decisionState = c.decision.state /\ a.decisionVerdict = c.decision.verdict
      /\ a.outcomeState = c.outcome.state /\ a.outcomeResult = c.outcome.result
      /\ c.decision.state = "observed" => a.decisionDigest = c.decision.reference[1]
      /\ verified => a.resultArtifactDigest = c.outcome.reference[1]
  BY DEF Annotations, Linking, BaseAnnotations, expected_annotation_keys, Value
<1>5. /\ d.name = ConformanceDescriptor /\ d.digest = b.tool /\ d.annotations = a
      /\ HasMembers(d, {"name", "digest", "annotations"})
  BY DEF HasMembers
<1> HIDE DEF a, d
<1>6. ASSUME NEW q, IsOptional(q), q # <<>> PROVE q = <<q[1]>>
  <2>1. Len(q) \in Nat /\ DOMAIN q = 1 .. Len(q) /\ q = [i \in 1 .. Len(q) |-> q[i]]
    BY <1>6, SequenceFacts DEF IsOptional
  <2>2. Len(q) # 0
    BY <1>6 DEF IsOptional, IsSequence
  <2>3. Len(q) = 1
    BY <1>6, <2>1, <2>2 DEF IsOptional
  <2> QED BY <2>1, <2>3
<1>7. \/ c.decision.state = "observed" /\ c.decision.reference = <<a.decisionDigest>>
      \/ c.decision.state = "not-observed"
  BY <1>1, <1>2, <1>4, <1>6 DEF ValidCase, ValidDecision, Recorded, CaseShape, ObservationShape
<1>8. \/ verified /\ c.outcome.reference = <<a.resultArtifactDigest>>
      \/ c.outcome.state = "unknown"
  BY <1>1, <1>2, <1>4, <1>6 DEF ValidCase, ValidOutcome, Recorded, CaseShape, ObservationShape
<1>9. tr_annotations_valid(s, c, d)
  BY <1>1, <1>4, <1>5, <1>7, <1>8 DEF tr_annotations_valid
<1>10. tr_result_profile_valid(c, t.predicate) /\ tr_url_valid(t.predicate)
  BY <1>3, <1>8 DEF tr_result_profile_valid, tr_url_valid
<1>11. t.predicate.configuration[1] = d /\ Len(t.predicate.configuration) = 1
  BY <1>3
<1>12. c.testResult.testId = c.id
  BY <1>2 DEF ValidCase, ValidTestResult
<1>13. Len(t.subject) = 1 /\ \E i \in DOMAIN s.subject : t.subject[1] = s.subject[i]
  BY <1>1, <1>3
<1>14. tr_statement_valid(s, c, t)
  BY <1>1, <1>3, <1>5, <1>9, <1>10, <1>11, <1>12, <1>13 DEF tr_statement_valid
<1>15. Claims(t, c.id)
  BY <1>4, <1>5, <1>11 DEF Claims, expected_annotation_keys
<1>16. ResultShape(t)
  <2>1. IsSequence(t.subject) /\ IsSequence(t.predicate.configuration)
    BY <1>3 DEF IsSequence, ToSet
  <2>2. HasMembers(a, DOMAIN a)
    BY <1>4 DEF HasMembers
  <2>3. DOMAIN t.predicate.configuration = {1}
    BY <1>3
  <2> QED BY <1>3, <1>5, <1>11, <2>1, <2>2, <2>3 DEF ResultShape
<1> QED BY <1>3, <1>14, <1>15, <1>16

(* The pair is reported for the facts of its case at most, and admitted just *)
(* when it is not reported at all.                                           *)
LEMMA PairReadable ==
    ASSUME NEW b, NEW c, NEW t, NEW s, Complete(b, c, t, s)
    PROVE  LET pair == <<t, s>>
               v == agent_governance_violations(pair)
           IN  /\ v \subseteq FactViolations
               /\ "controlled tool" \in v <=> b.tool.of # controlled_tool_digest.of
               /\ allow(pair) = (v = {})
<1> DEFINE pair == <<t, s>>
           v == agent_governance_violations(pair)
           tool == When(b.tool.of # controlled_tool_digest.of, "controlled tool")
<1>1. /\ DeploymentShape(s) /\ DeploymentViolations(s) = tool
      /\ ResultShape(t) /\ tr_statement_valid(s, c, t) /\ Claims(t, c.id)
      /\ t.predicateType = TestResultType /\ s.predicateType = DeploymentType
      /\ s.predicate = b /\ b.cases = <<c>>
  <2>1. DeploymentShape(s) /\ DeploymentViolations(s) = tool
    BY DeploymentReadable
  <2>2. /\ ResultShape(t) /\ tr_statement_valid(s, c, t) /\ Claims(t, c.id)
        /\ t.predicateType = TestResultType
    BY ResultReadable
  <2> QED BY <2>1, <2>2 DEF Complete
<1>2. DOMAIN pair = {1, 2} /\ pair[1] = t /\ pair[2] = s /\ IsSequence(pair)
  BY DEF IsSequence, ToSet
<1>3. ValidCase(b, c)
  BY DEF Complete, Validate, ValidConformance
<1> HIDE DEF pair
<1>4. deployment_statements(pair) = {2} /\ case_test_results(pair, c) = {1}
  BY <1>1, <1>2 DEF deployment_statements, case_test_results, test_result_statements,
                    DeploymentType, TestResultType
<1>5. v = tool \cup CaseViolations(pair, s, c)
  <2>1. ToSet(s.predicate.cases) = {c}
    <3>0. DOMAIN <<c>> = {1} /\ <<c>>[1] = c
      OBVIOUS
    <3>1. DOMAIN b.cases = {1} /\ b.cases[1] = c
      BY <1>1, <3>0
    <3> QED BY <1>1, <3>1 DEF ToSet
  <2>2. v = DeploymentViolations(s) \cup UNION {CaseViolations(pair, s, x) : x \in {c}}
    BY <1>2, <1>4, <2>1, ReportsOfOne
  <2> QED BY <1>1, <2>2
<1>6. CaseViolations(pair, s, c) \subseteq FactViolations \ {"controlled tool"}
  <2>1. Cardinality(case_test_results(pair, c)) = 1
    BY <1>4, FS_Singleton
  <2>2. KindConsistent(b, c)
    BY <1>3 DEF ValidCase
  <2>3. ~ \E i \in case_test_results(pair, c) :
            case_test_results(pair, c) = {i} /\ ~ tr_statement_valid(s, c, pair[i])
    BY <1>1, <1>2, <1>4
  <2>4. case_test_results(pair, c) # {}
    BY <1>4
  <2>5. /\ ~ (c.kind = "allowed-action" /\ c.decision.state = "observed"
                /\ c.decision.verdict # "allow")
        /\ ~ (c.kind = "denied-action" /\ c.decision.state = "observed"
                /\ c.decision.verdict # "deny")
    BY <2>2 DEF KindConsistent, ObservedVerdict
  <2>6. ~ Cardinality(case_test_results(pair, c)) > 1
    BY <2>1
  <2> QED BY <2>3, <2>4, <2>5, <2>6 DEF CaseViolations, When, FactViolations
<1>7. v \subseteq FactViolations /\ ("controlled tool" \in v <=> b.tool.of # controlled_tool_digest.of)
  BY <1>5, <1>6 DEF When, FactViolations
<1>8. v = {} => PositivelyAdmitted(pair)
  <2>1. \A i \in DOMAIN pair : StatementShape(pair[i])
    BY <1>1, <1>2 DEF StatementShape, DeploymentType, TestResultType
  <2> QED BY <1>2, <2>1, AccountsAgree
<1>9. allow(pair) = (v = {})
  BY <1>8 DEF allow
<1> QED BY <1>7, <1>9 DEF pair

(* The Rego policy never refuses a pair that BuildCase derived for its shape *)
(* or linkage, and refuses its tool only when it is another than pinned.     *)
THEOREM TheGateReadsTheHelper == CanonSpec => []GateReadsTheHelper
<1>1. ASSUME CanonInv PROVE GateReadsTheHelper
  <2> DEFINE built == BuildCase(file)
             b == BodyOf(file)
             t == ResultOf(file)
             s == DeploymentOf(file)
  <2> SUFFICES ASSUME IsOk(built)
               PROVE  LET v == agent_governance_violations(<<Value(built).testResult,
                                                             Value(built).deployment>>)
                      IN  /\ v \subseteq FactViolations
                          /\ "controlled tool" \in v
                                <=> file.doc.tool.of # controlled_tool_digest.of
                          /\ allow(<<Value(built).testResult, Value(built).deployment>>) = (v = {})
    BY DEF GateReadsTheHelper
  <2>1. /\ built = Ok([evidence |-> b, deployment |-> s, testResult |-> t])
        /\ Facts(b) = Facts(file.doc)
    BY <1>1, Built DEF CanonInv
  <2>2. Complete(b, b.cases[1], t, s)
    BY <1>1, CompleteOf DEF CanonInv
  <2> HIDE DEF built, b, t, s
  <2>3. Value(built).testResult = t /\ Value(built).deployment = s
    BY <2>1, OkIs
  <2>4. b.tool.of = file.doc.tool.of
    BY <2>1 DEF Facts
  <2>5. LET v == agent_governance_violations(<<t, s>>)
        IN  /\ v \subseteq FactViolations
            /\ "controlled tool" \in v <=> b.tool.of # controlled_tool_digest.of
            /\ allow(<<t, s>>) = (v = {})
    BY <2>2, PairReadable
  <2> QED BY <2>3, <2>4, <2>5
<1> QED BY <1>1, CanonInvariant, PTL
===============================================================================
