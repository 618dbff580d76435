---------------------------- MODULE ListsProofs ----------------------------
EXTENDS Lists, SequencesExt, SequenceTheorems, WellFoundedInduction, TLAPS

(* Induction over the numbers, for a set instead of a property.              *)
LEMMA NatSetInduction ==
  ASSUME NEW T, 0 \in T, \A n \in Nat : n \in T => n + 1 \in T
  PROVE  \A n \in Nat : n \in T
<1> SUFFICES ASSUME NEW n \in Nat, n \notin T PROVE FALSE
  OBVIOUS
<1> DEFINE U == Nat \ T
<1>1. U \subseteq Nat /\ U # {}
  OBVIOUS
<1>2. PICK m \in U : \A k \in U : ~(<<k, m>> \in OpToRel(<, Nat))
  BY <1>1, NatLessThanWellFounded, WFMin
<1>3. \A k \in U : ~(k < m)
  BY <1>2 DEF OpToRel
<1>4. m # 0 /\ m - 1 \in Nat /\ m - 1 < m
  OBVIOUS
<1> QED
  BY <1>3, <1>4

(* A set of numbers that is not empty has a least one.                       *)
LEMMA NatMinimum ==
  ASSUME NEW S \in SUBSET Nat, S # {}
  PROVE  \E i \in S : \A j \in S : i <= j
<1>1. PICK m \in S : \A k \in S : ~(<<k, m>> \in OpToRel(<, Nat))
  BY NatLessThanWellFounded, WFMin
<1>2. \A k \in S : ~(k < m)
  BY <1>1 DEF OpToRel
<1>3. \A k \in S : m <= k
  BY <1>2
<1> QED
  BY <1>3

-----------------------------------------------------------------------------
(* The function that Kept computes with exists.                              *)
KeptUpTo(g, q, K, m) ==
  g = [i \in 0 .. m |-> IF i = 0 THEN <<>> ELSE IF i \in K THEN Append(g[i - 1], q[i]) ELSE g[i - 1]]

(* It exists for every number of entries looked at, one after the other.     *)
LEMMA KeptUpToExists ==
  ASSUME NEW q, NEW K
  PROVE  \A m \in Nat : \E g : KeptUpTo(g, q, K, m)
<1> DEFINE T == {m \in Nat : \E g : KeptUpTo(g, q, K, m)}
<1>1. 0 \in T
  <2> DEFINE g == [i \in 0 .. 0 |-> <<>>]
  <2>1. KeptUpTo(g, q, K, 0)
    BY DEF KeptUpTo
  <2> QED
    BY <2>1
<1>2. ASSUME NEW m \in Nat, m \in T PROVE m + 1 \in T
  <2>1. PICK g : KeptUpTo(g, q, K, m)
    BY <1>2
  <2> DEFINE h == [i \in 0 .. m + 1 |-> IF i = m + 1 THEN IF i \in K THEN Append(g[m], q[i]) ELSE g[m] ELSE g[i]]
  <2>2. \A i \in 0 .. m : h[i] = g[i]
    OBVIOUS
  <2>3. \A i \in 0 .. m : g[i] = IF i = 0 THEN <<>> ELSE IF i \in K THEN Append(g[i - 1], q[i]) ELSE g[i - 1]
    BY <2>1 DEF KeptUpTo
  <2>4. \A i \in 0 .. m + 1 : h[i] = IF i = 0 THEN <<>> ELSE IF i \in K THEN Append(h[i - 1], q[i]) ELSE h[i - 1]
    <3> TAKE i \in 0 .. m + 1
    <3>1. CASE i = m + 1
      <4>1. h[i] = (IF i \in K THEN Append(g[m], q[i]) ELSE g[m]) /\ i # 0 /\ h[i - 1] = g[m]
        BY <2>2, <3>1
      <4> HIDE DEF h
      <4> QED
        BY <4>1
    <3>2. CASE i \in 0 .. m
      <4>1. h[i] = g[i] /\ (i # 0 => i - 1 \in 0 .. m /\ h[i - 1] = g[i - 1])
        BY <2>2, <3>2
      <4> HIDE DEF h
      <4> QED
        BY <2>3, <3>2, <4>1
    <3> QED
      BY <3>1, <3>2
  <2>5. KeptUpTo(h, q, K, m + 1)
    BY <2>4 DEF KeptUpTo
  <2> HIDE DEF h
  <2> QED
    BY <2>5
<1> HIDE DEF T
<1>3. \A m \in Nat : m \in T
  BY <1>1, <1>2, NatSetInduction
<1> QED
  BY <1>3 DEF T

(* What Kept returns is its last value.                                      *)
LEMMA KeptIsLast ==
  ASSUME NEW S, NEW q \in Seq(S), NEW K
  PROVE  \E g : KeptUpTo(g, q, K, Len(q)) /\ Kept(q, K) = g[Len(q)]
<1> DEFINE g == CHOOSE g : KeptUpTo(g, q, K, Len(q))
<1>1. KeptUpTo(g, q, K, Len(q))
  BY KeptUpToExists, LenProperties
<1>2. Kept(q, K) = g[Len(q)]
  BY DEF Kept, KeptUpTo
<1> QED
  BY <1>1, <1>2

-----------------------------------------------------------------------------
(* r has the entries of q at the positions D, in their order: e says where   *)
(* each of them was.                                                         *)
Picks(r, e, q, D) ==
  /\ e \in [1 .. Len(r) -> D]
  /\ \A k \in 1 .. Len(r) : r[k] = q[e[k]]
  /\ \A k, l \in 1 .. Len(r) : k < l => e[k] < e[l]
  /\ \A i \in D : \E k \in 1 .. Len(r) : e[k] = i

(* An entry behind all that were picked is picked at the end.                *)
LEMMA PickOneMore ==
  ASSUME NEW S, NEW r \in Seq(S), NEW x \in S, NEW e, NEW q, NEW D \in SUBSET Nat, Picks(r, e, q, D),
         NEW i \in Nat, \A d \in D : d < i, q[i] = x
  PROVE  \E f : Picks(Append(r, x), f, q, D \cup {i})
<1> DEFINE n == Len(r)
           a == Append(r, x)
           f == [k \in 1 .. n + 1 |-> IF k = n + 1 THEN i ELSE e[k]]
<1>1. n \in Nat /\ Len(a) = n + 1 /\ a[n + 1] = x /\ \A k \in 1 .. n : a[k] = r[k]
  BY AppendProperties, LenProperties
<1>2. /\ \A k \in 1 .. n : f[k] = e[k] /\ f[k] \in D /\ f[k] < i
      /\ f[n + 1] = i
  <2>1. e \in [1 .. n -> D]
    BY DEF Picks
  <2>2. ASSUME NEW k \in 1 .. n PROVE f[k] = e[k] /\ e[k] \in D
    BY <1>1, <2>1
  <2>3. f[n + 1] = i
    BY <1>1
  <2> HIDE DEF f
  <2> QED
    BY <2>2, <2>3
<1>3. \A k \in 1 .. n + 1 : k \in 1 .. n \/ k = n + 1
  BY <1>1
<1>4. n + 1 \in 1 .. n + 1 /\ \A k \in 1 .. n : k \in 1 .. n + 1
  BY <1>1
<1>5. f \in [1 .. n + 1 -> D \cup {i}]
  <2> SUFFICES ASSUME NEW k \in 1 .. n + 1 PROVE f[k] \in D \cup {i}
    BY DEF f
  <2> HIDE DEF f
  <2> QED
    BY <1>2, <1>3
<1> HIDE DEF f, n, a
<1>6. \A k \in 1 .. n + 1 : a[k] = q[f[k]]
  BY <1>1, <1>2, <1>3 DEF Picks, n
<1>7. \A k, l \in 1 .. n + 1 : k < l => f[k] < f[l]
  <2> SUFFICES ASSUME NEW k \in 1 .. n + 1, NEW l \in 1 .. n + 1, k < l PROVE f[k] < f[l]
    OBVIOUS
  <2>1. k \in 1 .. n
    BY <1>1
  <2> QED
    BY <1>2, <1>3, <2>1 DEF Picks, n
<1>8. \A j \in D \cup {i} : \E k \in 1 .. n + 1 : f[k] = j
  <2> SUFFICES ASSUME NEW j \in D PROVE \E k \in 1 .. n + 1 : f[k] = j
    BY <1>2, <1>4
  <2>1. PICK k \in 1 .. n : e[k] = j
    BY DEF Picks, n
  <2> QED
    BY <1>2, <1>4, <2>1
<1>9. Picks(a, f, q, D \cup {i})
  BY <1>1, <1>5, <1>6, <1>7, <1>8 DEF Picks
<1> QED
  BY <1>9 DEF a

(* The first m entries have been looked at.                                  *)
KeptSoFar(g, q, K, S, m) ==
  m <= Len(q) => g[m] \in Seq(S) /\ \E e : Picks(g[m], e, q, (1 .. m) \cap K)

(* What Kept returns, for every sequence and every set of positions.         *)
LEMMA KeptFacts ==
  ASSUME NEW S, NEW q \in Seq(S), NEW K
  PROVE  /\ Kept(q, K) \in Seq(S)
         /\ \E e : Picks(Kept(q, K), e, q, DOMAIN q \cap K)
<1>0. Len(q) \in Nat /\ DOMAIN q = 1 .. Len(q) /\ \A i \in 1 .. Len(q) : q[i] \in S
  BY LenProperties, ElementOfSeq
<1>1. PICK g : KeptUpTo(g, q, K, Len(q)) /\ Kept(q, K) = g[Len(q)]
  BY KeptIsLast
<1>2. /\ g[0] = <<>>
      /\ \A i \in 1 .. Len(q) : g[i] = IF i \in K THEN Append(g[i - 1], q[i]) ELSE g[i - 1]
  <2>1. \A i \in 0 .. Len(q) : g[i] = IF i = 0 THEN <<>> ELSE IF i \in K THEN Append(g[i - 1], q[i]) ELSE g[i - 1]
    BY <1>1 DEF KeptUpTo
  <2>2. 0 \in 0 .. Len(q) /\ \A i \in 1 .. Len(q) : i \in 0 .. Len(q) /\ i # 0
    BY <1>0
  <2> QED
    BY <2>1, <2>2
<1> DEFINE T == {m \in Nat : KeptSoFar(g, q, K, S, m)}
<1>3. 0 \in T
  <2>1. g[0] \in Seq(S) /\ Len(g[0]) = 0
    BY <1>2, EmptySeq
  <2>2. Picks(g[0], [k \in {} |-> 0], q, (1 .. 0) \cap K)
    BY <2>1 DEF Picks
  <2> QED
    BY <2>1, <2>2 DEF KeptSoFar
<1>4. ASSUME NEW m \in Nat, m \in T PROVE m + 1 \in T
  <2>0. KeptSoFar(g, q, K, S, m)
    BY <1>4
  <2> SUFFICES ASSUME m + 1 <= Len(q)
               PROVE  g[m + 1] \in Seq(S) /\ \E e : Picks(g[m + 1], e, q, (1 .. m + 1) \cap K)
    <3>1. m + 1 \in Nat
      OBVIOUS
    <3>2. KeptSoFar(g, q, K, S, m + 1) => m + 1 \in T
      BY <3>1
    <3> QED
      BY <3>2, Zenon DEF KeptSoFar
  <2> HIDE DEF T
  <2>a. m <= Len(q)
    BY <1>0
  <2>1. g[m] \in Seq(S)
    BY <2>0, <2>a, Zenon DEF KeptSoFar
  <2>2. PICK e : Picks(g[m], e, q, (1 .. m) \cap K)
    BY <2>0, <2>a, Zenon DEF KeptSoFar
  <2>3. m + 1 \in 1 .. Len(q) /\ g[m + 1] = (IF m + 1 \in K THEN Append(g[m], q[m + 1]) ELSE g[m])
    <3>1. m + 1 \in 1 .. Len(q) /\ (m + 1) - 1 = m
      BY <1>0
    <3> QED
      BY <1>2, <3>1
  <2>4. CASE m + 1 \in K
    <3>1. (1 .. m + 1) \cap K = ((1 .. m) \cap K) \cup {m + 1}
      BY <2>4
    <3>2. (1 .. m) \cap K \in SUBSET Nat /\ \A d \in (1 .. m) \cap K : d < m + 1
      OBVIOUS
    <3>3. q[m + 1] \in S /\ m + 1 \in Nat
      BY <1>0, <2>3
    <3>4. \E f : Picks(Append(g[m], q[m + 1]), f, q, ((1 .. m) \cap K) \cup {m + 1})
      BY <2>1, <2>2, <3>2, <3>3, PickOneMore
    <3>5. Append(g[m], q[m + 1]) \in Seq(S)
      BY <2>1, <3>3, AppendProperties
    <3> QED
      BY <2>3, <2>4, <3>1, <3>4, <3>5
  <2>5. CASE m + 1 \notin K
    <3>1. (1 .. m + 1) \cap K = (1 .. m) \cap K
      BY <2>5
    <3> QED
      BY <2>1, <2>2, <2>3, <2>5, <3>1
  <2> QED
    BY <2>4, <2>5
<1> HIDE DEF T
<1>5. \A m \in Nat : m \in T
  BY <1>3, <1>4, NatSetInduction
<1>6. KeptSoFar(g, q, K, S, Len(q))
  BY <1>0, <1>5 DEF T
<1>7. Len(q) <= Len(q)
  BY <1>0
<1> QED
  BY <1>0, <1>1, <1>6, <1>7, Zenon DEF KeptSoFar

(* The same of a sequence without one of its entries.                        *)
LEMMA RemoveAtFacts ==
  ASSUME NEW S, NEW q \in Seq(S), NEW i \in DOMAIN q
  PROVE  /\ RemoveAt(q, i) \in Seq(S)
         /\ \E e : Picks(RemoveAt(q, i), e, q, DOMAIN q \ {i})
<1> DEFINE n == Len(q)
           r == RemoveAt(q, i)
           e == [k \in 1 .. n - 1 |-> IF k < i THEN k ELSE k + 1]
<1>0. n \in Nat /\ DOMAIN q = 1 .. n /\ i \in 1 .. n
  BY LenProperties
<1>1. /\ SubSeq(q, 1, i - 1) \in Seq(S) /\ Len(SubSeq(q, 1, i - 1)) = i - 1
      /\ \A k \in 1 .. i - 1 : SubSeq(q, 1, i - 1)[k] = q[k]
  BY <1>0, SubSeqProperties, ElementOfSeq
<1>2. /\ SubSeq(q, i + 1, n) \in Seq(S) /\ Len(SubSeq(q, i + 1, n)) = n - i
      /\ \A k \in 1 .. n - i : SubSeq(q, i + 1, n)[k] = q[i + k]
  BY <1>0, SubSeqProperties, ElementOfSeq, SMTT(30)
<1>3. r = SubSeq(q, 1, i - 1) \o SubSeq(q, i + 1, n)
  BY DEF RemoveAt
<1> HIDE DEF r
<1>4. r \in Seq(S) /\ Len(r) = n - 1
  BY <1>0, <1>1, <1>2, <1>3, ConcatProperties, SMTT(30)
<1>a. \A k \in 1 .. n - 1 : r[k] = IF k <= i - 1 THEN SubSeq(q, 1, i - 1)[k] ELSE SubSeq(q, i + 1, n)[k - (i - 1)]
  <2> DEFINE u == SubSeq(q, 1, i - 1)  v == SubSeq(q, i + 1, n)
  <2>1. u \in Seq(S) /\ v \in Seq(S) /\ Len(u) = i - 1 /\ Len(v) = n - i /\ r = u \o v
    BY <1>1, <1>2, <1>3
  <2> HIDE DEF u, v
  <2>2. \A k \in 1 .. Len(u) + Len(v) : r[k] = IF k <= Len(u) THEN u[k] ELSE v[k - Len(u)]
    BY <2>1, ConcatProperties
  <2>3. Len(u) + Len(v) = n - 1
    BY <1>0, <2>1
  <2> QED
    BY <2>1, <2>2, <2>3 DEF u, v
<1>5. ASSUME NEW k \in 1 .. n - 1 PROVE r[k] = q[e[k]] /\ e[k] \in 1 .. n /\ e[k] # i
  <2>1. CASE k < i
    <3>1. k \in 1 .. i - 1 /\ k <= i - 1 /\ e[k] = k
      BY <1>0, <2>1
    <3>2. r[k] = q[k]
      BY <1>1, <1>a, <3>1
    <3> QED
      BY <1>0, <2>1, <3>1, <3>2
  <2>2. CASE k >= i
    <3>1. ~(k <= i - 1) /\ k - (i - 1) \in 1 .. n - i /\ i + (k - (i - 1)) = k + 1 /\ e[k] = k + 1
      BY <1>0, <2>2
    <3>2. r[k] = SubSeq(q, i + 1, n)[k - (i - 1)]
      BY <1>a, <3>1
    <3>3. SubSeq(q, i + 1, n)[k - (i - 1)] = q[k + 1]
      BY <1>2, <3>1
    <3> QED
      BY <1>0, <2>2, <3>1, <3>2, <3>3
  <2> QED
    BY <1>0, <2>1, <2>2
<1>6. \A k, l \in 1 .. n - 1 : k < l => e[k] < e[l]
  BY <1>0
<1>7. \A j \in DOMAIN q \ {i} : \E k \in 1 .. n - 1 : e[k] = j
  <2> SUFFICES ASSUME NEW j \in DOMAIN q \ {i} PROVE \E k \in 1 .. n - 1 : e[k] = j
    OBVIOUS
  <2>1. CASE j < i
    <3>1. j \in 1 .. n - 1 /\ e[j] = j
      BY <1>0, <2>1
    <3> QED
      BY <3>1
  <2>2. CASE j > i
    <3>1. j - 1 \in 1 .. n - 1 /\ e[j - 1] = j
      BY <1>0, <2>2
    <3> QED
      BY <3>1
  <2> QED
    BY <1>0, <2>1, <2>2
<1>8. e \in [1 .. n - 1 -> DOMAIN q \ {i}]
  BY <1>0, <1>5
<1> HIDE DEF e
<1>9. Picks(r, e, q, DOMAIN q \ {i})
  BY <1>4, <1>5, <1>6, <1>7, <1>8 DEF Picks
<1> QED
  BY <1>4, <1>9 DEF r

-----------------------------------------------------------------------------
(* F gives a step from the result of the one before it and its number.       *)
Iterable(F, S, n) == \A s \in S, i \in 1 .. n : F[<<s, i>>] \in S
Iterates(g, F, b, n) == g[0] = b /\ \A i \in 1 .. n : g[i] = F[<<g[i - 1], i>>]

(* The function that computes the steps one after the other exists.          *)
LEMMA IterationExists ==
  ASSUME NEW S, NEW b \in S, NEW F, NEW n \in Nat, Iterable(F, S, n)
  PROVE  \E g \in [0 .. n -> S] : Iterates(g, F, b, n)
<1>0. \A s \in S, i \in 1 .. n : F[<<s, i>>] \in S
  BY DEF Iterable
<1> DEFINE T == {m \in Nat : m <= n => \E g \in [0 .. m -> S] : g[0] = b /\ \A i \in 1 .. m : g[i] = F[<<g[i - 1], i>>]}
<1>1. 0 \in T
  <2> DEFINE g == [i \in 0 .. 0 |-> b]
  <2>1. g \in [0 .. 0 -> S] /\ g[0] = b /\ \A i \in 1 .. 0 : g[i] = F[<<g[i - 1], i>>]
    OBVIOUS
  <2> HIDE DEF g
  <2> QED
    BY <2>1
<1>2. ASSUME NEW m \in Nat, m \in T PROVE m + 1 \in T
  <2> SUFFICES ASSUME m + 1 <= n
               PROVE  \E g \in [0 .. m + 1 -> S] : g[0] = b /\ \A i \in 1 .. m + 1 : g[i] = F[<<g[i - 1], i>>]
    OBVIOUS
  <2>1. PICK g \in [0 .. m -> S] : g[0] = b /\ \A i \in 1 .. m : g[i] = F[<<g[i - 1], i>>]
    BY <1>2
  <2> DEFINE x == F[<<g[m], m + 1>>]
             h == [i \in 0 .. m + 1 |-> IF i = m + 1 THEN x ELSE g[i]]
  <2>2. x \in S
    <3>1. g[m] \in S /\ m + 1 \in 1 .. n
      BY <2>1
    <3> QED
      BY <1>0, <3>1
  <2> HIDE DEF x
  <2>3. \A i \in 0 .. m : h[i] = g[i] /\ g[i] \in S
    BY <2>1
  <2>4. h[m + 1] = x
    OBVIOUS
  <2>5. h \in [0 .. m + 1 -> S]
    <3> SUFFICES ASSUME NEW i \in 0 .. m + 1 PROVE (IF i = m + 1 THEN x ELSE g[i]) \in S
      OBVIOUS
    <3>1. i = m + 1 \/ i \in 0 .. m
      OBVIOUS
    <3> QED
      BY <2>2, <2>3, <3>1
  <2> HIDE DEF h
  <2>6. ASSUME NEW i \in 1 .. m + 1 PROVE h[i] = F[<<h[i - 1], i>>]
    <3>1. CASE i = m + 1
      <4>1. i - 1 = m /\ m \in 0 .. m
        BY <3>1
      <4>2. h[i - 1] = g[m]
        BY <2>3, <4>1
      <4> QED
        BY <2>4, <3>1, <4>2 DEF x
    <3>2. CASE i # m + 1
      <4>1. i \in 1 .. m /\ i \in 0 .. m /\ i - 1 \in 0 .. m
        BY <3>2
      <4>2. h[i] = g[i] /\ h[i - 1] = g[i - 1]
        BY <2>3, <4>1
      <4> QED
        BY <2>1, <4>1, <4>2
    <3> QED
      BY <3>1, <3>2
  <2>7. h[0] = b
    BY <2>1, <2>3
  <2> QED
    BY <2>5, <2>6, <2>7
<1> HIDE DEF T
<1>3. n \in T
  BY <1>1, <1>2, NatSetInduction
<1> QED
  BY <1>3 DEF T, Iterates

(* A function over 1..n is a sequence of n.                                  *)
LEMMA FunctionIsSeq ==
  ASSUME NEW S, NEW n \in Nat, NEW f \in [1 .. n -> S]
  PROVE  f \in Seq(S) /\ Len(f) = n /\ DOMAIN f = 1 .. n
<1>1. f \in Seq(S)
  BY SeqDef
<1> QED
  BY <1>1, LenProperties

(* What joining two sequences gives.                                         *)
IsJoin(S, w, s, t) ==
  /\ w \in Seq(S) /\ Len(w) = Len(s) + Len(t)
  /\ \A i \in 1 .. Len(s) : w[i] = s[i]
  /\ \A i \in 1 .. Len(t) : w[Len(s) + i] = t[i]

(* A concatenation is one: the entries of the first, then of the second.     *)
LEMMA JoinIsJoin ==
  ASSUME NEW S, NEW s \in Seq(S), NEW t \in Seq(S)
  PROVE  IsJoin(S, s \o t, s, t)
<1>1. Len(s) \in Nat /\ Len(t) \in Nat
  BY LenProperties
<1>2. /\ s \o t \in Seq(S) /\ Len(s \o t) = Len(s) + Len(t)
      /\ \A i \in 1 .. Len(s) + Len(t) : (s \o t)[i] = IF i <= Len(s) THEN s[i] ELSE t[i - Len(s)]
  BY ConcatProperties
<1>3. \A i \in 1 .. Len(s) : (s \o t)[i] = s[i]
  BY <1>1, <1>2
<1>4. \A i \in 1 .. Len(t) : (s \o t)[Len(s) + i] = t[i]
  <2> TAKE i \in 1 .. Len(t)
  <2>1. Len(s) + i \in 1 .. Len(s) + Len(t) /\ ~(Len(s) + i <= Len(s)) /\ (Len(s) + i) - Len(s) = i
    BY <1>1
  <2> QED
    BY <1>2, <2>1
<1> QED
  BY <1>2, <1>3, <1>4 DEF IsJoin

-----------------------------------------------------------------------------
(* Induction over the length of a sequence, for a set instead of a property. *)
LEMMA SeqSetInduction ==
  ASSUME NEW S, NEW T, <<>> \in T,
         \A s \in Seq(S), x \in S : s \in T => Append(s, x) \in T
  PROVE  \A s \in Seq(S) : s \in T
<1> DEFINE U == {n \in Nat : \A s \in Seq(S) : Len(s) = n => s \in T}
<1>1. 0 \in U
  <2> SUFFICES ASSUME NEW s \in Seq(S), Len(s) = 0 PROVE s \in T
    OBVIOUS
  <2>1. s = <<>>
    BY EmptySeq
  <2> QED
    BY <2>1
<1>2. ASSUME NEW n \in Nat, n \in U PROVE n + 1 \in U
  <2> SUFFICES ASSUME NEW s \in Seq(S), Len(s) = n + 1 PROVE s \in T
    OBVIOUS
  <2>1. s # <<>>
    BY EmptySeq
  <2>2. PICK r \in Seq(S), x \in S : s = Append(r, x)
    BY <2>1, SequenceEmptyOrAppend
  <2>3. Len(r) = n
    <3>1. Len(s) = Len(r) + 1 /\ Len(r) \in Nat
      BY <2>2, AppendProperties, LenProperties
    <3> QED
      BY <3>1
  <2> QED
    BY <1>2, <2>2, <2>3
<1> HIDE DEF U
<1>3. \A n \in Nat : n \in U
  BY <1>1, <1>2, NatSetInduction
<1> QED
  BY <1>3, LenProperties DEF U

(* Two computations of Kept agree as far as the entries and positions do.    *)
LEMMA KeptUpToAgree ==
  ASSUME NEW q, NEW r, NEW K, NEW L, NEW n \in Nat, NEW m \in Nat, NEW g, NEW h,
         KeptUpTo(g, q, K, n), KeptUpTo(h, r, L, m), n <= m,
         \A i \in 1 .. n : q[i] = r[i] /\ (i \in K <=> i \in L)
  PROVE  g[n] = h[n]
<1> DEFINE T == {i \in Nat : i <= n => g[i] = h[i]}
<1>0. /\ \A i \in 0 .. n : g[i] = IF i = 0 THEN <<>> ELSE IF i \in K THEN Append(g[i - 1], q[i]) ELSE g[i - 1]
      /\ \A i \in 0 .. m : h[i] = IF i = 0 THEN <<>> ELSE IF i \in L THEN Append(h[i - 1], r[i]) ELSE h[i - 1]
  BY DEF KeptUpTo
<1>1. 0 \in T
  <2>1. 0 \in 0 .. n /\ 0 \in 0 .. m
    OBVIOUS
  <2>2. g[0] = <<>> /\ h[0] = <<>>
    BY <1>0, <2>1
  <2> QED
    BY <2>2
<1>2. ASSUME NEW i \in Nat, i \in T PROVE i + 1 \in T
  <2> SUFFICES ASSUME i + 1 <= n PROVE g[i + 1] = h[i + 1]
    OBVIOUS
  <2>1. i + 1 \in 0 .. n /\ i + 1 \in 0 .. m /\ i + 1 \in 1 .. n /\ i + 1 # 0 /\ (i + 1) - 1 = i
    OBVIOUS
  <2>2. g[i] = h[i]
    BY <1>2
  <2>3. /\ g[i + 1] = IF i + 1 \in K THEN Append(g[i], q[i + 1]) ELSE g[i]
        /\ h[i + 1] = IF i + 1 \in L THEN Append(h[i], r[i + 1]) ELSE h[i]
    BY <1>0, <2>1
  <2> QED
    BY <2>1, <2>2, <2>3
<1> HIDE DEF T
<1>3. n \in T
  BY <1>1, <1>2, NatSetInduction
<1> QED
  BY <1>3 DEF T

(* Kept looks at the positions of the sequence only.                         *)
LEMMA KeptSame ==
  ASSUME NEW S, NEW q \in Seq(S), NEW K, NEW L, \A i \in DOMAIN q : i \in K <=> i \in L
  PROVE  Kept(q, K) = Kept(q, L)
<1>0. Len(q) \in Nat /\ DOMAIN q = 1 .. Len(q)
  BY LenProperties
<1>1. PICK g : KeptUpTo(g, q, K, Len(q)) /\ Kept(q, K) = g[Len(q)]
  BY KeptIsLast
<1>2. PICK h : KeptUpTo(h, q, L, Len(q)) /\ Kept(q, L) = h[Len(q)]
  BY KeptIsLast
<1>3. g[Len(q)] = h[Len(q)]
  BY <1>0, <1>1, <1>2, KeptUpToAgree
<1> QED
  BY <1>1, <1>2, <1>3

(* An entry at the end is kept at the end, or not.                           *)
LEMMA KeptAppend ==
  ASSUME NEW S, NEW q \in Seq(S), NEW x \in S, NEW K
  PROVE  Kept(Append(q, x), K) = IF Len(q) + 1 \in K THEN Append(Kept(q, K), x) ELSE Kept(q, K)
<1> DEFINE n == Len(q)
           a == Append(q, x)
<1>0. n \in Nat /\ a \in Seq(S) /\ Len(a) = n + 1 /\ a[n + 1] = x /\ \A i \in 1 .. n : a[i] = q[i]
  BY LenProperties, AppendProperties
<1>1. PICK g : KeptUpTo(g, q, K, n) /\ Kept(q, K) = g[n]
  BY KeptIsLast
<1>2. PICK h : KeptUpTo(h, a, K, n + 1) /\ Kept(a, K) = h[n + 1]
  BY <1>0, KeptIsLast
<1> HIDE DEF n, a
<1>3. g[n] = h[n]
  <2>1. n + 1 \in Nat /\ n <= n + 1 /\ \A i \in 1 .. n : q[i] = a[i] /\ (i \in K <=> i \in K)
    BY <1>0
  <2> QED
    BY <1>0, <1>1, <1>2, <2>1, KeptUpToAgree
<1>4. h[n + 1] = IF n + 1 \in K THEN Append(h[n], a[n + 1]) ELSE h[n]
  <2>1. n + 1 \in 0 .. n + 1 /\ n + 1 # 0 /\ (n + 1) - 1 = n
    BY <1>0
  <2>2. \A i \in 0 .. n + 1 : h[i] = IF i = 0 THEN <<>> ELSE IF i \in K THEN Append(h[i - 1], a[i]) ELSE h[i - 1]
    BY <1>2 DEF KeptUpTo
  <2> QED
    BY <2>1, <2>2
<1> QED
  BY <1>0, <1>1, <1>2, <1>3, <1>4 DEF n, a

LEMMA ConcatAppend ==
  ASSUME NEW S, NEW s \in Seq(S), NEW t \in Seq(S), NEW x \in S
  PROVE  s \o Append(t, x) = Append(s \o t, x)
<1>1. <<x>> \in Seq(S) /\ s \o t \in Seq(S)
  BY EmptySeq, AppendProperties, ConcatProperties
<1>2. s \o Append(t, x) = s \o (t \o <<x>>)
  BY AppendIsConcat
<1>3. (s \o t) \o <<x>> = s \o (t \o <<x>>)
  BY <1>1, ConcatAssociative
<1>4. Append(s \o t, x) = (s \o t) \o <<x>>
  BY <1>1, AppendIsConcat
<1> QED
  BY <1>2, <1>3, <1>4

-----------------------------------------------------------------------------
(* The entries of q that are in P, in their order.                           *)
Those(q, P) == Kept(q, {i \in DOMAIN q : q[i] \in P})

LEMMA ThoseNone ==
  ASSUME NEW S, NEW q \in Seq(S), NEW P, \A i \in DOMAIN q : q[i] \notin P
  PROVE  Those(q, P) = <<>>
<1> DEFINE k == Those(q, P)
<1>1. k \in Seq(S) /\ \E e : Picks(k, e, q, {})
  <2>1. {i \in DOMAIN q : q[i] \in P} = {} /\ DOMAIN q \cap {} = {}
    OBVIOUS
  <2>2. Kept(q, {}) \in Seq(S) /\ \E e : Picks(Kept(q, {}), e, q, DOMAIN q \cap {})
    BY KeptFacts
  <2> QED
    BY <2>1, <2>2 DEF Those
<1> HIDE DEF k
<1>2. \A i \in 1 .. Len(k) : FALSE
  BY <1>1 DEF Picks
<1>3. Len(k) = 0
  <2>1. Len(k) \in Nat
    BY <1>1, LenProperties
  <2> QED
    BY <1>2, <2>1
<1>4. k = <<>>
  BY <1>1, <1>3, EmptySeq
<1> QED
  BY <1>4 DEF k

LEMMA ThoseEmpty ==
  ASSUME NEW P
  PROVE  Those(<<>>, P) = <<>>
<1>1. <<>> \in Seq({}) /\ \A i \in DOMAIN <<>> : FALSE
  BY EmptySeq, LenProperties
<1> QED
  BY <1>1, ThoseNone

LEMMA ThoseAppend ==
  ASSUME NEW S, NEW q \in Seq(S), NEW x \in S, NEW P
  PROVE  Those(Append(q, x), P) = IF x \in P THEN Append(Those(q, P), x) ELSE Those(q, P)
<1> DEFINE n == Len(q)
           a == Append(q, x)
           K == {i \in DOMAIN a : a[i] \in P}
<1>0. /\ n \in Nat /\ a \in Seq(S) /\ Len(a) = n + 1 /\ a[n + 1] = x /\ \A i \in 1 .. n : a[i] = q[i]
      /\ DOMAIN q = 1 .. n /\ DOMAIN a = 1 .. n + 1
  BY LenProperties, AppendProperties
<1>1. Kept(a, K) = IF n + 1 \in K THEN Append(Kept(q, K), x) ELSE Kept(q, K)
  <2>1. ASSUME NEW J PROVE Kept(Append(q, x), J) = IF Len(q) + 1 \in J THEN Append(Kept(q, J), x) ELSE Kept(q, J)
    BY KeptAppend
  <2> HIDE DEF K
  <2> QED
    BY <2>1
<1>2. n + 1 \in K <=> x \in P
  <2> HIDE DEF a
  <2> QED
    BY <1>0
<1>3. Kept(q, K) = Those(q, P)
  <2>1. \A i \in DOMAIN q : i \in K <=> i \in {j \in DOMAIN q : q[j] \in P}
    <3> HIDE DEF a
    <3> QED
      BY <1>0
  <2> HIDE DEF K
  <2> QED
    BY <2>1, KeptSame DEF Those
<1>4. Those(a, P) = Kept(a, K)
  BY DEF Those
<1> HIDE DEF a, K
<1>5. Those(a, P) = IF x \in P THEN Append(Those(q, P), x) ELSE Those(q, P)
  BY <1>1, <1>2, <1>3, <1>4 DEF n
<1> QED
  BY <1>5 DEF a

LEMMA ThoseTyped ==
  ASSUME NEW S, NEW P
  PROVE  \A q \in Seq(S) : Those(q, P) \in Seq(S \cap P)
<1> DEFINE T == {q \in Seq(S) : Those(q, P) \in Seq(S \cap P)}
<1>1. <<>> \in T
  BY ThoseEmpty, EmptySeq
<1>2. ASSUME NEW q \in Seq(S), NEW x \in S, q \in T PROVE Append(q, x) \in T
  <2>1. Append(q, x) \in Seq(S) /\ Those(q, P) \in Seq(S \cap P)
    BY <1>2, AppendProperties
  <2>2. Those(Append(q, x), P) = IF x \in P THEN Append(Those(q, P), x) ELSE Those(q, P)
    BY ThoseAppend
  <2>3. x \in P => Append(Those(q, P), x) \in Seq(S \cap P)
    <3> DEFINE r == Those(q, P)  U == S \cap P
    <3>1. r \in Seq(U) /\ (x \in P => x \in U)
      BY <2>1
    <3> HIDE DEF r, U
    <3>2. x \in P => Append(r, x) \in Seq(U)
      BY <3>1, AppendProperties
    <3> QED
      BY <3>2 DEF r, U
  <2>4. Those(Append(q, x), P) \in Seq(S \cap P)
    BY <2>1, <2>2, <2>3
  <2> QED
    BY <2>1, <2>4
<1> HIDE DEF T
<1>3. \A q \in Seq(S) : q \in T
  BY <1>1, <1>2, SeqSetInduction
<1> QED
  BY <1>3 DEF T

(* What is in a list is among those of P in it, if it is in P.               *)
LEMMA ThoseHas ==
  ASSUME NEW S, NEW q \in Seq(S), NEW P, NEW i \in DOMAIN q, q[i] \in P
  PROVE  \E k \in DOMAIN Those(q, P) : Those(q, P)[k] = q[i]
<1> DEFINE K == {j \in DOMAIN q : q[j] \in P}
           r == Those(q, P)
<1>1. r \in Seq(S) /\ \E e : Picks(r, e, q, DOMAIN q \cap K)
  BY KeptFacts DEF Those
<1>2. i \in DOMAIN q \cap K
  OBVIOUS
<1> HIDE DEF K, r
<1>3. PICK e : Picks(r, e, q, DOMAIN q \cap K)
  BY <1>1
<1>4. PICK k \in 1 .. Len(r) : e[k] = i
  BY <1>2, <1>3 DEF Picks
<1>5. r[k] = q[i] /\ k \in DOMAIN r
  BY <1>1, <1>3, <1>4, LenProperties DEF Picks
<1>6. \E j \in DOMAIN r : r[j] = q[i]
  BY <1>5
<1> QED
  BY <1>6 DEF r

LEMMA ThoseConcat ==
  ASSUME NEW S, NEW s \in Seq(S), NEW P
  PROVE  \A t \in Seq(S) : Those(s \o t, P) = Those(s, P) \o Those(t, P)
<1> DEFINE T == {t \in Seq(S) : Those(s \o t, P) = Those(s, P) \o Those(t, P)}
<1>0. \A t \in Seq(S) : Those(t, P) \in Seq(S)
  <2>1. \A q \in Seq(S \cap P) : q \in Seq(S)
    BY SeqMonotonic
  <2> QED
    BY <2>1, ThoseTyped
<1>1. <<>> \in T
  <2>1. s \o <<>> = s /\ Those(s, P) \o <<>> = Those(s, P) /\ <<>> \in Seq(S)
    BY <1>0, ConcatEmptySeq, EmptySeq
  <2> QED
    BY <2>1, ThoseEmpty
<1>2. ASSUME NEW t \in Seq(S), NEW x \in S, t \in T PROVE Append(t, x) \in T
  <2>1. Append(t, x) \in Seq(S) /\ s \o t \in Seq(S) /\ Those(s \o t, P) = Those(s, P) \o Those(t, P)
    BY <1>2, AppendProperties, ConcatProperties
  <2>2. s \o Append(t, x) = Append(s \o t, x)
    BY ConcatAppend
  <2>3. Those(Append(s \o t, x), P) = IF x \in P THEN Append(Those(s \o t, P), x) ELSE Those(s \o t, P)
    <3> DEFINE w == s \o t
    <3>1. w \in Seq(S)
      BY <2>1
    <3> HIDE DEF w, T
    <3>2. Those(Append(w, x), P) = IF x \in P THEN Append(Those(w, P), x) ELSE Those(w, P)
      BY <3>1, ThoseAppend
    <3> QED
      BY <3>2 DEF w
  <2>4. Those(Append(t, x), P) = IF x \in P THEN Append(Those(t, P), x) ELSE Those(t, P)
    BY ThoseAppend
  <2>5. Append(Those(s, P) \o Those(t, P), x) = Those(s, P) \o Append(Those(t, P), x)
    <3> DEFINE u == Those(s, P)  v == Those(t, P)
    <3>1. u \in Seq(S) /\ v \in Seq(S)
      BY <1>0
    <3> HIDE DEF u, v, T
    <3>2. u \o Append(v, x) = Append(u \o v, x)
      BY <3>1, ConcatAppend
    <3> QED
      BY <3>2 DEF u, v
  <2>6. Those(s \o Append(t, x), P) = Those(s, P) \o Those(Append(t, x), P)
    BY <2>1, <2>2, <2>3, <2>4, <2>5
  <2> QED
    BY <2>1, <2>6
<1> HIDE DEF T
<1>3. \A t \in Seq(S) : t \in T
  BY <1>1, <1>2, SeqSetInduction
<1> QED
  BY <1>3 DEF T

-----------------------------------------------------------------------------
(* The function that FlattenSeq computes with.                               *)
FlatUpTo(g, q, m) == g = [i \in 1 .. m |-> IF i = 1 THEN q[i] ELSE g[i - 1] \o q[i]]

LEMMA FlatUpToExists ==
  ASSUME NEW q
  PROVE  \A m \in Nat : \E g : FlatUpTo(g, q, m)
<1> DEFINE T == {m \in Nat : \E g : FlatUpTo(g, q, m)}
<1>1. 0 \in T
  <2> DEFINE g == [i \in 1 .. 0 |-> <<>>]
  <2>1. FlatUpTo(g, q, 0)
    BY DEF FlatUpTo
  <2> QED
    BY <2>1
<1>2. ASSUME NEW m \in Nat, m \in T PROVE m + 1 \in T
  <2>1. PICK g : FlatUpTo(g, q, m)
    BY <1>2
  <2> DEFINE h == [i \in 1 .. m + 1 |-> IF i = m + 1 THEN IF i = 1 THEN q[i] ELSE g[m] \o q[i] ELSE g[i]]
  <2>2. \A i \in 1 .. m : h[i] = g[i]
    OBVIOUS
  <2>3. \A i \in 1 .. m : g[i] = IF i = 1 THEN q[i] ELSE g[i - 1] \o q[i]
    BY <2>1 DEF FlatUpTo
  <2>4. \A i \in 1 .. m + 1 : h[i] = IF i = 1 THEN q[i] ELSE h[i - 1] \o q[i]
    <3> TAKE i \in 1 .. m + 1
    <3>1. CASE i = m + 1
      <4>1. h[i] = (IF i = 1 THEN q[i] ELSE g[m] \o q[i]) /\ (i # 1 => h[i - 1] = g[m])
        BY <2>2, <3>1
      <4> HIDE DEF h
      <4> QED
        BY <4>1
    <3>2. CASE i \in 1 .. m
      <4>1. h[i] = g[i] /\ (i # 1 => i - 1 \in 1 .. m /\ h[i - 1] = g[i - 1])
        BY <2>2, <3>2
      <4> HIDE DEF h
      <4> QED
        BY <2>3, <3>2, <4>1
    <3> QED
      BY <3>1, <3>2
  <2>5. FlatUpTo(h, q, m + 1)
    BY <2>4 DEF FlatUpTo
  <2> HIDE DEF h
  <2> QED
    BY <2>5
<1> HIDE DEF T
<1>3. \A m \in Nat : m \in T
  BY <1>1, <1>2, NatSetInduction
<1> QED
  BY <1>3 DEF T

LEMMA FlattenIsLast ==
  ASSUME NEW S, NEW q \in Seq(S), q # <<>>
  PROVE  \E g : FlatUpTo(g, q, Len(q)) /\ FlattenSeq(q) = g[Len(q)]
<1> DEFINE g == CHOOSE g : FlatUpTo(g, q, Len(q))
<1>1. FlatUpTo(g, q, Len(q))
  BY FlatUpToExists, LenProperties
<1>2. Len(q) # 0
  BY EmptySeq
<1>3. FlattenSeq(q) = g[Len(q)]
  BY <1>2 DEF FlattenSeq, FlatUpTo
<1> QED
  BY <1>1, <1>3

(* The computation for a list and for the same list with one more agree.     *)
LEMMA FlatUpToAgree ==
  ASSUME NEW q, NEW r, NEW n \in Nat, NEW m \in Nat, NEW g, NEW h,
         FlatUpTo(g, q, n), FlatUpTo(h, r, m), n <= m, \A i \in 1 .. n : q[i] = r[i]
  PROVE  n # 0 => g[n] = h[n]
<1> DEFINE T == {i \in Nat : i \in 1 .. n => g[i] = h[i]}
<1>0. /\ \A i \in 1 .. n : g[i] = IF i = 1 THEN q[i] ELSE g[i - 1] \o q[i]
      /\ \A i \in 1 .. m : h[i] = IF i = 1 THEN r[i] ELSE h[i - 1] \o r[i]
  BY DEF FlatUpTo
<1>1. 0 \in T
  OBVIOUS
<1>2. ASSUME NEW i \in Nat, i \in T PROVE i + 1 \in T
  <2> SUFFICES ASSUME i + 1 \in 1 .. n PROVE g[i + 1] = h[i + 1]
    OBVIOUS
  <2>1. i + 1 \in 1 .. m /\ (i + 1) - 1 = i /\ (i + 1 # 1 => i \in 1 .. n)
    OBVIOUS
  <2>2. i + 1 # 1 => g[i] = h[i]
    BY <1>2, <2>1
  <2>3. /\ g[i + 1] = IF i + 1 = 1 THEN q[i + 1] ELSE g[i] \o q[i + 1]
        /\ h[i + 1] = IF i + 1 = 1 THEN r[i + 1] ELSE h[i] \o r[i + 1]
    BY <1>0, <2>1
  <2> QED
    BY <2>2, <2>3
<1> HIDE DEF T
<1>3. \A i \in Nat : i \in T
  BY <1>1, <1>2, NatSetInduction
<1>4. n # 0 => n \in 1 .. n
  OBVIOUS
<1> QED
  BY <1>3, <1>4 DEF T

(* One more list is joined at the end.                                       *)
LEMMA FlattenAppend ==
  ASSUME NEW S, NEW q \in Seq(Seq(S)), NEW t \in Seq(S)
  PROVE  FlattenSeq(Append(q, t)) = IF q = <<>> THEN t ELSE FlattenSeq(q) \o t
<1> DEFINE n == Len(q)
           a == Append(q, t)
<1>0. /\ n \in Nat /\ a \in Seq(Seq(S)) /\ a # <<>> /\ Len(a) = n + 1 /\ a[n + 1] = t
      /\ \A i \in 1 .. n : a[i] = q[i]
      /\ q = <<>> <=> n = 0
  BY LenProperties, AppendProperties, EmptySeq
<1>1. PICK h : FlatUpTo(h, a, n + 1) /\ FlattenSeq(a) = h[n + 1]
  BY <1>0, FlattenIsLast
<1> HIDE DEF a
<1>2. h[n + 1] = IF n + 1 = 1 THEN t ELSE h[n] \o t
  <2>1. \A i \in 1 .. n + 1 : h[i] = IF i = 1 THEN a[i] ELSE h[i - 1] \o a[i]
    BY <1>1 DEF FlatUpTo
  <2>2. n + 1 \in 1 .. n + 1 /\ (n + 1) - 1 = n
    BY <1>0
  <2> QED
    BY <1>0, <2>1, <2>2
<1>3. CASE q = <<>>
  <2>1. n + 1 = 1
    BY <1>0, <1>3
  <2> QED
    BY <1>1, <1>2, <1>3, <2>1 DEF a
<1>4. CASE q # <<>>
  <2>1. PICK g : FlatUpTo(g, q, n) /\ FlattenSeq(q) = g[n]
    BY <1>4, FlattenIsLast
  <2>2. n # 0 => g[n] = h[n]
    <3>1. PICK m : m = n + 1
      OBVIOUS
    <3>2. n \in Nat /\ m \in Nat /\ n <= m /\ \A i \in 1 .. n : q[i] = a[i]
      BY <1>0, <3>1
    <3>3. FlatUpTo(g, q, n) /\ FlatUpTo(h, a, m)
      BY <1>1, <2>1, <3>1
    <3> HIDE DEF n
    <3> QED
      BY <3>2, <3>3, FlatUpToAgree
  <2>3. n # 0 /\ n + 1 # 1
    BY <1>0, <1>4
  <2>4. FlattenSeq(a) = FlattenSeq(q) \o t
    BY <1>1, <1>2, <2>1, <2>2, <2>3
  <2>5. FlattenSeq(Append(q, t)) = FlattenSeq(q) \o t
    BY <2>4 DEF a
  <2> QED
    BY <1>4, <2>5
<1> QED
  BY <1>3, <1>4

-----------------------------------------------------------------------------
(* The lists that F gives for the entries of q, joined.                      *)
Mapped(F, q) == [i \in DOMAIN q |-> F[q[i]]]
Each(F, q) == FlattenSeq(Mapped(F, q))
Gives(F, S, R) == F \in [S -> R]

LEMMA MappedFacts ==
  ASSUME NEW S, NEW R, NEW F, Gives(F, S, R), NEW q \in Seq(S)
  PROVE  /\ Mapped(F, q) \in Seq(R) /\ Len(Mapped(F, q)) = Len(q)
         /\ \A i \in 1 .. Len(q) : Mapped(F, q)[i] = F[q[i]]
<1>0. Len(q) \in Nat /\ DOMAIN q = 1 .. Len(q) /\ \A i \in 1 .. Len(q) : q[i] \in S
  BY LenProperties, ElementOfSeq
<1>1. Mapped(F, q) \in [1 .. Len(q) -> R]
  BY <1>0 DEF Mapped, Gives
<1>2. Mapped(F, q) \in Seq(R) /\ Len(Mapped(F, q)) = Len(q)
  BY <1>0, <1>1, FunctionIsSeq
<1> QED
  BY <1>0, <1>2 DEF Mapped

LEMMA EachEmpty ==
  ASSUME NEW F
  PROVE  Each(F, <<>>) = <<>>
<1>0. <<>> \in Seq({}) /\ [x \in {} |-> <<>>] \in [{} -> {}]
  BY EmptySeq
<1>1. Mapped(F, <<>>) = <<>>
  <2>1. DOMAIN <<>> = {}
    BY <1>0, EmptySeq, LenProperties
  <2>2. Mapped(F, <<>>) \in [1 .. 0 -> {}]
    BY <2>1 DEF Mapped
  <2>3. Mapped(F, <<>>) \in Seq({}) /\ Len(Mapped(F, <<>>)) = 0
    BY <2>2, FunctionIsSeq
  <2> QED
    BY <2>3, EmptySeq
<1>2. FlattenSeq(<<>>) = <<>>
  BY EmptySeq DEF FlattenSeq
<1> QED
  BY <1>1, <1>2 DEF Each

LEMMA EachAppendMapped ==
  ASSUME NEW S, NEW R, NEW F, Gives(F, S, Seq(R)), NEW q \in Seq(S), NEW x \in S
  PROVE  Each(F, Append(q, x)) = IF q = <<>> THEN F[x] ELSE Each(F, q) \o F[x]
<1> DEFINE m == Mapped(F, q)
           a == Append(q, x)
           ma == Mapped(F, a)
           b == Append(m, F[x])
<1>0. /\ Len(q) \in Nat /\ a \in Seq(S) /\ Len(a) = Len(q) + 1 /\ a[Len(q) + 1] = x
      /\ \A i \in 1 .. Len(q) : a[i] = q[i]
  BY LenProperties, AppendProperties
<1>a. \A p \in Seq(S) : /\ Mapped(F, p) \in Seq(Seq(R)) /\ Len(Mapped(F, p)) = Len(p)
                         /\ \A i \in 1 .. Len(p) : Mapped(F, p)[i] = F[p[i]]
  BY MappedFacts
<1>1. m \in Seq(Seq(R)) /\ Len(m) = Len(q) /\ \A i \in 1 .. Len(q) : m[i] = F[q[i]]
  BY <1>a
<1> HIDE DEF a, m
<1>2. ma \in Seq(Seq(R)) /\ Len(ma) = Len(q) + 1 /\ \A i \in 1 .. Len(q) + 1 : ma[i] = F[a[i]]
  <2>1. ma \in Seq(Seq(R)) /\ Len(ma) = Len(a) /\ \A i \in 1 .. Len(a) : ma[i] = F[a[i]]
    BY <1>0, <1>a
  <2> QED
    BY <1>0, <2>1
<1>3. /\ b \in Seq(Seq(R)) /\ Len(b) = Len(q) + 1 /\ b[Len(q) + 1] = F[x]
      /\ \A i \in 1 .. Len(q) : b[i] = m[i]
  <2>1. F[x] \in Seq(R)
    BY DEF Gives
  <2> QED
    BY <1>1, <2>1, AppendProperties
<1> HIDE DEF ma, b
<1>4. \A i \in 1 .. Len(q) + 1 : ma[i] = b[i]
  <2> SUFFICES ASSUME NEW i \in 1 .. Len(q) + 1 PROVE ma[i] = b[i]
    OBVIOUS
  <2>1. CASE i = Len(q) + 1
    BY <1>0, <1>2, <1>3, <2>1
  <2>2. CASE i # Len(q) + 1
    <3>1. i \in 1 .. Len(q)
      BY <1>0, <2>2
    <3>2. ma[i] = F[a[i]] /\ a[i] = q[i]
      BY <1>0, <1>2, <3>1
    <3>3. b[i] = m[i] /\ m[i] = F[q[i]]
      BY <1>1, <1>3, <3>1
    <3> QED
      BY <3>2, <3>3
  <2> QED
    BY <2>1, <2>2
<1>5. ma = b
  BY <1>2, <1>3, <1>4, SeqEqual
<1>6. FlattenSeq(b) = IF m = <<>> THEN F[x] ELSE FlattenSeq(m) \o F[x]
  <2>1. F[x] \in Seq(R)
    BY DEF Gives
  <2> QED
    BY <1>1, <2>1, FlattenAppend DEF b
<1>7. m = <<>> <=> q = <<>>
  BY <1>1, EmptySeq
<1> QED
  BY <1>5, <1>6, <1>7 DEF Each, ma, m, a

LEMMA EachTyped ==
  ASSUME NEW S, NEW R, NEW F, Gives(F, S, Seq(R))
  PROVE  \A q \in Seq(S) : Each(F, q) \in Seq(R)
<1> DEFINE T == {q \in Seq(S) : Each(F, q) \in Seq(R)}
<1>1. <<>> \in T
  BY EachEmpty, EmptySeq
<1>2. ASSUME NEW q \in Seq(S), NEW x \in S, q \in T PROVE Append(q, x) \in T
  <2>1. Append(q, x) \in Seq(S) /\ Each(F, q) \in Seq(R) /\ F[x] \in Seq(R)
    BY <1>2, AppendProperties DEF Gives
  <2>2. Each(F, q) \o F[x] \in Seq(R)
    BY <2>1, ConcatProperties
  <2>3. Each(F, Append(q, x)) = IF q = <<>> THEN F[x] ELSE Each(F, q) \o F[x]
    BY EachAppendMapped
  <2> QED
    BY <2>1, <2>2, <2>3
<1> HIDE DEF T
<1>3. \A q \in Seq(S) : q \in T
  BY <1>1, <1>2, SeqSetInduction
<1> QED
  BY <1>3 DEF T

LEMMA EachAppend ==
  ASSUME NEW S, NEW R, NEW F, Gives(F, S, Seq(R)), NEW q \in Seq(S), NEW x \in S
  PROVE  Each(F, Append(q, x)) = Each(F, q) \o F[x]
<1>1. CASE q = <<>>
  <2> DEFINE y == F[x]
             e == Each(F, q)
  <2>1. y \in Seq(R)
    BY DEF Gives
  <2>2. e = <<>>
    BY <1>1, EachEmpty
  <2>3. Each(F, Append(q, x)) = y
    BY <1>1, EachAppendMapped, ZenonT(30)
  <2> HIDE DEF y, e
  <2>4. e \o y = y
    BY <2>1, <2>2, ConcatEmptySeq
  <2>5. Each(F, Append(q, x)) = e \o y
    BY <2>3, <2>4
  <2> QED
    BY <2>5 DEF y, e
<1>2. CASE q # <<>>
  BY <1>2, EachAppendMapped
<1> QED
  BY <1>1, <1>2

LEMMA EachConcat ==
  ASSUME NEW S, NEW R, NEW F, Gives(F, S, Seq(R)), NEW s \in Seq(S)
  PROVE  \A t \in Seq(S) : Each(F, s \o t) = Each(F, s) \o Each(F, t)
<1> DEFINE T == {t \in Seq(S) : Each(F, s \o t) = Each(F, s) \o Each(F, t)}
<1>0. \A t \in Seq(S) : Each(F, t) \in Seq(R)
  BY EachTyped
<1>1. <<>> \in T
  <2>1. s \o <<>> = s /\ Each(F, s) \o <<>> = Each(F, s) /\ <<>> \in Seq(S)
    BY <1>0, ConcatEmptySeq, EmptySeq
  <2> QED
    BY <2>1, EachEmpty
<1>2. ASSUME NEW t \in Seq(S), NEW x \in S, t \in T PROVE Append(t, x) \in T
  <2> DEFINE w == s \o t
             u == Each(F, s)
             v == Each(F, t)
             y == F[x]
  <2>1. /\ Append(t, x) \in Seq(S) /\ w \in Seq(S) /\ Each(F, w) = u \o v
        /\ u \in Seq(R) /\ v \in Seq(R) /\ y \in Seq(R)
    BY <1>0, <1>2, AppendProperties, ConcatProperties DEF Gives
  <2>2. s \o Append(t, x) = Append(w, x)
    BY ConcatAppend
  <2>3. Each(F, Append(t, x)) = v \o y
    BY EachAppend
  <2> HIDE DEF w, T
  <2>4. Each(F, Append(w, x)) = Each(F, w) \o y
    <3>1. w \in Seq(S)
      BY <2>1
    <3> HIDE DEF y, u, v
    <3>2. Each(F, Append(w, x)) = Each(F, w) \o F[x]
      BY <3>1, EachAppend
    <3> QED
      BY <3>2 DEF y
  <2> HIDE DEF u, v, y
  <2>5. (u \o v) \o y = u \o (v \o y)
    BY <2>1, ConcatAssociative, SMTT(30)
  <2>6. Each(F, s \o Append(t, x)) = u \o Each(F, Append(t, x))
    BY <2>1, <2>2, <2>3, <2>4, <2>5
  <2> QED
    BY <2>1, <2>6 DEF T, u
<1> HIDE DEF T
<1>3. \A t \in Seq(S) : t \in T
  BY <1>1, <1>2, SeqSetInduction
<1> QED
  BY <1>3 DEF T

(* The joined list has what F gives for each of the entries.                 *)
LEMMA EachHas ==
  ASSUME NEW S, NEW R, NEW F, Gives(F, S, Seq(R))
  PROVE  \A q \in Seq(S) : \A i \in DOMAIN q : \A c \in DOMAIN F[q[i]] :
           \E k \in DOMAIN Each(F, q) : Each(F, q)[k] = F[q[i]][c]
<1> DEFINE Has(q) == \A i \in DOMAIN q : \A c \in DOMAIN F[q[i]] :
                       \E k \in DOMAIN Each(F, q) : Each(F, q)[k] = F[q[i]][c]
           T == {q \in Seq(S) : Has(q)}
<1>1. <<>> \in T
  <2>1. <<>> \in Seq(S) /\ \A i \in DOMAIN <<>> : FALSE
    BY EmptySeq, LenProperties
  <2> QED
    BY <2>1
<1>2. ASSUME NEW q \in Seq(S), NEW x \in S, q \in T PROVE Append(q, x) \in T
  <2> DEFINE a == Append(q, x)
             u == Each(F, q)
             y == F[x]
  <2>1. /\ Len(q) \in Nat /\ a \in Seq(S) /\ Len(a) = Len(q) + 1 /\ a[Len(q) + 1] = x
        /\ \A i \in 1 .. Len(q) : a[i] = q[i]
        /\ DOMAIN q = 1 .. Len(q) /\ DOMAIN a = 1 .. Len(q) + 1
    BY LenProperties, AppendProperties
  <2>2. u \in Seq(R) /\ y \in Seq(R) /\ Each(F, a) = u \o y
    <3>1. y \in Seq(R)
      BY DEF Gives
    <3> QED
      BY <3>1, EachTyped, EachAppend
  <2>3. Has(q)
    BY <1>2
  <2> HIDE DEF a, u, y
  <2>4. /\ Len(u) \in Nat /\ Len(y) \in Nat /\ DOMAIN u = 1 .. Len(u) /\ DOMAIN y = 1 .. Len(y)
        /\ DOMAIN (u \o y) = 1 .. Len(u) + Len(y)
        /\ \A k \in 1 .. Len(u) : (u \o y)[k] = u[k]
        /\ \A k \in 1 .. Len(y) : (u \o y)[Len(u) + k] = y[k]
    <3>1. IsJoin(R, u \o y, u, y)
      BY <2>2, JoinIsJoin
    <3> QED
      BY <2>2, <3>1, LenProperties DEF IsJoin
  <2>5. ASSUME NEW i \in DOMAIN a, NEW c \in DOMAIN F[a[i]]
        PROVE  \E k \in DOMAIN (u \o y) : (u \o y)[k] = F[a[i]][c]
    <3>1. CASE i = Len(q) + 1
      <4>1. c \in 1 .. Len(y) /\ F[a[i]] = y
        BY <2>1, <2>4, <2>5, <3>1 DEF y
      <4>2. Len(u) + c \in DOMAIN (u \o y) /\ (u \o y)[Len(u) + c] = F[a[i]][c]
        BY <2>4, <4>1
      <4> QED
        BY <4>2
    <3>2. CASE i # Len(q) + 1
      <4>1. i \in DOMAIN q /\ a[i] = q[i]
        BY <2>1, <3>2
      <4>2. PICK k \in DOMAIN u : u[k] = F[a[i]][c]
        BY <2>3, <2>5, <4>1 DEF u
      <4>3. k \in DOMAIN (u \o y) /\ (u \o y)[k] = F[a[i]][c]
        BY <2>4, <4>2
      <4> QED
        BY <4>3
    <3> QED
      BY <3>1, <3>2
  <2>6. Has(a)
    BY <2>2, <2>5
  <2> QED
    BY <2>1, <2>6 DEF a
<1> HIDE DEF T
<1>3. \A q \in Seq(S) : q \in T
  BY <1>1, <1>2, SeqSetInduction
<1> QED
  BY <1>3 DEF T
=============================================================================
