------------------------------ MODULE RingLemmas ------------------------------
(***************************************************************************)
(* Facts about the sequences that stand for child rings: reading a ring    *)
(* from another position, linking a child in, unlinking one, and finding   *)
(* the first child of a kind.                                              *)
(***************************************************************************)
EXTENDS SequencesExt, SequenceTheorems, WellFoundedInduction, TLAPS

\* A non-empty set of natural numbers has a least one, which Min chooses.
LEMMA MinInSet ==
  ASSUME NEW S, S \subseteq Nat, S # {}
  PROVE  Min(S) \in S /\ \A y \in S : Min(S) =< y
<1>1. \E x \in S : \A y \in S : ~(<<y, x>> \in OpToRel(<, Nat))
  BY WFMin, NatLessThanWellFounded
<1>2. PICK x \in S : \A y \in S : ~(<<y, x>> \in OpToRel(<, Nat))
  BY <1>1
<1>3. \A y \in S : x =< y
  <2> TAKE y \in S
  <2>1. x \in Nat /\ y \in Nat
    BY <1>2
  <2>2. ~(y < x)
    BY <1>2, <2>1 DEF OpToRel
  <2> QED BY <2>1, <2>2
<1> QED BY <1>2, <1>3 DEF Min

\* Indices of a path are natural numbers, whatever its length.
LEMMA LevelIsNat ==
  ASSUME NEW x, NEW i \in 1..x
  PROVE  i \in Nat
OBVIOUS

\* A ring read from another of its positions has the same children.
LEMMA Rotation ==
  ASSUME NEW X, NEW s \in Seq(X), NEW i \in 0..Len(s)
  PROVE  LET r == SubSeq(s, i + 1, Len(s)) \o SubSeq(s, 1, i)
         IN  /\ r \in Seq(X) /\ Len(r) = Len(s) /\ ToSet(r) = ToSet(s)
             /\ i < Len(s) => r[1] = s[i + 1]
             /\ i = Len(s) /\ i > 0 => r[1] = s[1]
             /\ \A k \in 1..Len(s) - i : r[k] = s[i + k]
             /\ \A k \in 1..i : r[(Len(s) - i) + k] = s[k]
<1> DEFINE n == Len(s)
           u == SubSeq(s, i + 1, n)
           v == SubSeq(s, 1, i)
           r == u \o v
<1>0. n \in Nat /\ DOMAIN s = 1..n /\ i \in Nat /\ i <= n
  OBVIOUS
<1>1. u \in Seq(X) /\ Len(u) = n - i /\ \A k \in 1..n - i : u[k] = s[i + k]
  <2>0. Len(s) \in Nat
    OBVIOUS
  <2>1. Len(u) = n - i
    BY <2>0
  <2>2. ASSUME NEW k \in 1..n - i PROVE u[k] = s[i + k]
    BY <1>0, Z3
  <2>3. u \in Seq(X)
    OBVIOUS
  <2> QED BY <2>1, <2>2, <2>3
<1>2. v \in Seq(X) /\ Len(v) = i /\ \A k \in 1..i : v[k] = s[k]
  BY <1>0
<1> HIDE DEF u, v, n
<1>3. r \in Seq(X) /\ Len(r) = Len(u) + Len(v)
  <2>1. u \in Seq(X) /\ v \in Seq(X)
    BY <1>1, <1>2
  <2> QED BY <2>1
<1>4. Len(r) = n
  BY <1>0, <1>1, <1>2, <1>3
<1>5. \A k \in 1..n - i : r[k] = s[i + k]
  BY <1>0, <1>1, <1>2
<1>6. \A k \in 1..i : r[(n - i) + k] = s[k]
  <2>1. \A k \in 1..Len(v) : r[Len(u) + k] = v[k]
    BY <1>1, <1>2
  <2> QED BY <1>1, <1>2, <2>1
<1> HIDE DEF r
<1>7. DOMAIN r = 1..n
  BY <1>3, <1>4
<1>8. ToSet(r) \subseteq ToSet(s)
  <2> SUFFICES ASSUME NEW k \in 1..n PROVE r[k] \in ToSet(s)
    BY <1>7 DEF ToSet
  <2>1. CASE k <= n - i
    <3>1. k \in 1..n - i /\ i + k \in DOMAIN s
      BY <1>0, <2>1
    <3> QED BY <1>5, <3>1 DEF ToSet
  <2>2. CASE k > n - i
    <3>1. k - (n - i) \in 1..i /\ k - (n - i) \in DOMAIN s /\ (n - i) + (k - (n - i)) = k
      BY <1>0, <2>2
    <3>2. r[(n - i) + (k - (n - i))] = s[k - (n - i)]
      BY <1>6, <3>1
    <3> QED BY <3>1, <3>2 DEF ToSet
  <2> QED BY <1>0, <2>1, <2>2
<1>9. ToSet(s) \subseteq ToSet(r)
  <2> SUFFICES ASSUME NEW k \in 1..n PROVE s[k] \in ToSet(r)
    BY <1>0 DEF ToSet
  <2>1. CASE k <= i
    <3>1. k \in 1..i /\ (n - i) + k \in DOMAIN r
      BY <1>0, <1>7, <2>1
    <3> QED BY <1>6, <3>1 DEF ToSet
  <2>2. CASE k > i
    <3>1. k - i \in 1..n - i /\ k - i \in DOMAIN r /\ i + (k - i) = k
      BY <1>0, <1>7, <2>2
    <3>2. r[k - i] = s[i + (k - i)]
      BY <1>5, <3>1
    <3> QED BY <3>1, <3>2 DEF ToSet
  <2> QED BY <1>0, <2>1, <2>2
<1>10. i < n => r[1] = s[i + 1]
  BY <1>0, <1>5
<1>11. i = n /\ i > 0 => r[1] = s[1]
  BY <1>0, <1>6
<1> QED BY <1>3, <1>4, <1>5, <1>6, <1>8, <1>9, <1>10, <1>11 DEF n, r, u, v

\* Linking a new child in keeps the others, and no child is there twice.
LEMMA Insertion ==
  ASSUME NEW X, NEW s \in Seq(X), NEW i \in 1..Len(s) + 1, NEW e \in X,
         e \notin ToSet(s),
         \A j, k \in DOMAIN s : s[j] = s[k] => j = k
  PROVE  LET r == InsertAt(s, i, e)
         IN  /\ r \in Seq(X) /\ r # <<>> /\ ToSet(r) = ToSet(s) \cup {e}
             /\ \A j, k \in DOMAIN r : r[j] = r[k] => j = k
             /\ Len(r) = Len(s) + 1 /\ r[i] = e
             /\ \A k \in 1..i - 1 : r[k] = s[k]
             /\ \A k \in i + 1..Len(s) + 1 : r[k] = s[k - 1]
<1> DEFINE n == Len(s)
           u == SubSeq(s, 1, i - 1)
           v == SubSeq(s, i, n)
           r == InsertAt(s, i, e)
<1>0. n \in Nat /\ DOMAIN s = 1..n /\ i \in Nat \ {0}
  OBVIOUS
<1>1. u \in Seq(X) /\ Len(u) = i - 1 /\ \A k \in 1..i - 1 : u[k] = s[k]
  BY <1>0
<1>2. v \in Seq(X) /\ Len(v) = (n + 1) - i /\ \A k \in 1..(n + 1) - i : v[k] = s[(k + i) - 1]
  BY <1>0
<1> HIDE DEF u, v
<1>3. r = (u \o <<e>>) \o v
  BY DEF u, v, InsertAt
<1> DEFINE w == u \o <<e>>
<1>4. w \in Seq(X) /\ Len(w) = i /\ w[i] = e /\ \A k \in 1..i - 1 : w[k] = s[k]
  BY <1>0, <1>1
<1> HIDE DEF w
<1>5. r \in Seq(X) /\ Len(r) = n + 1
  <2>1. r = w \o v
    BY <1>3 DEF w
  <2>2. w \o v \in Seq(X) /\ Len(w \o v) = Len(w) + Len(v)
    <3>1. w \in Seq(X) /\ v \in Seq(X)
      BY <1>2, <1>4
    <3> HIDE DEF n
    <3> QED BY <3>1
  <2> HIDE DEF r, n
  <2>3. Len(w) + Len(v) = n + 1
    BY <1>0, <1>2, <1>4 DEF n
  <2> QED BY <2>1, <2>2, <2>3
<1>6. /\ \A k \in 1..i - 1 : r[k] = s[k]
      /\ r[i] = e
      /\ \A k \in i + 1..n + 1 : r[k] = s[k - 1]
  <2>1. \A k \in 1..i : r[k] = w[k]
    BY <1>0, <1>2, <1>3, <1>4 DEF w
  <2>2. \A k \in i + 1..n + 1 : r[k] = v[k - i]
    BY <1>0, <1>2, <1>3, <1>4 DEF w
  <2>3. \A k \in i + 1..n + 1 : r[k] = s[k - 1]
    <3> TAKE k \in i + 1..n + 1
    <3>1. k - i \in 1..(n + 1) - i /\ ((k - i) + i) - 1 = k - 1
      BY <1>0
    <3> QED BY <1>2, <2>2, <3>1
  <2> QED BY <1>0, <1>4, <2>1, <2>3
<1> HIDE DEF n, r
<1>7. DOMAIN r = 1..n + 1
  BY <1>5
<1>8. \A k \in DOMAIN r : r[k] \in ToSet(s) \cup {e}
  <2> TAKE k \in DOMAIN r
  <2>1. CASE k < i
    BY <1>0, <1>6, <1>7, <2>1 DEF ToSet
  <2>2. CASE k = i
    BY <1>6, <2>2
  <2>3. CASE k > i
    <3>1. k \in i + 1..n + 1 /\ k - 1 \in DOMAIN s
      BY <1>0, <1>7, <2>3
    <3> QED BY <1>6, <3>1 DEF ToSet
  <2> QED BY <1>0, <1>7, <2>1, <2>2, <2>3
<1>9. ToSet(s) \cup {e} \subseteq ToSet(r)
  <2>1. e \in ToSet(r)
    BY <1>0, <1>6, <1>7 DEF ToSet, n
  <2>2. ASSUME NEW k \in DOMAIN s PROVE s[k] \in ToSet(r)
    <3>1. CASE k < i
      BY <1>0, <1>6, <1>7, <3>1 DEF ToSet
    <3>2. CASE k >= i
      <4>1. k + 1 \in i + 1..n + 1 /\ k + 1 \in DOMAIN r /\ (k + 1) - 1 = k
        BY <1>0, <1>7, <3>2
      <4> QED BY <1>6, <4>1 DEF ToSet
    <3> QED BY <1>0, <3>1, <3>2
  <2> QED BY <2>1, <2>2 DEF ToSet
<1>10. \A j, k \in DOMAIN r : r[j] = r[k] => j = k
  <2> SUFFICES ASSUME NEW j \in DOMAIN r, NEW k \in DOMAIN r, r[j] = r[k], j < k
               PROVE  FALSE
    BY <1>0, <1>7
  <2> DEFINE back(x) == IF x < i THEN x ELSE x - 1
  <2>1. \A x \in DOMAIN r : x # i => back(x) \in DOMAIN s /\ r[x] = s[back(x)]
    BY <1>0, <1>6, <1>7
  <2>2. \A x \in DOMAIN r : x # i => r[x] # e
    BY <2>1 DEF ToSet
  <2>3. j # i /\ k # i
    BY <1>6, <2>2
  <2>4. back(j) = back(k)
    BY <2>1, <2>3
  <2> QED BY <1>0, <1>7, <2>3, <2>4
<1>11. ToSet(r) \subseteq ToSet(s) \cup {e}
  BY <1>8 DEF ToSet
<1>12. r # <<>>
  BY <1>0, <1>5
<1> QED BY <1>5, <1>6, <1>9, <1>10, <1>11, <1>12 DEF r, n

\* Unlinking a child removes it and keeps the others, none of them twice.
LEMMA Removal ==
  ASSUME NEW X, NEW s \in Seq(X), NEW i \in DOMAIN s,
         \A j, k \in DOMAIN s : s[j] = s[k] => j = k
  PROVE  LET r == RemoveAt(s, i)
         IN  /\ r \in Seq(X) /\ Len(r) = Len(s) - 1 /\ ToSet(r) = ToSet(s) \ {s[i]}
             /\ \A j, k \in DOMAIN r : r[j] = r[k] => j = k
             /\ \A k \in 1..i - 1 : r[k] = s[k]
             /\ \A k \in i..Len(s) - 1 : r[k] = s[k + 1]
<1> DEFINE n == Len(s)
           u == SubSeq(s, 1, i - 1)
           v == SubSeq(s, i + 1, n)
           r == u \o v
<1>0. n \in Nat /\ DOMAIN s = 1..n /\ i \in 1..n
  OBVIOUS
<1>1. u \in Seq(X) /\ Len(u) = i - 1 /\ \A k \in 1..i - 1 : u[k] = s[k]
  BY <1>0
<1>2. v \in Seq(X) /\ Len(v) = n - i /\ \A k \in 1..n - i : v[k] = s[i + k]
  <2>1. v \in Seq(X) /\ Len(v) = n - i
    BY <1>0
  <2>2. ASSUME NEW k \in 1..n - i PROVE v[k] = s[i + k]
    BY <1>0, Z3
  <2> QED BY <2>1, <2>2
<1> HIDE DEF u, v, n
<1>3. r \in Seq(X) /\ Len(r) = Len(u) + Len(v)
  <2>1. u \in Seq(X) /\ v \in Seq(X)
    BY <1>1, <1>2
  <2> QED BY <2>1
<1>4. r \in Seq(X) /\ Len(r) = n - 1
  BY <1>0, <1>1, <1>2, <1>3
<1>5. \A k \in 1..i - 1 : r[k] = s[k]
  BY <1>0, <1>1, <1>2
<1>6. \A k \in i..n - 1 : r[k] = s[k + 1]
  <2>1. \A k \in 1..Len(v) : r[Len(u) + k] = v[k]
    BY <1>1, <1>2
  <2> TAKE k \in i..n - 1
  <2>2. (k + 1) - i \in 1..n - i /\ (i - 1) + ((k + 1) - i) = k /\ i + ((k + 1) - i) = k + 1
    BY <1>0
  <2> DEFINE j == (k + 1) - i
  <2>3. j \in 1..Len(v) /\ Len(u) + j = k /\ i + j = k + 1 /\ j \in 1..n - i
    BY <1>1, <1>2, <2>2
  <2> HIDE DEF j, r
  <2>4. r[Len(u) + j] = v[j]
    BY <2>1, <2>3
  <2>5. v[j] = s[i + j]
    BY <1>2, <2>3
  <2> QED BY <2>3, <2>4, <2>5
<1> HIDE DEF r
<1>7. DOMAIN r = 1..n - 1
  BY <1>4
<1> DEFINE forth(x) == IF x < i THEN x ELSE x + 1
<1>8. \A x \in DOMAIN r : forth(x) \in DOMAIN s /\ forth(x) # i /\ r[x] = s[forth(x)]
  BY <1>0, <1>5, <1>6, <1>7
<1>9. ToSet(r) \subseteq ToSet(s) \ {s[i]}
  BY <1>0, <1>8 DEF ToSet
<1>10. ToSet(s) \ {s[i]} \subseteq ToSet(r)
  <2> SUFFICES ASSUME NEW k \in DOMAIN s, k # i PROVE s[k] \in ToSet(r)
    BY <1>0 DEF ToSet
  <2>1. CASE k < i
    BY <1>0, <1>5, <1>7, <2>1 DEF ToSet
  <2>2. CASE k > i
    <3>1. k - 1 \in i..n - 1 /\ k - 1 \in DOMAIN r /\ (k - 1) + 1 = k
      BY <1>0, <1>7, <2>2
    <3> QED BY <1>6, <3>1 DEF ToSet
  <2> QED BY <1>0, <2>1, <2>2
<1>11. \A j, k \in DOMAIN r : r[j] = r[k] => j = k
  <2> SUFFICES ASSUME NEW j \in DOMAIN r, NEW k \in DOMAIN r, r[j] = r[k], j < k
               PROVE  FALSE
    BY <1>0, <1>7
  <2>1. forth(j) = forth(k)
    BY <1>8
  <2> QED BY <1>0, <1>7, <2>1
<1> QED BY <1>4, <1>5, <1>6, <1>9, <1>10, <1>11 DEF r, n, u, v, RemoveAt
=============================================================================
