--------------------------- MODULE SequenceLemmas ---------------------------
(***************************************************************************)
(* What the operations on vectors and queues leave in them: the lemmas the *)
(* proofs about the components have in common.                             *)
(***************************************************************************)
EXTENDS Integers, Sequences, SequencesExt, FiniteSets, SequenceTheorems,
        FiniteSetTheorems, WellFoundedInduction, TLAPS

\* What erasing the i-th entry of a vector leaves.
LEMMA RemoveAtProperties ==
    ASSUME NEW S, NEW s \in Seq(S), NEW i \in 1 .. Len(s)
    PROVE  /\ RemoveAt(s, i) \in Seq(S)
           /\ Len(RemoveAt(s, i)) = Len(s) - 1
           /\ \A j \in 1 .. Len(s) - 1 :
                RemoveAt(s, i)[j] = IF j < i THEN s[j] ELSE s[j + 1]
<1> DEFINE a == SubSeq(s, 1, i - 1)
           b == SubSeq(s, i + 1, Len(s))
<1>1. Len(s) \in Nat /\ \A j \in 1 .. Len(s) : s[j] \in S
  BY ElementOfSeq, LenProperties
<1>2. /\ a \in Seq(S) /\ Len(a) = i - 1
      /\ \A j \in 1 .. i - 1 : a[j] = s[j]
  <2>1. \A j \in 1 .. i - 1 : s[j] \in S
    BY <1>1
  <2>2. /\ SubSeq(s, 1, i - 1) \in Seq(S)
        /\ Len(SubSeq(s, 1, i - 1)) = IF 1 <= i - 1 THEN i - 1 - 1 + 1 ELSE 0
        /\ \A j \in 1 .. i - 1 - 1 + 1 : SubSeq(s, 1, i - 1)[j] = s[1 + j - 1]
    BY <2>1, <1>1, SubSeqProperties
  <2>3. QED BY <2>2, <1>1
<1>3. /\ b \in Seq(S) /\ Len(b) = Len(s) - i
      /\ \A j \in 1 .. Len(s) - i : b[j] = s[i + j]
  <2>1. \A j \in i + 1 .. Len(s) : s[j] \in S
    BY <1>1
  <2>2. /\ SubSeq(s, i + 1, Len(s)) \in Seq(S)
        /\ Len(SubSeq(s, i + 1, Len(s))) =
             IF i + 1 <= Len(s) THEN Len(s) - (i + 1) + 1 ELSE 0
        /\ \A j \in 1 .. Len(s) - (i + 1) + 1 :
             SubSeq(s, i + 1, Len(s))[j] = s[(i + 1) + j - 1]
    BY <2>1, <1>1, SubSeqProperties
  <2>3. QED BY <2>2, <1>1
<1>4. /\ a \o b \in Seq(S)
      /\ Len(a \o b) = Len(a) + Len(b)
      /\ \A j \in 1 .. Len(a) + Len(b) :
           (a \o b)[j] = IF j <= Len(a) THEN a[j] ELSE b[j - Len(a)]
  BY <1>2, <1>3, ConcatProperties
<1>5. RemoveAt(s, i) = a \o b
  BY DEF RemoveAt
<1>6. \A j \in 1 .. Len(s) - 1 : (a \o b)[j] = IF j < i THEN s[j] ELSE s[j + 1]
  <2> SUFFICES ASSUME NEW j \in 1 .. Len(s) - 1
               PROVE  (a \o b)[j] = IF j < i THEN s[j] ELSE s[j + 1]
    OBVIOUS
  <2> HIDE DEF a, b
  <2>1. CASE j < i
    <3>1. j \in 1 .. Len(a) + Len(b) /\ j <= Len(a) /\ j \in 1 .. i - 1
      BY <1>1, <1>2, <1>3, <2>1
    <3>2. QED BY <3>1, <1>2, <1>4, <2>1
  <2>2. CASE ~(j < i)
    <3>1. j \in 1 .. Len(a) + Len(b) /\ ~(j <= Len(a)) /\ j - Len(a) \in 1 .. Len(s) - i
      BY <1>1, <1>2, <1>3, <2>2
    <3>2. (a \o b)[j] = s[i + (j - Len(a))]
      BY <3>1, <1>3, <1>4
    <3>3. i + (j - Len(a)) = j + 1
      BY <1>1, <1>2
    <3>4. QED BY <3>2, <3>3, <2>2
  <2>3. QED BY <2>1, <2>2
<1>7. QED
  <2> HIDE DEF a, b
  <2>1. QED BY <1>1, <1>2, <1>3, <1>4, <1>5, <1>6

\* The elements by their positions.
LEMMA ToSetMembers ==
    ASSUME NEW S, NEW s \in Seq(S)
    PROVE  /\ ToSet(s) \subseteq S
           /\ \A x : x \in ToSet(s) <=> \E i \in 1 .. Len(s) : x = s[i]
<1>1. DOMAIN s = 1 .. Len(s) /\ \A i \in 1 .. Len(s) : s[i] \in S
  BY ElementOfSeq, LenProperties
<1>2. QED BY <1>1 DEF ToSet

\* The elements after an element is appended or erased.
LEMMA ToSetProperties ==
    ASSUME NEW S, NEW s \in Seq(S)
    PROVE  /\ \A x \in S : /\ Append(s, x) \in Seq(S)
                           /\ ToSet(Append(s, x)) = ToSet(s) \cup {x}
           /\ s # <<>> => /\ Head(s) \in ToSet(s) /\ Head(s) \in S
                          /\ Tail(s) \in Seq(S) /\ ToSet(Tail(s)) \subseteq ToSet(s)
           /\ \A n \in 0 .. Len(s) : /\ SubSeq(s, 1, n) \in Seq(S)
                                     /\ ToSet(SubSeq(s, 1, n)) \subseteq ToSet(s)
           /\ \A i \in 1 .. Len(s) : /\ RemoveAt(s, i) \in Seq(S)
                                     /\ ToSet(RemoveAt(s, i)) \subseteq ToSet(s)
<1>1. Len(s) \in Nat /\ \A i \in 1 .. Len(s) : s[i] \in S /\ s[i] \in ToSet(s)
  BY ElementOfSeq, LenProperties, ToSetMembers
<1>2. ASSUME NEW x \in S
      PROVE  Append(s, x) \in Seq(S) /\ ToSet(Append(s, x)) = ToSet(s) \cup {x}
  <2> DEFINE t == Append(s, x)
  <2>1. /\ t \in Seq(S) /\ Len(t) = Len(s) + 1 /\ t[Len(s) + 1] = x
        /\ \A i \in 1 .. Len(s) : t[i] = s[i]
    BY AppendProperties
  <2> HIDE DEF t
  <2>2. Len(s) + 1 \in 1 .. Len(t) /\ \A i \in 1 .. Len(s) : i \in 1 .. Len(t)
    BY <1>1, <2>1
  <2>3. \A i \in 1 .. Len(t) : i \in 1 .. Len(s) \/ i = Len(s) + 1
    BY <1>1, <2>1
  <2>4. ToSet(t) = ToSet(s) \cup {x}
    <3>1. ASSUME NEW y PROVE y \in ToSet(t) <=> y \in ToSet(s) \/ y = x
      <4>1. y \in ToSet(t) <=> \E i \in 1 .. Len(t) : y = t[i]
        BY <2>1, ToSetMembers
      <4>2. y \in ToSet(s) <=> \E i \in 1 .. Len(s) : y = s[i]
        BY ToSetMembers
      <4>3. QED BY <4>1, <4>2, <2>1, <2>2, <2>3
    <3>2. QED BY <3>1
  <2>5. QED BY <2>1, <2>4 DEF t
<1>3. ASSUME s # <<>>
      PROVE  /\ Head(s) \in ToSet(s) /\ Head(s) \in S
             /\ Tail(s) \in Seq(S) /\ ToSet(Tail(s)) \subseteq ToSet(s)
  <2> DEFINE t == Tail(s)
  <2>1. /\ Head(s) \in S /\ t \in Seq(S) /\ Len(t) = Len(s) - 1
        /\ \A i \in 1 .. Len(t) : t[i] = s[i + 1]
    BY <1>3, HeadTailProperties
  <2>2. Len(s) > 0 /\ Head(s) = s[1]
    BY <1>1, <1>3, EmptySeq
  <2> HIDE DEF t
  <2>3. \A i \in 1 .. Len(t) : i + 1 \in 1 .. Len(s)
    BY <1>1, <2>1
  <2>4. \A x \in ToSet(t) : x \in ToSet(s)
    <3>1. \A i \in 1 .. Len(t) : t[i] \in ToSet(s)
      BY <1>1, <2>1, <2>3
    <3>2. QED BY <2>1, <3>1, ToSetMembers
  <2>5. Head(s) \in ToSet(s)
    BY <1>1, <2>2
  <2>6. Head(s) \in S /\ t \in Seq(S) /\ ToSet(t) \subseteq ToSet(s)
    BY <2>1, <2>4
  <2>7. QED BY <2>5, <2>6 DEF t
<1>4. ASSUME NEW n \in 0 .. Len(s)
      PROVE  SubSeq(s, 1, n) \in Seq(S) /\ ToSet(SubSeq(s, 1, n)) \subseteq ToSet(s)
  <2> DEFINE t == SubSeq(s, 1, n)
  <2>1. \A i \in 1 .. n : i \in 1 .. Len(s) /\ s[i] \in S /\ 1 + i - 1 = i
    BY <1>1
  <2>2. /\ t \in Seq(S) /\ Len(t) = IF 1 <= n THEN n - 1 + 1 ELSE 0
        /\ \A i \in 1 .. n - 1 + 1 : t[i] = s[1 + i - 1]
    BY <1>1, <2>1, SubSeqProperties
  <2>3. t \in Seq(S) /\ Len(t) = n /\ \A i \in 1 .. n : t[i] = s[1 + i - 1]
    <3> HIDE DEF t
    <3>1. QED BY <1>1, <2>2
  <2> HIDE DEF t
  <2>4. \A i \in 1 .. Len(t) : t[i] \in ToSet(s)
    BY <1>1, <2>1, <2>3
  <2>5. \A x \in ToSet(t) : x \in ToSet(s)
    BY <2>3, <2>4, ToSetMembers
  <2>6. QED BY <2>3, <2>5 DEF t
<1>5. ASSUME NEW i \in 1 .. Len(s)
      PROVE  RemoveAt(s, i) \in Seq(S) /\ ToSet(RemoveAt(s, i)) \subseteq ToSet(s)
  <2> DEFINE t == RemoveAt(s, i)
  <2>1. /\ t \in Seq(S) /\ Len(t) = Len(s) - 1
        /\ \A j \in 1 .. Len(s) - 1 : t[j] = IF j < i THEN s[j] ELSE s[j + 1]
    BY RemoveAtProperties
  <2> HIDE DEF t
  <2>2. \A j \in 1 .. Len(t) : j \in 1 .. Len(s) - 1 /\ j \in 1 .. Len(s) /\ j + 1 \in 1 .. Len(s)
    BY <1>1, <2>1
  <2>3. \A j \in 1 .. Len(t) : t[j] \in ToSet(s)
    BY <1>1, <2>1, <2>2
  <2>4. \A x \in ToSet(t) : x \in ToSet(s)
    BY <2>1, <2>3, ToSetMembers
  <2>5. QED BY <2>1, <2>4 DEF t
<1>6. QED BY <1>2, <1>3, <1>4, <1>5

\* How many entries of a queue are in T.
Occurrences(s, T) == Cardinality({i \in 1 .. Len(s) : s[i] \in T})

\* The positions counted are finitely many.
LEMMA OccurrencesFinite ==
    ASSUME NEW S, NEW s \in Seq(S), NEW T
    PROVE  /\ IsFiniteSet({i \in 1 .. Len(s) : s[i] \in T})
           /\ Occurrences(s, T) \in Nat
<1>1. Len(s) \in Nat
  BY LenProperties
<1>2. IsFiniteSet(1 .. Len(s))
  BY <1>1, FS_Interval
<1>3. {i \in 1 .. Len(s) : s[i] \in T} \in SUBSET (1 .. Len(s))
  OBVIOUS
<1>4. IsFiniteSet({i \in 1 .. Len(s) : s[i] \in T})
  BY <1>2, <1>3, FS_Subset
<1>5. QED BY <1>4, FS_CardinalityType DEF Occurrences

\* A queue without its i-th entry.
IsWithout(t, s, i) ==
    /\ Len(t) = Len(s) - 1
    /\ \A j \in 1 .. Len(t) : t[j] = IF j < i THEN s[j] ELSE s[j + 1]

\* One entry less is one occurrence less, if the entry was counted.
LEMMA OccurrencesWithout ==
    ASSUME NEW S, NEW s \in Seq(S), NEW T, NEW t \in Seq(S), NEW i \in 1 .. Len(s),
           IsWithout(t, s, i)
    PROVE  Occurrences(s, T) = Occurrences(t, T) + IF s[i] \in T THEN 1 ELSE 0
<1> DEFINE A == {j \in 1 .. Len(s) : s[j] \in T}
           B == {j \in 1 .. Len(t) : t[j] \in T}
           R == A \ {i}
           f == [j \in B |-> IF j < i THEN j ELSE j + 1]
<1>1. /\ Len(s) \in Nat /\ Len(t) \in Nat /\ Len(t) = Len(s) - 1
      /\ \A j \in 1 .. Len(t) : t[j] = IF j < i THEN s[j] ELSE s[j + 1]
  BY LenProperties DEF IsWithout
<1>2. \A j \in B : f[j] \in R
  <2> SUFFICES ASSUME NEW j \in B PROVE f[j] \in R
    OBVIOUS
  <2>1. j \in 1 .. Len(t) /\ t[j] \in T
    OBVIOUS
  <2>2. CASE j < i
    <3>1. j \in 1 .. Len(s) /\ j # i /\ t[j] = s[j]
      BY <1>1, <2>1, <2>2
    <3>2. QED BY <3>1, <2>1, <2>2
  <2>3. CASE ~(j < i)
    <3>1. j + 1 \in 1 .. Len(s) /\ j + 1 # i /\ t[j] = s[j + 1]
      BY <1>1, <2>1, <2>3
    <3>2. QED BY <3>1, <2>1, <2>3
  <2>4. QED BY <2>2, <2>3
<1>3. \A j, k \in B : f[j] = f[k] => j = k
  BY <1>1
<1>4. \A k \in R : \E j \in B : f[j] = k
  <2> SUFFICES ASSUME NEW k \in R PROVE \E j \in B : f[j] = k
    OBVIOUS
  <2>1. k \in 1 .. Len(s) /\ s[k] \in T /\ k # i
    OBVIOUS
  <2>2. CASE k < i
    <3>1. k \in 1 .. Len(t) /\ t[k] = s[k]
      BY <1>1, <2>1, <2>2
    <3>2. k \in B
      BY <3>1, <2>1
    <3>3. QED BY <3>2, <2>2
  <2>3. CASE ~(k < i)
    <3>1. /\ k - 1 \in 1 .. Len(t) /\ ~(k - 1 < i) /\ (k - 1) + 1 = k
      BY <1>1, <2>1, <2>3
    <3>2. t[k - 1] = s[k]
      BY <1>1, <3>1
    <3>3. k - 1 \in B
      BY <3>1, <3>2, <2>1
    <3>4. f[k - 1] = k
      BY <3>1, <3>3
    <3>5. QED BY <3>3, <3>4
  <2>4. QED BY <2>2, <2>3
<1>5. IsFiniteSet(A) /\ IsFiniteSet(B) /\ Cardinality(B) \in Nat
  BY OccurrencesFinite, FS_CardinalityType
<1>6. Cardinality(R) = IF i \in A THEN Cardinality(A) - 1 ELSE Cardinality(A)
  BY <1>5, FS_RemoveElement
<1>7. f \in Bijection(B, R)
  <2>1. f \in [B -> R]
    BY <1>2
  <2> HIDE DEF f, A, B, R
  <2>2. QED BY <2>1, <1>3, <1>4 DEF Bijection, Injection, Surjection, IsInjective
<1>8. ExistsBijection(B, R)
  BY <1>7 DEF ExistsBijection
<1>9. Cardinality(R) = Cardinality(B)
  <2> HIDE DEF A, B, R, f
  <2>1. QED BY <1>5, <1>8, FS_Bijection
<1>10. Cardinality(A) \in Nat
  BY <1>5, FS_CardinalityType
<1>11. (i \in A) <=> s[i] \in T
  OBVIOUS
<1>12. Occurrences(s, T) = Cardinality(A) /\ Occurrences(t, T) = Cardinality(B)
  BY DEF Occurrences
<1> HIDE DEF A, B, R, f
<1>13. QED BY <1>5, <1>6, <1>9, <1>10, <1>11, <1>12

\* The occurrences after an entry is appended or erased.
LEMMA OccurrencesProperties ==
    ASSUME NEW S, NEW s \in Seq(S), NEW T
    PROVE  /\ Occurrences(s, T) \in Nat
           /\ s = <<>> => Occurrences(s, T) = 0
           /\ \A x \in S : Occurrences(Append(s, x), T)
                           = Occurrences(s, T) + IF x \in T THEN 1 ELSE 0
           /\ s # <<>> => Occurrences(s, T)
                          = Occurrences(Tail(s), T) + IF Head(s) \in T THEN 1 ELSE 0
           /\ \A i \in 1 .. Len(s) : Occurrences(s, T)
                           = Occurrences(RemoveAt(s, i), T) + IF s[i] \in T THEN 1 ELSE 0
<1>1. Len(s) \in Nat /\ Occurrences(s, T) \in Nat
  BY LenProperties, OccurrencesFinite
<1>2. s = <<>> => Occurrences(s, T) = 0
  <2> SUFFICES ASSUME s = <<>> PROVE Occurrences(s, T) = 0
    OBVIOUS
  <2>1. Len(s) = 0
    BY EmptySeq
  <2>2. {i \in 1 .. Len(s) : s[i] \in T} = {}
    BY <2>1
  <2>3. QED BY <2>2, FS_EmptySet DEF Occurrences
<1>3. ASSUME NEW x \in S
      PROVE  Occurrences(Append(s, x), T) = Occurrences(s, T) + IF x \in T THEN 1 ELSE 0
  <2> DEFINE t == Append(s, x)
  <2>1. /\ t \in Seq(S) /\ Len(t) = Len(s) + 1 /\ t[Len(s) + 1] = x
        /\ \A i \in 1 .. Len(s) : t[i] = s[i]
    BY AppendProperties
  <2> HIDE DEF t
  <2>2. Len(t) \in 1 .. Len(t) /\ t[Len(t)] = x /\ IsWithout(s, t, Len(t))
    BY <1>1, <2>1 DEF IsWithout
  <2>3. Occurrences(t, T) = Occurrences(s, T) + IF t[Len(t)] \in T THEN 1 ELSE 0
    BY <2>1, <2>2, OccurrencesWithout
  <2>4. QED BY <2>2, <2>3 DEF t
<1>4. ASSUME s # <<>>
      PROVE  Occurrences(s, T) = Occurrences(Tail(s), T) + IF Head(s) \in T THEN 1 ELSE 0
  <2> DEFINE t == Tail(s)
  <2>1. /\ t \in Seq(S) /\ Len(t) = Len(s) - 1
        /\ \A i \in 1 .. Len(t) : t[i] = s[i + 1]
    BY <1>4, HeadTailProperties
  <2>2. Len(s) > 0 /\ Head(s) = s[1]
    BY <1>1, <1>4, EmptySeq
  <2> HIDE DEF t
  <2>3. 1 \in 1 .. Len(s) /\ IsWithout(t, s, 1)
    BY <1>1, <2>1, <2>2 DEF IsWithout
  <2>4. Occurrences(s, T) = Occurrences(t, T) + IF s[1] \in T THEN 1 ELSE 0
    BY <2>1, <2>3, OccurrencesWithout
  <2>5. QED BY <2>2, <2>4 DEF t
<1>5. ASSUME NEW i \in 1 .. Len(s)
      PROVE  Occurrences(s, T) = Occurrences(RemoveAt(s, i), T) + IF s[i] \in T THEN 1 ELSE 0
  <2> DEFINE t == RemoveAt(s, i)
  <2>1. /\ t \in Seq(S) /\ Len(t) = Len(s) - 1
        /\ \A j \in 1 .. Len(s) - 1 : t[j] = IF j < i THEN s[j] ELSE s[j + 1]
    BY RemoveAtProperties
  <2> HIDE DEF t
  <2>2. t \in Seq(S) /\ IsWithout(t, s, i)
    BY <2>1 DEF IsWithout
  <2>3. Occurrences(s, T) = Occurrences(t, T) + IF s[i] \in T THEN 1 ELSE 0
    BY <2>2, OccurrencesWithout
  <2>4. QED BY <2>3 DEF t
<1>6. QED BY <1>1, <1>2, <1>3, <1>4, <1>5

\* An entry of a list with one more at its end is the new one or an old one.
LEMMA Appended ==
    ASSUME NEW S, NEW s \in Seq(S), NEW x \in S
    PROVE  /\ Append(s, x) \in Seq(S)
           /\ \A i \in 1 .. Len(Append(s, x)) :
                \/ i \in 1 .. Len(s) /\ Append(s, x)[i] = s[i]
                \/ i = Len(s) + 1 /\ Append(s, x)[i] = x
<1> DEFINE t == Append(s, x)
<1>1. /\ t \in Seq(S) /\ Len(t) = Len(s) + 1 /\ t[Len(s) + 1] = x
      /\ \A i \in 1 .. Len(s) : t[i] = s[i]
  BY AppendProperties
<1>2. Len(s) \in Nat
  BY LenProperties
<1> HIDE DEF t
<1>3. \A i \in 1 .. Len(t) : i \in 1 .. Len(s) \/ i = Len(s) + 1
  BY <1>1, <1>2
<1>4. QED BY <1>1, <1>3 DEF t

\* Where an entry was before the i-th one was erased.
Before(j, i) == IF j < i THEN j ELSE j + 1

\* Two entries of a list with one erased are two others of the list.
LEMMA Erased ==
    ASSUME NEW S, NEW s \in Seq(S), NEW i \in 1 .. Len(s)
    PROVE  /\ RemoveAt(s, i) \in Seq(S)
           /\ \A j \in 1 .. Len(RemoveAt(s, i)) :
                /\ Before(j, i) \in 1 .. Len(s) /\ Before(j, i) # i
                /\ RemoveAt(s, i)[j] = s[Before(j, i)]
           /\ \A j, k \in 1 .. Len(RemoveAt(s, i)) : j # k => Before(j, i) # Before(k, i)
<1> DEFINE t == RemoveAt(s, i)
<1>1. Len(s) \in Nat /\ i \in Nat
  BY LenProperties
<1>2. /\ t \in Seq(S) /\ Len(t) = Len(s) - 1
      /\ \A j \in 1 .. Len(s) - 1 : t[j] = IF j < i THEN s[j] ELSE s[j + 1]
  BY RemoveAtProperties
<1> HIDE DEF t
<1>3. \A j \in 1 .. Len(t) :
        Before(j, i) \in 1 .. Len(s) /\ Before(j, i) # i /\ t[j] = s[Before(j, i)]
  BY <1>1, <1>2 DEF Before
<1>4. \A j, k \in 1 .. Len(t) : j # k => Before(j, i) # Before(k, i)
  BY <1>1, <1>2 DEF Before
<1>5. QED BY <1>2, <1>3, <1>4 DEF t

\* Where x is in a queue.
Positions(s, x) == {i \in 1 .. Len(s) : s[i] = x}

\* Where it is after a step of either end.
LEMMA PositionsProperties ==
    ASSUME NEW S, NEW s \in Seq(S), NEW x
    PROVE  /\ Positions(s, x) \subseteq 1 .. Len(s)
           /\ s = <<>> => Positions(s, x) = {}
           /\ x \in ToSet(s) <=> Positions(s, x) # {}
           /\ \A y \in S : Positions(Append(s, y), x)
                           = Positions(s, x) \cup (IF x = y THEN {Len(s) + 1} ELSE {})
           /\ s # <<>> => /\ Head(s) = x <=> 1 \in Positions(s, x)
                          /\ \A i \in Nat : i \in Positions(Tail(s), x)
                                            <=> i > 0 /\ i + 1 \in Positions(s, x)
           /\ \A n \in 0 .. Len(s) : Positions(SubSeq(s, 1, n), x) \subseteq Positions(s, x)
<1>1. Len(s) \in Nat /\ \A i \in 1 .. Len(s) : s[i] \in S
  BY ElementOfSeq, LenProperties
<1>2. Positions(s, x) \subseteq 1 .. Len(s)
  BY DEF Positions
<1>3. s = <<>> => Positions(s, x) = {}
  <2> SUFFICES ASSUME s = <<>> PROVE Positions(s, x) = {}
    OBVIOUS
  <2>1. Len(s) = 0
    BY EmptySeq
  <2>2. QED BY <2>1 DEF Positions
<1>4. x \in ToSet(s) <=> Positions(s, x) # {}
  BY ToSetMembers DEF Positions
<1>5. ASSUME NEW y \in S
      PROVE  Positions(Append(s, y), x)
             = Positions(s, x) \cup (IF x = y THEN {Len(s) + 1} ELSE {})
  <2> DEFINE t == Append(s, y)
  <2>1. /\ Len(t) = Len(s) + 1 /\ t[Len(s) + 1] = y
        /\ \A i \in 1 .. Len(s) : t[i] = s[i]
    BY AppendProperties
  <2> HIDE DEF t
  <2>2. \A i : i \in 1 .. Len(t) <=> i \in 1 .. Len(s) \/ i = Len(s) + 1
    BY <1>1, <2>1
  <2>3. \A i : i \in Positions(t, x) <=>
            i \in Positions(s, x) \/ (i = Len(s) + 1 /\ x = y)
    BY <2>1, <2>2 DEF Positions
  <2>4. QED BY <2>3 DEF t
<1>6. ASSUME s # <<>>
      PROVE  /\ Head(s) = x <=> 1 \in Positions(s, x)
             /\ \A i \in Nat : i \in Positions(Tail(s), x)
                               <=> i > 0 /\ i + 1 \in Positions(s, x)
  <2> DEFINE t == Tail(s)
  <2>1. Len(t) = Len(s) - 1 /\ \A i \in 1 .. Len(t) : t[i] = s[i + 1]
    BY <1>6, HeadTailProperties
  <2>2. Len(s) > 0 /\ Head(s) = s[1]
    BY <1>1, <1>6, EmptySeq
  <2> HIDE DEF t
  <2>3. \A i \in Nat : i \in 1 .. Len(t) <=> i > 0 /\ i + 1 \in 1 .. Len(s)
    BY <1>1, <2>1
  <2>4. \A i \in Nat : i \in Positions(t, x) <=> i > 0 /\ i + 1 \in Positions(s, x)
    BY <2>1, <2>3 DEF Positions
  <2>5. 1 \in 1 .. Len(s)
    BY <1>1, <2>2
  <2>6. Head(s) = x <=> 1 \in Positions(s, x)
    BY <2>2, <2>5 DEF Positions
  <2>7. QED BY <2>4, <2>6 DEF t
<1>7. ASSUME NEW n \in 0 .. Len(s)
      PROVE  Positions(SubSeq(s, 1, n), x) \subseteq Positions(s, x)
  <2> DEFINE t == SubSeq(s, 1, n)
  <2>1. \A i \in 1 .. n : i \in 1 .. Len(s) /\ s[i] \in S /\ 1 + i - 1 = i
    BY <1>1
  <2>2. /\ Len(t) = IF 1 <= n THEN n - 1 + 1 ELSE 0
        /\ \A i \in 1 .. n - 1 + 1 : t[i] = s[1 + i - 1]
    BY <1>1, <2>1, SubSeqProperties
  <2> HIDE DEF t
  <2>3. Len(t) = n /\ \A i \in 1 .. n : t[i] = s[i]
    BY <1>1, <2>2
  <2>4. Positions(t, x) \subseteq Positions(s, x)
    BY <2>1, <2>3 DEF Positions
  <2>5. QED BY <2>4 DEF t
<1>8. QED BY <1>2, <1>3, <1>4, <1>5, <1>6, <1>7

\* A set whose members have each a mate of their own in a finite set is no larger.
LEMMA MatesBound ==
    ASSUME NEW S, NEW T, IsFiniteSet(T), NEW f \in [S -> T],
           \A a, b \in S : f[a] = f[b] => a = b
    PROVE  IsFiniteSet(S) /\ Cardinality(S) <= Cardinality(T)
<1>1. f \in Injection(S, T)
  BY DEF Injection, IsInjective
<1>2. QED BY <1>1, FS_Injection

\* No occurrence, or a single one.
LEMMA OccurrencesFew ==
    ASSUME NEW S, NEW s \in Seq(S), NEW T
    PROVE  /\ Occurrences(s, T) = 0 <=> \A i \in 1 .. Len(s) : s[i] \notin T
           /\ (\A i, j \in 1 .. Len(s) : s[i] \in T /\ s[j] \in T => i = j) => Occurrences(s, T) <= 1
<1> DEFINE A == {i \in 1 .. Len(s) : s[i] \in T}
<1>1. IsFiniteSet(A) /\ Occurrences(s, T) = Cardinality(A)
  BY OccurrencesFinite DEF Occurrences
<1>2. A = {} <=> \A i \in 1 .. Len(s) : s[i] \notin T
  OBVIOUS
<1>3. ASSUME \A i, j \in 1 .. Len(s) : s[i] \in T /\ s[j] \in T => i = j
      PROVE  A = {} \/ \E x : A = {x}
  <2> SUFFICES ASSUME A # {} PROVE \E x : A = {x}
    OBVIOUS
  <2>1. PICK x : x \in A
    OBVIOUS
  <2>2. A = {x}
    BY <1>3, <2>1
  <2>3. QED BY <2>2
<1> HIDE DEF A
<1>4. (A = {} => Cardinality(A) = 0) /\ \A x : A = {x} => Cardinality(A) = 1
  BY FS_EmptySet, FS_Singleton
<1>5. Cardinality(A) = 0 <=> A = {}
  BY <1>1, FS_EmptySet
<1>6. Occurrences(s, T) = 0 <=> \A i \in 1 .. Len(s) : s[i] \notin T
  BY <1>1, <1>2, <1>5
<1>7. ASSUME \A i, j \in 1 .. Len(s) : s[i] \in T /\ s[j] \in T => i = j
      PROVE  Occurrences(s, T) <= 1
  <2>1. Cardinality(A) \in {0, 1}
    BY <1>3, <1>4, <1>7
  <2>2. QED BY <1>1, <2>1
<1>8. QED BY <1>6, <1>7

\* An entry is replaced by another.
LEMMA OccurrencesReplaced ==
    ASSUME NEW S, NEW s \in Seq(S), NEW T, NEW i \in 1 .. Len(s), NEW x \in S
    PROVE  /\ [s EXCEPT ![i] = x] \in Seq(S)
           /\ Occurrences([s EXCEPT ![i] = x], T) + (IF s[i] \in T THEN 1 ELSE 0)
              = Occurrences(s, T) + (IF x \in T THEN 1 ELSE 0)
<1> DEFINE t == [s EXCEPT ![i] = x]
           r == RemoveAt(s, i)
<1>1. /\ t \in Seq(S) /\ Len(t) = Len(s) /\ t[i] = x
      /\ \A j \in 1 .. Len(s) : j # i => t[j] = s[j]
      /\ Len(s) \in Nat
  BY ExceptSeq, LenProperties
<1>2. /\ r \in Seq(S) /\ Len(r) = Len(s) - 1
      /\ \A j \in 1 .. Len(s) - 1 : r[j] = IF j < i THEN s[j] ELSE s[j + 1]
  BY RemoveAtProperties
<1> HIDE DEF t, r
<1>3. IsWithout(r, s, i)
  BY <1>2 DEF IsWithout
<1>4. IsWithout(r, t, i)
  <2> SUFFICES ASSUME NEW j \in 1 .. Len(s) - 1
               PROVE  r[j] = IF j < i THEN t[j] ELSE t[j + 1]
    BY <1>1, <1>2 DEF IsWithout
  <2>1. CASE j < i
    BY <1>1, <1>2, <2>1
  <2>2. CASE ~(j < i)
    <3>1. j + 1 \in 1 .. Len(s) /\ j + 1 # i
      BY <1>1, <2>2
    <3>2. QED BY <1>1, <1>2, <2>2, <3>1
  <2>3. QED BY <2>1, <2>2
<1>5. i \in 1 .. Len(t)
  BY <1>1
<1>6. Occurrences(s, T) = Occurrences(r, T) + IF s[i] \in T THEN 1 ELSE 0
  BY <1>2, <1>3, OccurrencesWithout
<1>7. Occurrences(t, T) = Occurrences(r, T) + IF x \in T THEN 1 ELSE 0
  BY <1>1, <1>2, <1>4, <1>5, OccurrencesWithout
<1>8. Occurrences(r, T) \in Nat
  BY <1>2, OccurrencesFinite
<1>9. Occurrences(t, T) + (IF s[i] \in T THEN 1 ELSE 0) = Occurrences(s, T) + (IF x \in T THEN 1 ELSE 0)
  BY <1>6, <1>7, <1>8
<1>10. QED BY <1>1, <1>9 DEF t

\* What is in one of two disjoint sets is counted by both together.
LEMMA OccurrencesUnion ==
    ASSUME NEW S, NEW s \in Seq(S), NEW T, NEW U, T \cap U = {}
    PROVE  Occurrences(s, T \cup U) = Occurrences(s, T) + Occurrences(s, U)
<1> DEFINE A == {i \in 1 .. Len(s) : s[i] \in T}
           B == {i \in 1 .. Len(s) : s[i] \in U}
           C == {i \in 1 .. Len(s) : s[i] \in T \cup U}
<1>1. /\ IsFiniteSet(A) /\ Occurrences(s, T) = Cardinality(A) /\ Cardinality(A) \in Nat
      /\ IsFiniteSet(B) /\ Occurrences(s, U) = Cardinality(B) /\ Cardinality(B) \in Nat
      /\ Occurrences(s, T \cup U) = Cardinality(C)
  BY OccurrencesFinite, FS_CardinalityType DEF Occurrences
<1>2. C = A \cup B /\ A \cap B = {}
  OBVIOUS
<1> HIDE DEF A, B, C
<1>3. Cardinality(A \cup B) = Cardinality(A) + Cardinality(B) - Cardinality(A \cap B)
  BY <1>1, FS_Union
<1>4. Cardinality(A \cap B) = 0
  BY <1>2, FS_EmptySet
<1>5. QED BY <1>1, <1>2, <1>3, <1>4

\* Everything is counted in the set of everything.
LEMMA OccurrencesAll ==
    ASSUME NEW S, NEW s \in Seq(S), NEW T, S \subseteq T
    PROVE  Occurrences(s, T) = Len(s)
<1>1. Len(s) \in Nat /\ \A i \in 1 .. Len(s) : s[i] \in T
  BY LenProperties, ElementOfSeq
<1>2. {i \in 1 .. Len(s) : s[i] \in T} = 1 .. Len(s)
  BY <1>1
<1>3. Cardinality(1 .. Len(s)) = Len(s)
  BY <1>1, FS_Interval
<1>4. QED BY <1>2, <1>3 DEF Occurrences

\* The first entries of a queue.
LEMMA OccurrencesPrefix ==
    ASSUME NEW S, NEW s \in Seq(S), NEW T, NEW n \in 0 .. Len(s)
    PROVE  Occurrences(SubSeq(s, 1, n), T) <= Occurrences(s, T)
<1> DEFINE t == SubSeq(s, 1, n)
           A == {i \in 1 .. Len(s) : s[i] \in T}
           B == {i \in 1 .. Len(t) : t[i] \in T}
<1>1. Len(s) \in Nat
  BY LenProperties
<1>2. /\ Len(t) = n
      /\ \A i \in 1 .. n : t[i] = s[i]
  BY <1>1, SubSeqProperties
<1>3. B \in SUBSET A
  BY <1>1, <1>2
<1>4. IsFiniteSet(A)
  BY OccurrencesFinite
<1>5. Occurrences(s, T) = Cardinality(A) /\ Occurrences(t, T) = Cardinality(B)
  BY DEF Occurrences
<1> HIDE DEF A, B, t
<1>6. Cardinality(B) <= Cardinality(A)
  BY <1>3, <1>4, FS_Subset
<1>7. QED BY <1>5, <1>6 DEF t

\* One queue behind another.
LEMMA OccurrencesConcat ==
    ASSUME NEW S, NEW s \in Seq(S), NEW t \in Seq(S), NEW T
    PROVE  /\ s \o t \in Seq(S)
           /\ Occurrences(s \o t, T) = Occurrences(s, T) + Occurrences(t, T)
<1> DEFINE u == s \o t
           A == {i \in 1 .. Len(s) : s[i] \in T}
           B == {i \in 1 .. Len(t) : t[i] \in T}
           C == {i \in 1 .. Len(u) : u[i] \in T}
           D == C \ A
           f == [j \in B |-> Len(s) + j]
<1>1. Len(s) \in Nat /\ Len(t) \in Nat
  BY LenProperties
<1>2. /\ u \in Seq(S) /\ Len(u) = Len(s) + Len(t)
      /\ \A i \in 1 .. Len(s) + Len(t) : u[i] = IF i <= Len(s) THEN s[i] ELSE t[i - Len(s)]
  BY ConcatProperties
<1> HIDE DEF u
<1>3. C = A \cup D /\ A \cap D = {}
  <2>1. A \subseteq C
    BY <1>1, <1>2
  <2>2. QED BY <2>1
<1>4. /\ IsFiniteSet(A) /\ Cardinality(A) \in Nat
      /\ IsFiniteSet(B) /\ Cardinality(B) \in Nat
  BY OccurrencesFinite, FS_CardinalityType
<1>5. \A j \in B : f[j] \in D
  <2> SUFFICES ASSUME NEW j \in B PROVE Len(s) + j \in D
    OBVIOUS
  <2>1. Len(s) + j \in 1 .. Len(u) /\ ~(Len(s) + j <= Len(s)) /\ (Len(s) + j) - Len(s) = j
    BY <1>1, <1>2
  <2>2. u[Len(s) + j] = t[j]
    BY <1>2, <2>1
  <2>3. Len(s) + j \notin A
    BY <1>1, <2>1
  <2>4. QED BY <2>1, <2>2, <2>3
<1>6. \A d \in D : \E j \in B : f[j] = d
  <2> SUFFICES ASSUME NEW d \in D PROVE \E j \in B : f[j] = d
    OBVIOUS
  <2>1. d \in 1 .. Len(s) + Len(t) /\ u[d] \in T /\ d \notin A
    BY <1>2
  <2>2. ~(d <= Len(s))
    BY <1>1, <1>2, <2>1
  <2>3. d - Len(s) \in 1 .. Len(t) /\ u[d] = t[d - Len(s)] /\ Len(s) + (d - Len(s)) = d
    BY <1>1, <1>2, <2>1, <2>2
  <2>4. d - Len(s) \in B
    BY <2>1, <2>3
  <2>5. QED BY <2>3, <2>4
<1>7. \A j, k \in B : f[j] = f[k] => j = k
  BY <1>1
<1>8. ExistsBijection(B, D)
  <2>1. f \in [B -> D]
    BY <1>5
  <2> HIDE DEF f, A, B, C, D
  <2>2. f \in Bijection(B, D)
    BY <2>1, <1>6, <1>7 DEF Bijection, Injection, Surjection, IsInjective
  <2>3. QED BY <2>2 DEF ExistsBijection
<1>9. Occurrences(s, T) = Cardinality(A) /\ Occurrences(t, T) = Cardinality(B)
      /\ Occurrences(u, T) = Cardinality(C)
  BY DEF Occurrences
<1> HIDE DEF A, B, C, D, f
<1>10. IsFiniteSet(D) /\ Cardinality(D) = Cardinality(B)
  BY <1>4, <1>8, FS_Bijection
<1>11. Cardinality(A \cup D) = Cardinality(A) + Cardinality(D) - Cardinality(A \cap D)
  BY <1>4, <1>10, FS_Union
<1>12. Cardinality(A \cap D) = 0
  BY <1>3, FS_EmptySet
<1>13. Occurrences(u, T) = Occurrences(s, T) + Occurrences(t, T)
  BY <1>3, <1>4, <1>9, <1>10, <1>11, <1>12
<1>14. QED BY <1>2, <1>13 DEF u

\* Where every kind of entry occurs at most as often as its counterpart, all of
\* them together do.
LEMMA OccurrencesByKind ==
    ASSUME NEW S, NEW s \in Seq(S), NEW R, NEW u \in Seq(R), NEW K,
           NEW a \in [K -> SUBSET S], NEW b \in [K -> SUBSET R],
           \A k, l \in K : k # l => b[k] \cap b[l] = {},
           \A k \in K : Occurrences(s, a[k]) <= Occurrences(u, b[k])
    PROVE  Occurrences(s, UNION {a[k] : k \in K}) <= Occurrences(u, UNION {b[k] : k \in K})
<1> DEFINE At(k) == {i \in 1 .. Len(s) : s[i] \in a[k]}
           To(k) == {i \in 1 .. Len(u) : u[i] \in b[k]}
           A == {i \in 1 .. Len(s) : s[i] \in UNION {a[k] : k \in K}}
           B == {i \in 1 .. Len(u) : u[i] \in UNION {b[k] : k \in K}}
           kind == [i \in A |-> CHOOSE k \in K : i \in At(k)]
           mate == [k \in K |-> CHOOSE f : f \in Injection(At(k), To(k))]
           g == [i \in A |-> mate[kind[i]][i]]
<1>1. \A k \in K : Injection(At(k), To(k)) # {}
  <2> TAKE k \in K
  <2>12. IsFiniteSet(At(k)) /\ IsFiniteSet(To(k))
    BY OccurrencesFinite
  <2>13. Cardinality(At(k)) <= Cardinality(To(k))
    BY DEF Occurrences
  <2>1. /\ IsFiniteSet(At(k)) /\ IsFiniteSet(To(k))
        /\ Cardinality(At(k)) <= Cardinality(To(k))
        /\ Cardinality(At(k)) \in Nat /\ Cardinality(To(k)) \in Nat
    BY <2>12, <2>13, FS_CardinalityType
  <2> DEFINE P == At(k)
             Q == To(k)
             n == Cardinality(P)
             m == Cardinality(Q)
  <2> HIDE DEF P, Q, At, To
  <2>2. IsFiniteSet(P) /\ IsFiniteSet(Q) /\ n \in Nat /\ m \in Nat /\ n <= m
    BY <2>1 DEF P, Q
  <2>3. ExistsBijection(1 .. n, P) /\ ExistsBijection(1 .. m, Q)
    BY <2>2, FS_CardinalityType
  <2>4. ExistsBijection(P, 1 .. n)
    <3>1. IsFiniteSet(1 .. n) /\ Cardinality(1 .. n) = n
      BY <2>2, FS_Interval
    <3>2. QED BY <2>2, <3>1, FS_SameCardinalityBij
  <2> HIDE DEF n, m
  <2>5. PICK f : f \in Bijection(P, 1 .. n)
    BY <2>4 DEF ExistsBijection
  <2>6. PICK h : h \in Bijection(1 .. m, Q)
    BY <2>3 DEF ExistsBijection
  <2>7. /\ f \in [P -> 1 .. n] /\ \A x, y \in P : f[x] = f[y] => x = y
        /\ h \in [1 .. m -> Q] /\ \A x, y \in 1 .. m : h[x] = h[y] => x = y
    BY <2>5, <2>6 DEF Bijection, Injection, IsInjective
  <2>8. \A x \in P : f[x] \in 1 .. m
    BY <2>2, <2>7
  <2>9. [x \in P |-> h[f[x]]] \in Injection(P, Q)
    <3>1. [x \in P |-> h[f[x]]] \in [P -> Q]
      BY <2>7, <2>8
    <3>2. \A x, y \in P : h[f[x]] = h[f[y]] => x = y
      BY <2>7, <2>8
    <3>3. QED BY <3>1, <3>2 DEF Injection, IsInjective
  <2>10. Injection(P, Q) # {}
    BY <2>9
  <2>11. QED BY <2>10 DEF P, Q
<1>2. \A k \in K : mate[k] \in Injection(At(k), To(k))
  BY <1>1
<1>3. \A i \in A : kind[i] \in K /\ i \in At(kind[i])
  <2> TAKE i \in A
  <2>1. \E k \in K : i \in At(k)
    OBVIOUS
  <2>2. (CHOOSE k \in K : i \in At(k)) \in K /\ i \in At(CHOOSE k \in K : i \in At(k))
    BY <2>1
  <2>3. QED BY <2>2
<1> HIDE DEF kind, mate
<1>4. \A i \in A : g[i] \in To(kind[i])
  <2> SUFFICES ASSUME NEW i \in A PROVE g[i] \in To(kind[i])
    OBVIOUS
  <2>1. mate[kind[i]] \in [At(kind[i]) -> To(kind[i])] /\ i \in At(kind[i])
    BY <1>2, <1>3 DEF Injection
  <2>2. g[i] = mate[kind[i]][i]
    OBVIOUS
  <2> HIDE DEF A, At, To, g
  <2>3. QED BY <2>1, <2>2
<1>5. \A k \in K : To(k) \subseteq B
  OBVIOUS
<1>6. g \in [A -> B]
  BY <1>3, <1>4, <1>5
<1>7. \A i, j \in A : g[i] = g[j] => i = j
  <2> SUFFICES ASSUME NEW i \in A, NEW j \in A, g[i] = g[j] PROVE i = j
    OBVIOUS
  <2>1. u[g[i]] \in b[kind[i]] /\ u[g[i]] \in b[kind[j]]
    BY <1>4
  <2>2. kind[i] = kind[j]
    BY <1>3, <2>1
  <2>3. mate[kind[i]][i] = mate[kind[i]][j]
    BY <2>2
  <2>4. i \in At(kind[i]) /\ j \in At(kind[i]) /\ kind[i] \in K
    BY <1>3, <2>2
  <2>5. \A x, y \in At(kind[i]) : mate[kind[i]][x] = mate[kind[i]][y] => x = y
    BY <1>2, <2>4 DEF Injection, IsInjective
  <2>6. QED BY <2>3, <2>4, <2>5
<1>8. IsFiniteSet(B)
  BY OccurrencesFinite
<1>9. Occurrences(s, UNION {a[k] : k \in K}) = Cardinality(A)
      /\ Occurrences(u, UNION {b[k] : k \in K}) = Cardinality(B)
  BY DEF Occurrences
<1> HIDE DEF A, B, g
<1>10. Cardinality(A) <= Cardinality(B)
  BY <1>6, <1>7, <1>8, MatesBound
<1>11. QED BY <1>9, <1>10

\* One entry more, one less, one for another: how often anything occurs, and
\* what is there at all.
Gained(s, t, x) ==
    /\ \A T : Occurrences(t, T) = Occurrences(s, T) + IF x \in T THEN 1 ELSE 0
    /\ ToSet(t) = ToSet(s) \cup {x}
Lost(s, t, x) ==
    /\ \A T : Occurrences(s, T) = Occurrences(t, T) + IF x \in T THEN 1 ELSE 0
    /\ ToSet(s) = ToSet(t) \cup {x}
Replaced(s, t, x, y) ==
    /\ \A T : Occurrences(t, T) + (IF x \in T THEN 1 ELSE 0)
              = Occurrences(s, T) + IF y \in T THEN 1 ELSE 0
    /\ x \in ToSet(s) /\ y \in ToSet(t)
    /\ ToSet(t) \subseteq ToSet(s) \cup {y} /\ ToSet(s) \subseteq ToSet(t) \cup {x}

\* What is there is what occurs.
LEMMA OccurrencesMember ==
    ASSUME NEW S, NEW s \in Seq(S)
    PROVE  /\ \A x : x \in ToSet(s) <=> Occurrences(s, {x}) > 0
           /\ \A T : Occurrences(s, T) \in Nat
           /\ \A T : Occurrences(s, T) = 0 <=> \A x \in ToSet(s) : x \notin T
<1>1. \A T : Occurrences(s, T) \in Nat
  BY OccurrencesFinite
<1>2. \A T : Occurrences(s, T) = 0 <=> \A i \in 1 .. Len(s) : s[i] \notin T
  BY OccurrencesFew
<1>3. \A x : x \in ToSet(s) <=> \E i \in 1 .. Len(s) : x = s[i]
  BY ToSetMembers
<1>4. \A T : Occurrences(s, T) = 0 <=> \A x \in ToSet(s) : x \notin T
  BY <1>2, <1>3
<1>5. \A x : x \in ToSet(s) <=> Occurrences(s, {x}) # 0
  BY <1>4
<1>6. \A x : Occurrences(s, {x}) # 0 <=> Occurrences(s, {x}) > 0
  BY <1>1
<1>7. QED BY <1>1, <1>4, <1>5, <1>6

LEMMA Moves ==
    ASSUME NEW S, NEW s \in Seq(S)
    PROVE  /\ \A x \in S : Append(s, x) \in Seq(S) /\ Gained(s, Append(s, x), x)
           /\ s # <<>> => /\ Tail(s) \in Seq(S) /\ Head(s) \in S
                          /\ Lost(s, Tail(s), Head(s))
           /\ \A i \in 1 .. Len(s) : RemoveAt(s, i) \in Seq(S) /\ Lost(s, RemoveAt(s, i), s[i])
           /\ \A i \in 1 .. Len(s) : \A x \in S :
                /\ [s EXCEPT ![i] = x] \in Seq(S)
                /\ Replaced(s, [s EXCEPT ![i] = x], s[i], x)
<1>1. ASSUME NEW t \in Seq(S), NEW x,
             \A T : Occurrences(s, T) = Occurrences(t, T) + IF x \in T THEN 1 ELSE 0
      PROVE  Lost(s, t, x)
  <2>1. ASSUME NEW y PROVE y \in ToSet(s) <=> y \in ToSet(t) \/ y = x
    <3>1. Occurrences(s, {y}) = Occurrences(t, {y}) + IF x \in {y} THEN 1 ELSE 0
      BY <1>1
    <3>2. Occurrences(s, {y}) \in Nat /\ Occurrences(t, {y}) \in Nat
      BY OccurrencesMember
    <3>3. x \in {y} <=> y = x
      OBVIOUS
    <3>4. Occurrences(s, {y}) > 0 <=> Occurrences(t, {y}) > 0 \/ y = x
      BY <3>1, <3>2, <3>3
    <3>5. QED BY <3>4, OccurrencesMember
  <2>2. ToSet(s) = ToSet(t) \cup {x}
    BY <2>1
  <2>3. QED BY <1>1, <2>2 DEF Lost
<1>2. ASSUME NEW x \in S PROVE Append(s, x) \in Seq(S) /\ Gained(s, Append(s, x), x)
  <2>1. \A T : Occurrences(Append(s, x), T) = Occurrences(s, T) + IF x \in T THEN 1 ELSE 0
    BY OccurrencesProperties
  <2>2. QED BY <2>1, ToSetProperties DEF Gained
<1>3. ASSUME s # <<>> PROVE Tail(s) \in Seq(S) /\ Head(s) \in S /\ Lost(s, Tail(s), Head(s))
  <2>1. Tail(s) \in Seq(S) /\ Head(s) \in S
    BY <1>3, ToSetProperties
  <2>2. \A T : Occurrences(s, T) = Occurrences(Tail(s), T) + IF Head(s) \in T THEN 1 ELSE 0
    BY <1>3, OccurrencesProperties
  <2>3. QED BY <1>1, <2>1, <2>2
<1>4. ASSUME NEW i \in 1 .. Len(s)
      PROVE  RemoveAt(s, i) \in Seq(S) /\ Lost(s, RemoveAt(s, i), s[i])
  <2>1. RemoveAt(s, i) \in Seq(S)
    BY ToSetProperties
  <2>2. \A T : Occurrences(s, T) = Occurrences(RemoveAt(s, i), T) + IF s[i] \in T THEN 1 ELSE 0
    BY OccurrencesProperties
  <2>3. QED BY <1>1, <2>1, <2>2
<1>5. ASSUME NEW i \in 1 .. Len(s), NEW x \in S
      PROVE  /\ [s EXCEPT ![i] = x] \in Seq(S)
             /\ Replaced(s, [s EXCEPT ![i] = x], s[i], x)
  <2> DEFINE t == [s EXCEPT ![i] = x]
  <2>1. /\ t \in Seq(S) /\ Len(t) = Len(s) /\ t[i] = x
        /\ \A j \in 1 .. Len(s) : j # i => t[j] = s[j]
    BY ExceptSeq
  <2>2. \A T : Occurrences(t, T) + (IF s[i] \in T THEN 1 ELSE 0)
              = Occurrences(s, T) + (IF x \in T THEN 1 ELSE 0)
    BY OccurrencesReplaced
  <2> HIDE DEF t
  <2>3. /\ \A y : y \in ToSet(s) <=> \E j \in 1 .. Len(s) : y = s[j]
        /\ \A y : y \in ToSet(t) <=> \E j \in 1 .. Len(s) : y = t[j]
    BY <2>1, ToSetMembers
  <2>4. /\ s[i] \in ToSet(s) /\ x \in ToSet(t)
        /\ ToSet(t) \subseteq ToSet(s) \cup {x} /\ ToSet(s) \subseteq ToSet(t) \cup {s[i]}
    BY <2>1, <2>3
  <2>5. QED BY <2>1, <2>2, <2>4 DEF t, Replaced
<1>6. QED BY <1>2, <1>3, <1>4, <1>5
-----------------------------------------------------------------------------
(* Induction, concatenation, and sequences of sequences put one after the other *)

\* The installed provers cannot apply an induction rule to a predicate; they can
\* to a set.
LEMMA SetInduction ==
    ASSUME NEW S, 0 \in S, \A n \in Nat : n \in S => n + 1 \in S
    PROVE  Nat \subseteq S
<1> DEFINE R == {p \in Nat \X Nat : p[1] < p[2]}
<1>1. IsWellFoundedOn(R, Nat)
  BY NatLessThanWellFounded DEF OpToRel
<1> HIDE DEF R
<1>2. SUFFICES ASSUME Nat \ S # {} PROVE FALSE
  OBVIOUS
<1>3. PICK x \in Nat \ S : \A y \in Nat \ S : ~(<<y, x>> \in R)
  BY <1>1, <1>2, WFMin
<1>4. x # 0 /\ x \in Nat
  BY <1>3
<1>5. x - 1 \in Nat /\ x - 1 < x /\ x = (x - 1) + 1
  BY <1>4
<1>6. x - 1 \in S
  BY <1>3, <1>4, <1>5 DEF R
<1>7. QED BY <1>3, <1>5, <1>6

\* The greatest of the first n + 1 positions.
LEMMA TopOf ==
    ASSUME NEW n \in Nat, NEW T \in SUBSET (1 .. n + 1), n + 1 \in T
    PROVE  Max(T) = n + 1
<1>1. \A y \in T : n + 1 >= y
  OBVIOUS
<1>2. \A x \in T : (\A y \in T : x >= y) => x = n + 1
  OBVIOUS
<1>3. QED BY <1>1, <1>2 DEF Max

\* Concatenation under a name: the provers expand \o element by element, and
\* apply lemmas to a name.
Cat(a, b) == a \o b

\* What concatenation gives.
LEMMA CatType ==
    ASSUME NEW S, NEW a \in Seq(S), NEW b \in Seq(S)
    PROVE  Cat(a, b) \in Seq(S)
BY ConcatProperties DEF Cat

\* Its length.
LEMMA CatLen ==
    ASSUME NEW S, NEW a \in Seq(S), NEW b \in Seq(S)
    PROVE  Len(Cat(a, b)) = Len(a) + Len(b) /\ Len(a) \in Nat /\ Len(b) \in Nat
BY ConcatProperties, LenProperties DEF Cat

\* Its elements.
LEMMA CatElements ==
    ASSUME NEW S, NEW a \in Seq(S), NEW b \in Seq(S)
    PROVE  /\ \A i \in 1 .. Len(a) : Cat(a, b)[i] = a[i]
           /\ \A i \in 1 .. Len(b) : \A k \in Nat : k = Len(a) + i => Cat(a, b)[k] = b[i]
<1>1. /\ \A i \in 1 .. Len(a) + Len(b) :
            Cat(a, b)[i] = IF i <= Len(a) THEN a[i] ELSE b[i - Len(a)]
      /\ Len(a) \in Nat /\ Len(b) \in Nat
  BY ConcatProperties, LenProperties DEF Cat
<1>2. ASSUME NEW i \in 1 .. Len(a) PROVE Cat(a, b)[i] = a[i]
  <2>1. i \in 1 .. Len(a) + Len(b) /\ i <= Len(a)
    BY <1>1
  <2>2. QED BY <1>1, <2>1
<1>3. ASSUME NEW i \in 1 .. Len(b), NEW k \in Nat, k = Len(a) + i PROVE Cat(a, b)[k] = b[i]
  <2>1. k \in 1 .. Len(a) + Len(b) /\ ~(k <= Len(a)) /\ k - Len(a) = i
    BY <1>1, <1>3
  <2>2. Cat(a, b)[k] = b[k - Len(a)]
    BY <1>1, <2>1
  <2>3. QED BY <2>1, <2>2
<1>4. QED BY <1>2, <1>3

LEMMA CatAssociative ==
    ASSUME NEW S, NEW a \in Seq(S), NEW b \in Seq(S), NEW c \in Seq(S)
    PROVE  Cat(Cat(a, b), c) = Cat(a, Cat(b, c))
BY ConcatAssociative DEF Cat

LEMMA CatEmpty ==
    ASSUME NEW S, NEW a \in Seq(S)
    PROVE  Cat(a, <<>>) = a /\ Cat(<<>>, a) = a
BY ConcatEmptySeq DEF Cat

\* Nothing comes of nothing only.
LEMMA CatNothing ==
    ASSUME NEW S, NEW a \in Seq(S), NEW b \in Seq(S), Cat(a, b) = <<>>
    PROVE  a = <<>> /\ b = <<>>
<1>1. a \o b = <<>>
  BY DEF Cat
<1>2. QED BY ONLY <1>1, a \in Seq(S), b \in Seq(S), ConcatEqualIffEmpty

\* The function that FlattenSeq defines.
FlattensTo(s, n, F) == F = [i \in 1 .. n |-> IF i = 1 THEN s[i] ELSE F[i - 1] \o s[i]]

\* There is such a function, as many sequences as there may be.
LEMMA FlatExists == \A s : \A n \in Nat : \E F : FlattensTo(s, n, F)
<1> SUFFICES ASSUME NEW s PROVE \A n \in Nat : \E F : FlattensTo(s, n, F)
  OBVIOUS
<1> DEFINE S == {n \in Nat : \E F : FlattensTo(s, n, F)}
<1>1. 0 \in S
  <2> DEFINE F == [i \in 1 .. 0 |-> s[i]]
  <2>1. FlattensTo(s, 0, F)
    BY DEF FlattensTo
  <2>2. QED BY <2>1
<1>2. ASSUME NEW n \in Nat, n \in S PROVE n + 1 \in S
  <2>1. PICK F : FlattensTo(s, n, F)
    BY <1>2
  <2> DEFINE H(i) == IF i = 1 THEN s[i] ELSE F[i - 1] \o s[i]
             G == [i \in 1 .. n + 1 |-> H(i)]
  <2>2. ASSUME NEW i \in 1 .. n PROVE G[i] = F[i]
    <3>1. F[i] = H(i)
      BY <2>1 DEF FlattensTo
    <3>2. i \in 1 .. n + 1
      OBVIOUS
    <3> HIDE DEF H
    <3>3. QED BY <3>1, <3>2
  <2>3. ASSUME NEW i \in 1 .. n + 1
        PROVE  H(i) = IF i = 1 THEN s[i] ELSE G[i - 1] \o s[i]
    <3>1. i # 1 => i - 1 \in 1 .. n
      OBVIOUS
    <3> HIDE DEF G
    <3>2. QED BY <2>2, <3>1
  <2>4. G = [i \in 1 .. n + 1 |-> IF i = 1 THEN s[i] ELSE G[i - 1] \o s[i]]
    <3> HIDE DEF H
    <3>1. QED BY <2>3
  <2>5. FlattensTo(s, n + 1, G)
    <3> HIDE DEF G
    <3>1. QED BY <2>4 DEF FlattensTo
  <2>6. QED BY <2>5
<1>3. Nat \subseteq S
  <2> HIDE DEF S
  <2>1. QED BY <1>1, <1>2, SetInduction
<1>4. QED BY <1>3

\* FlattenSeq is its last value.
LEMMA FlattenIs ==
    ASSUME NEW s, Len(s) \in Nat \ {0}
    PROVE  \E G : FlattensTo(s, Len(s), G) /\ FlattenSeq(s) = G[Len(s)]
<1> DEFINE G == CHOOSE F : FlattensTo(s, Len(s), F)
<1>1. FlattensTo(s, Len(s), G)
  BY FlatExists
<1>2. FlattenSeq(s) = G[Len(s)]
  BY DEF FlattenSeq, FlattensTo
<1>3. QED BY <1>1, <1>2

\* One sequence more.
LEMMA FlattenStep ==
    ASSUME NEW S, NEW s \in Seq(Seq(S)), NEW x \in Seq(S)
    PROVE  FlattenSeq(Append(s, x)) = IF s = <<>> THEN x ELSE FlattenSeq(s) \o x
<1> DEFINE t == Append(s, x)
<1>1. /\ Len(t) = Len(s) + 1 /\ t[Len(s) + 1] = x /\ Len(s) \in Nat
      /\ \A i \in 1 .. Len(s) : t[i] = s[i]
  BY AppendProperties, LenProperties
<1> HIDE DEF t
<1>2. PICK H : FlattensTo(t, Len(t), H) /\ FlattenSeq(t) = H[Len(t)]
  <2>1. Len(t) \in Nat \ {0}
    BY <1>1
  <2>2. QED BY <2>1, FlattenIs
<1>3. \A i \in 1 .. Len(s) + 1 : H[i] = IF i = 1 THEN t[i] ELSE H[i - 1] \o t[i]
  BY <1>1, <1>2 DEF FlattensTo
<1>4. CASE s = <<>>
  <2>1. Len(s) = 0 /\ 1 \in 1 .. Len(s) + 1
    BY <1>1, <1>4, EmptySeq
  <2>2. H[1] = t[1]
    BY <1>3, <2>1
  <2>3. QED BY <1>1, <1>2, <1>4, <2>1, <2>2 DEF t
<1>5. CASE s # <<>>
  <2>1. Len(s) \in Nat \ {0}
    BY <1>1, <1>5, EmptySeq
  <2>2. PICK G : FlattensTo(s, Len(s), G) /\ FlattenSeq(s) = G[Len(s)]
    BY <2>1, FlattenIs
  <2>3. \A i \in 1 .. Len(s) : G[i] = IF i = 1 THEN s[i] ELSE G[i - 1] \o s[i]
    BY <2>2 DEF FlattensTo
  <2> DEFINE K == {k \in Nat : k + 1 <= Len(s) => G[k + 1] = H[k + 1]}
  <2>4. 0 \in K
    <3>1. 1 \in 1 .. Len(s) /\ 1 \in 1 .. Len(s) + 1
      BY <2>1
    <3>2. QED BY <1>1, <1>3, <2>3, <3>1
  <2>5. ASSUME NEW k \in Nat, k \in K PROVE k + 1 \in K
    <3>1. SUFFICES ASSUME k + 1 + 1 <= Len(s) PROVE G[k + 1 + 1] = H[k + 1 + 1]
      OBVIOUS
    <3>2. PICK j : j = k + 1 + 1 /\ j - 1 = k + 1
      OBVIOUS
    <3>3. j \in 1 .. Len(s) /\ j \in 1 .. Len(s) + 1 /\ j # 1 /\ k + 1 <= Len(s)
      BY <1>1, <3>1, <3>2
    <3>4. G[j - 1] = H[j - 1]
      BY <2>5, <3>2, <3>3
    <3>5. G[j] = G[j - 1] \o s[j] /\ H[j] = H[j - 1] \o t[j] /\ t[j] = s[j]
      BY <1>1, <1>3, <2>3, <3>3
    <3>6. G[j] = H[j]
      BY <3>4, <3>5
    <3>7. QED BY <3>2, <3>6
  <2>6. Nat \subseteq K
    <3> HIDE DEF K
    <3>1. QED BY <2>4, <2>5, SetInduction
  <2>7. G[Len(s)] = H[Len(s)]
    <3>1. \A k \in Nat : k + 1 <= Len(s) => G[k + 1] = H[k + 1]
      BY <2>6
    <3>2. PICK k \in Nat : k + 1 = Len(s)
      <4>1. Len(s) - 1 \in Nat /\ Len(s) - 1 + 1 = Len(s)
        BY ONLY <2>1
      <4>2. QED BY ONLY <4>1
    <3>3. k + 1 <= Len(s)
      BY ONLY <2>1, <3>2
    <3>4. QED BY ONLY <3>1, <3>2, <3>3
  <2>8. PICK m : m = Len(s) + 1
    OBVIOUS
  <2>9. m \in 1 .. Len(s) + 1 /\ m # 1 /\ m - 1 = Len(s)
    BY ONLY <2>1, <2>8
  <2>10. H[Len(s) + 1] = G[Len(s)] \o x
    <3>1. H[m] = H[m - 1] \o t[m]
      BY ONLY <1>3, <2>9
    <3>2. QED BY <1>1, <2>7, <2>8, <2>9, <3>1
  <2>11. QED BY <1>1, <1>2, <1>5, <2>2, <2>10 DEF t
<1>6. QED BY <1>4, <1>5

\* Of no sequence comes nothing.
LEMMA FlattenNothing == FlattenSeq(<<>>) = <<>>
<1>1. Len(<<>>) = 0
  OBVIOUS
<1>2. QED BY <1>1 DEF FlattenSeq

\* What comes of sequences is one.
LEMMA FlattenType ==
    ASSUME NEW S, NEW s \in Seq(Seq(S))
    PROVE  FlattenSeq(s) \in Seq(S)
<1> DEFINE K == {k \in Nat : \A t \in Seq(Seq(S)) : Len(t) = k => FlattenSeq(t) \in Seq(S)}
<1>1. 0 \in K
  <2>1. SUFFICES ASSUME NEW t \in Seq(Seq(S)), Len(t) = 0 PROVE FlattenSeq(t) \in Seq(S)
    OBVIOUS
  <2>2. t = <<>>
    BY <2>1, EmptySeq
  <2>3. QED BY <2>2, FlattenNothing, EmptySeq
<1>2. ASSUME NEW k \in Nat, k \in K PROVE k + 1 \in K
  <2>1. SUFFICES ASSUME NEW t \in Seq(Seq(S)), Len(t) = k + 1 PROVE FlattenSeq(t) \in Seq(S)
    OBVIOUS
  <2>2. t # <<>>
    BY <2>1, EmptySeq
  <2>3. PICK u \in Seq(Seq(S)), x \in Seq(S) : t = Append(u, x)
    BY <2>2, SequenceEmptyOrAppend
  <2>4. Len(t) = Len(u) + 1 /\ Len(u) \in Nat
    BY <2>3, AppendProperties, LenProperties
  <2>5. Len(u) = k
    BY <2>1, <2>4
  <2>6. FlattenSeq(u) \in Seq(S)
    BY <1>2, <2>5
  <2>7. FlattenSeq(u) \o x \in Seq(S)
    BY <2>6, ConcatProperties
  <2>8. QED BY <2>3, <2>7, FlattenStep
<1>3. Nat \subseteq K
  <2> HIDE DEF K
  <2>1. QED BY <1>1, <1>2, SetInduction
<1>4. Len(s) \in K
  BY <1>3, LenProperties
<1>5. QED BY <1>4

\* One sequence more at the end.
LEMMA FlattenAppend ==
    ASSUME NEW S, NEW s \in Seq(Seq(S)), NEW x \in Seq(S)
    PROVE  /\ FlattenSeq(s) \in Seq(S)
           /\ FlattenSeq(Append(s, x)) = Cat(FlattenSeq(s), x)
<1>1. FlattenSeq(s) \in Seq(S)
  BY FlattenType
<1>2. CASE s = <<>>
  <2>1. Cat(<<>>, x) = x
    BY CatEmpty
  <2>2. QED BY <1>1, <1>2, <2>1, FlattenStep, FlattenNothing
<1>3. CASE s # <<>>
  BY <1>1, <1>3, FlattenStep DEF Cat
<1>4. QED BY <1>2, <1>3

\* What begins with a sequence goes on in one way.
LEMMA CatCancel ==
    ASSUME NEW S, NEW a \in Seq(S), NEW b \in Seq(S), NEW c \in Seq(S), NEW d \in Seq(S),
           Cat(a, b) = Cat(c, d), Len(a) = Len(c)
    PROVE  a = c /\ b = d
<1>1. Len(a) \in Nat /\ Len(b) \in Nat /\ Len(d) \in Nat /\ Len(b) = Len(d)
  <2>1. Len(Cat(a, b)) = Len(a) + Len(b) /\ Len(a) \in Nat /\ Len(b) \in Nat
    BY CatLen
  <2>2. Len(Cat(c, d)) = Len(c) + Len(d) /\ Len(c) \in Nat /\ Len(d) \in Nat
    BY CatLen
  <2>3. QED BY <2>1, <2>2
<1>2. \A i \in 1 .. Len(a) : a[i] = c[i]
  <2>1. \A i \in 1 .. Len(a) : Cat(a, b)[i] = a[i]
    BY ONLY a \in Seq(S), b \in Seq(S), CatElements
  <2>2. \A i \in 1 .. Len(c) : Cat(c, d)[i] = c[i]
    BY ONLY c \in Seq(S), d \in Seq(S), CatElements
  <2>3. QED BY <2>1, <2>2
<1>3. \A i \in 1 .. Len(b) : b[i] = d[i]
  <2>1. \A i \in 1 .. Len(b) : \A k \in Nat : k = Len(a) + i => Cat(a, b)[k] = b[i]
    BY ONLY a \in Seq(S), b \in Seq(S), CatElements
  <2>2. \A i \in 1 .. Len(d) : \A k \in Nat : k = Len(c) + i => Cat(c, d)[k] = d[i]
    BY ONLY c \in Seq(S), d \in Seq(S), CatElements
  <2>3. SUFFICES ASSUME NEW i \in 1 .. Len(b) PROVE b[i] = d[i]
    OBVIOUS
  <2>4. PICK k \in Nat : k = Len(a) + i
    BY <1>1
  <2>5. QED BY <1>1, <2>1, <2>2, <2>4
<1>4. a = c
  BY <1>2, SeqEqual
<1>5. b = d
  BY <1>1, <1>3, SeqEqual
<1>6. QED BY <1>4, <1>5

\* A sequence cut in two.
LEMMA CatCut ==
    ASSUME NEW S, NEW a \in Seq(S), NEW n \in Nat, n <= Len(a)
    PROVE  /\ SubSeq(a, 1, n) \in Seq(S) /\ SubSeq(a, n + 1, Len(a)) \in Seq(S)
           /\ Len(SubSeq(a, 1, n)) = n /\ Len(SubSeq(a, n + 1, Len(a))) = Len(a) - n
           /\ a = Cat(SubSeq(a, 1, n), SubSeq(a, n + 1, Len(a)))
<1>1. Len(a) \in Nat
  BY LenProperties
<1>2. \A i \in 1 .. n : a[i] \in S
  <2>1. \A i \in 1 .. n : i \in 1 .. Len(a)
    BY <1>1
  <2>2. QED BY <2>1, ElementOfSeq
<1>3. \A i \in n + 1 .. Len(a) : a[i] \in S
  <2>1. \A i \in n + 1 .. Len(a) : i \in 1 .. Len(a)
    BY <1>1
  <2>2. QED BY <2>1, ElementOfSeq
<1>4. /\ SubSeq(a, 1, n) \in Seq(S)
      /\ Len(SubSeq(a, 1, n)) = IF 1 <= n THEN n - 1 + 1 ELSE 0
  BY <1>2, SubSeqProperties
<1>5. /\ SubSeq(a, n + 1, Len(a)) \in Seq(S)
      /\ Len(SubSeq(a, n + 1, Len(a))) = IF n + 1 <= Len(a) THEN Len(a) - (n + 1) + 1 ELSE 0
  <2>1. PICK m : m = n + 1 /\ m \in Int
    OBVIOUS
  <2>2. /\ SubSeq(a, m, Len(a)) \in Seq(S)
        /\ Len(SubSeq(a, m, Len(a))) = IF m <= Len(a) THEN Len(a) - m + 1 ELSE 0
    BY <1>1, <1>3, <2>1, SubSeqProperties
  <2>3. QED BY <2>1, <2>2
<1>6. SubSeq(a, 1, n) \o SubSeq(a, n + 1, Len(a)) = a
  <2>1. 1 \in 1 .. Len(a) + 1 /\ n \in 1 - 1 .. Len(a) /\ Len(a) \in n .. Len(a)
    BY <1>1
  <2>2. SubSeq(a, 1, n) \o SubSeq(a, n + 1, Len(a)) = SubSeq(a, 1, Len(a))
    BY <2>1, ConcatAdjacentSubSeq
  <2>3. QED BY <2>2, SubSeqFull
<1>7. Len(SubSeq(a, 1, n)) = n
  BY <1>4
<1>8. Len(SubSeq(a, n + 1, Len(a))) = Len(a) - n
  BY <1>1, <1>5
<1>9. QED BY <1>4, <1>5, <1>6, <1>7, <1>8 DEF Cat

\* The two cuts of a sequence.
LEMMA CatSplit ==
    ASSUME NEW S, NEW a \in Seq(S), NEW b \in Seq(S), NEW c \in Seq(S), NEW d \in Seq(S),
           Cat(a, b) = Cat(c, d), Len(a) <= Len(c)
    PROVE  \E e \in Seq(S) : c = Cat(a, e) /\ b = Cat(e, d)
<1>1. Len(a) \in Nat
  BY LenProperties
<1> DEFINE f == SubSeq(c, 1, Len(a))
           e == SubSeq(c, Len(a) + 1, Len(c))
<1>2. f \in Seq(S) /\ e \in Seq(S) /\ Len(f) = Len(a) /\ c = Cat(f, e)
  BY <1>1, CatCut
<1> HIDE DEF e, f
<1>3. Cat(c, d) = Cat(f, Cat(e, d))
  BY <1>2, CatAssociative
<1>4. Cat(e, d) \in Seq(S)
  BY <1>2, CatType
<1>5. a = f /\ b = Cat(e, d)
  BY <1>2, <1>3, <1>4, CatCancel
<1>6. QED BY <1>2, <1>5

\* The prefix of a sequence that begins with another one.
LEMMA CatPrefix ==
    ASSUME NEW S, NEW a \in Seq(S), NEW b \in Seq(S)
    PROVE  /\ SubSeq(Cat(a, b), 1, Len(a)) = a
           /\ SubSeq(Cat(a, b), Len(a) + 1, Len(Cat(a, b))) = b
<1> DEFINE c == Cat(a, b)
<1>1. c \in Seq(S)
  BY CatType
<1>2. Len(a) \in Nat /\ Len(a) <= Len(c)
  BY CatLen
<1> DEFINE f == SubSeq(c, 1, Len(a))
           e == SubSeq(c, Len(a) + 1, Len(c))
<1>3. f \in Seq(S) /\ e \in Seq(S) /\ Len(f) = Len(a) /\ c = Cat(f, e)
  <2> HIDE DEF c
  <2>1. QED BY <1>1, <1>2, CatCut
<1> HIDE DEF e, f
<1>4. f = a /\ e = b
  BY <1>3, CatCancel
<1>5. QED BY <1>4 DEF e, f

\* One sequence more of a longer one.
LEMMA FlattenPrefix ==
    ASSUME NEW S, NEW s \in Seq(Seq(S)), NEW k \in Nat, k < Len(s)
    PROVE  /\ s[k + 1] \in Seq(S)
           /\ FlattenSeq(SubSeq(s, 1, k)) \in Seq(S)
           /\ FlattenSeq(SubSeq(s, 1, k + 1)) = Cat(FlattenSeq(SubSeq(s, 1, k)), s[k + 1])
<1>1. Len(s) \in Nat /\ k + 1 \in 1 .. Len(s) /\ 1 \in 1 .. Len(s) /\ k + 1 - 1 = k
  BY LenProperties
<1>2. k + 1 \in 1 .. Len(s) /\ k + 1 \in 1 .. k + 1
  BY <1>1
<1>3. s[k + 1] \in Seq(S)
  BY <1>1, ElementOfSeq
<1>4. SubSeq(s, 1, k) \in Seq(Seq(S))
  <2>1. \A i \in 1 .. k : i \in 1 .. Len(s)
    BY <1>1
  <2>2. \A i \in 1 .. k : s[i] \in Seq(S)
    BY <2>1, ElementOfSeq
  <2>3. QED BY <2>2, SubSeqProperties
<1>5. SubSeq(s, 1, k + 1) = SubSeq(s, 1, k) \o <<s[k + 1]>>
  <2>1. k + 1 \in 1 .. Len(s) /\ 1 \in 1 .. Len(s)
    BY <1>1
  <2>2. SubSeq(s, 1, k + 1) = SubSeq(s, 1, k + 1 - 1) \o <<s[k + 1]>>
    BY <2>1, SubSeqRecursiveSecond
  <2>3. QED BY <1>1, <2>2
<1>6. SubSeq(s, 1, k + 1) = Append(SubSeq(s, 1, k), s[k + 1])
  BY <1>3, <1>4, <1>5, AppendIsConcat
<1>7. QED BY <1>3, <1>4, <1>6, FlattenAppend

\* What is flattened begins with what its first sequences are flattened to.
LEMMA FlattenSplit ==
    ASSUME NEW S, NEW s \in Seq(Seq(S)), NEW k \in Nat, k < Len(s)
    PROVE  \E y \in Seq(S) :
             /\ FlattenSeq(s) = Cat(FlattenSeq(SubSeq(s, 1, k)), Cat(s[k + 1], y))
             /\ k + 1 = Len(s) => y = <<>>
<1>1. Len(s) \in Nat
  BY LenProperties
<1> DEFINE P(n) == FlattenSeq(SubSeq(s, 1, n))
           G(n, y) == P(n) = Cat(P(k), Cat(s[k + 1], y)) /\ (k + 1 = n => y = <<>>)
           K == {d \in Nat : k + 1 + d <= Len(s) => \E y \in Seq(S) : G(k + 1 + d, y)}
<1>2. s[k + 1] \in Seq(S) /\ P(k) \in Seq(S) /\ P(k + 1) = Cat(P(k), s[k + 1])
  BY FlattenPrefix
<1>3. 0 \in K
  <2>1. k + 1 + 0 = k + 1
    OBVIOUS
  <2>2. Cat(s[k + 1], <<>>) = s[k + 1] /\ <<>> \in Seq(S)
    BY <1>2, CatEmpty, EmptySeq
  <2>3. G(k + 1, <<>>)
    BY <1>2, <2>2
  <2> HIDE DEF G
  <2>4. QED BY <2>1, <2>2, <2>3
<1>4. ASSUME NEW d \in Nat, d \in K PROVE d + 1 \in K
  <2> HIDE DEF G
  <2>1. d + 1 \in Nat
    OBVIOUS
  <2>2. SUFFICES ASSUME k + 1 + (d + 1) <= Len(s)
                 PROVE  \E y \in Seq(S) : G(k + 1 + (d + 1), y)
    BY <2>1, Zenon
  <2>3. PICK n : n = k + 1 + d
    OBVIOUS
  <2>4. /\ n \in Nat /\ n < Len(s) /\ k + 1 + (d + 1) = n + 1 /\ k + 1 + d <= Len(s)
        /\ k + 1 # n + 1
    BY ONLY <1>1, <2>2, <2>3, k \in Nat, d \in Nat
  <2>5. s[n + 1] \in Seq(S) /\ P(n) \in Seq(S) /\ P(n + 1) = Cat(P(n), s[n + 1])
    BY <2>4, FlattenPrefix
  <2>6. PICK y \in Seq(S) : G(n, y)
    BY <1>4, <2>3, <2>4
  <2>7. P(n) = Cat(P(k), Cat(s[k + 1], y))
    BY <2>6 DEF G
  <2> HIDE DEF P
  <2>8. Cat(s[k + 1], y) \in Seq(S) /\ Cat(y, s[n + 1]) \in Seq(S)
    BY <1>2, <2>5, CatType
  <2>9. Cat(P(n), s[n + 1]) = Cat(P(k), Cat(Cat(s[k + 1], y), s[n + 1]))
    BY <1>2, <2>5, <2>7, <2>8, CatAssociative
  <2>10. Cat(Cat(s[k + 1], y), s[n + 1]) = Cat(s[k + 1], Cat(y, s[n + 1]))
    BY <1>2, <2>5, CatAssociative
  <2>11. G(n + 1, Cat(y, s[n + 1]))
    BY <2>4, <2>5, <2>9, <2>10 DEF G
  <2>12. QED BY <2>4, <2>8, <2>11
<1>5. Nat \subseteq K
  <2> HIDE DEF K
  <2>1. QED BY <1>3, <1>4, SetInduction
<1>6. PICK d \in Nat : k + 1 + d = Len(s)
  <2>1. Len(s) - (k + 1) \in Nat /\ k + 1 + (Len(s) - (k + 1)) = Len(s)
    BY <1>1
  <2>2. QED BY <2>1
<1>7. \E y \in Seq(S) : G(Len(s), y)
  <2> HIDE DEF G
  <2>1. \E y \in Seq(S) : G(k + 1 + d, y)
    <3>1. k + 1 + d <= Len(s)
      BY ONLY <1>1, <1>6
    <3>2. QED BY <1>5, <3>1
  <2>2. QED BY <1>6, <2>1
<1>8. SubSeq(s, 1, Len(s)) = s
  BY SubSeqFull
<1>9. QED BY <1>7, <1>8

\* Of empty sequences nothing comes.
LEMMA FlattenSilent ==
    ASSUME NEW S, NEW s \in Seq(Seq(S)), NEW n \in Nat, n <= Len(s),
           \A i \in 1 .. n : s[i] = <<>>
    PROVE  FlattenSeq(SubSeq(s, 1, n)) = <<>>
<1>1. Len(s) \in Nat
  BY LenProperties
<1> DEFINE P(m) == FlattenSeq(SubSeq(s, 1, m))
           K == {m \in Nat : m <= n => P(m) = <<>>}
<1>2. 0 \in K
  <2>1. SubSeq(s, 1, 0) = <<>>
    BY SubSeqEmpty
  <2>2. P(0) = <<>>
    BY <2>1, FlattenNothing
  <2>3. QED BY <2>2
<1>3. ASSUME NEW m \in Nat, m \in K PROVE m + 1 \in K
  <2>1. SUFFICES ASSUME m + 1 <= n PROVE P(m + 1) = <<>>
    OBVIOUS
  <2>2. m < Len(s) /\ m <= n /\ m + 1 \in 1 .. n
    BY <1>1, <2>1
  <2>3. P(m + 1) = Cat(P(m), s[m + 1]) /\ P(m) \in Seq(S)
    BY <2>2, FlattenPrefix
  <2>4. P(m) = <<>> /\ s[m + 1] = <<>>
    BY <1>3, <2>2
  <2> HIDE DEF P
  <2>5. Cat(P(m), <<>>) = P(m)
    BY <2>3, CatEmpty
  <2>6. QED BY <2>3, <2>4, <2>5
<1>4. Nat \subseteq K
  <2> HIDE DEF K
  <2>1. QED BY <1>2, <1>3, SetInduction
<1>5. QED BY <1>4

\* The same but for one sequence, that only empty ones precede.
SilentBefore(s, i) == \A j \in 1 .. Len(s) : j < i => s[j] = <<>>
AlikeBut(s, t, i) == \A j \in 1 .. Len(s) : j # i => t[j] = s[j]

\* Two that differ in one place, with nothing before it.
LEMMA FlattenTwo ==
    ASSUME NEW S, NEW s \in Seq(Seq(S)), NEW t \in Seq(Seq(S)), Len(s) = Len(t),
           NEW i \in 1 .. Len(s), SilentBefore(s, i), AlikeBut(s, t, i)
    PROVE  \E y \in Seq(S) : FlattenSeq(s) = Cat(s[i], y) /\ FlattenSeq(t) = Cat(t[i], y)
<1>1. Len(s) \in Nat /\ i \in Nat /\ i >= 1 /\ i <= Len(s)
  BY LenProperties
<1> DEFINE P(n) == FlattenSeq(SubSeq(s, 1, n))
           Q(n) == FlattenSeq(SubSeq(t, 1, n))
           G(n, y) == P(n) = Cat(s[i], y) /\ Q(n) = Cat(t[i], y)
           K == {d \in Nat : i + d <= Len(s) => \E y \in Seq(S) : G(i + d, y)}
<1>2. s[i] \in Seq(S) /\ t[i] \in Seq(S)
  BY ElementOfSeq
<1>3. 0 \in K
  <2>1. PICK h : h = i - 1 /\ h + 1 = i
    BY <1>1
  <2>2. h \in Nat /\ h < Len(s) /\ h <= Len(s)
    BY <1>1, <2>1
  <2>3. \A j \in 1 .. h : s[j] = <<>> /\ t[j] = <<>>
    BY <1>1, <2>1 DEF SilentBefore, AlikeBut
  <2>4. P(h) = <<>> /\ Q(h) = <<>>
    BY <2>2, <2>3, FlattenSilent
  <2>5. P(h + 1) = Cat(P(h), s[h + 1]) /\ Q(h + 1) = Cat(Q(h), t[h + 1])
    BY <2>2, FlattenPrefix
  <2> HIDE DEF P, Q
  <2>6. P(i) = Cat(<<>>, s[i]) /\ Q(i) = Cat(<<>>, t[i])
    BY <2>1, <2>4, <2>5
  <2>7. /\ Cat(<<>>, s[i]) = s[i] /\ Cat(<<>>, t[i]) = t[i]
        /\ Cat(s[i], <<>>) = s[i] /\ Cat(t[i], <<>>) = t[i]
    BY <1>2, CatEmpty
  <2>8. G(i, <<>>) /\ <<>> \in Seq(S)
    BY <2>6, <2>7, EmptySeq
  <2>9. i + 0 = i
    BY <1>1
  <2> HIDE DEF G
  <2>10. QED BY <2>8, <2>9
<1>4. ASSUME NEW d \in Nat, d \in K PROVE d + 1 \in K
  <2> HIDE DEF G
  <2>1. d + 1 \in Nat
    OBVIOUS
  <2>2. SUFFICES ASSUME i + (d + 1) <= Len(s) PROVE \E y \in Seq(S) : G(i + (d + 1), y)
    BY <2>1, Zenon
  <2>3. PICK n : n = i + d
    OBVIOUS
  <2>4. n \in Nat /\ n < Len(s) /\ i + (d + 1) = n + 1 /\ i + d <= Len(s) /\ n + 1 \in 1 .. Len(s)
        /\ n + 1 # i
    BY ONLY <1>1, <2>2, <2>3, d \in Nat
  <2>5. s[n + 1] \in Seq(S) /\ P(n + 1) = Cat(P(n), s[n + 1]) /\ Q(n + 1) = Cat(Q(n), t[n + 1])
    BY <2>4, FlattenPrefix
  <2>6. t[n + 1] = s[n + 1]
    BY <2>4 DEF AlikeBut
  <2>7. PICK y \in Seq(S) : G(n, y)
    BY <1>4, <2>3, <2>4
  <2>8. P(n) = Cat(s[i], y) /\ Q(n) = Cat(t[i], y)
    BY <2>7 DEF G
  <2> HIDE DEF P, Q
  <2>9. Cat(y, s[n + 1]) \in Seq(S)
    BY <2>5, CatType
  <2>10. Cat(Cat(s[i], y), s[n + 1]) = Cat(s[i], Cat(y, s[n + 1]))
    BY <1>2, <2>5, CatAssociative
  <2>11. Cat(Cat(t[i], y), s[n + 1]) = Cat(t[i], Cat(y, s[n + 1]))
    BY <1>2, <2>5, CatAssociative
  <2>12. G(n + 1, Cat(y, s[n + 1]))
    BY <2>5, <2>6, <2>8, <2>10, <2>11 DEF G
  <2>13. QED BY <2>4, <2>9, <2>12
<1>5. Nat \subseteq K
  <2> HIDE DEF K
  <2>1. QED BY <1>3, <1>4, SetInduction
<1>6. PICK d \in Nat : i + d = Len(s)
  <2>1. Len(s) - i \in Nat /\ i + (Len(s) - i) = Len(s)
    BY <1>1
  <2>2. QED BY <2>1
<1>7. \E y \in Seq(S) : G(Len(s), y)
  <2> HIDE DEF G
  <2>1. \E y \in Seq(S) : G(i + d, y)
    <3>1. i + d <= Len(s)
      BY ONLY <1>1, <1>6
    <3>2. QED BY <1>5, <3>1
  <2>2. QED BY <1>6, <2>1
<1>8. SubSeq(s, 1, Len(s)) = s /\ SubSeq(t, 1, Len(s)) = t
  BY SubSeqFull
<1>9. QED BY <1>7, <1>8

\* The same, its hypotheses under one name for the provers to apply it.
TwoOf(S, s, t, i) ==
    /\ s \in Seq(Seq(S)) /\ t \in Seq(Seq(S)) /\ Len(s) = Len(t) /\ i \in 1 .. Len(s)
    /\ SilentBefore(s, i) /\ AlikeBut(s, t, i)

\* The same, with its premises under a name.
LEMMA FlattenTwoOf ==
    ASSUME NEW S, NEW s, NEW t, NEW i, TwoOf(S, s, t, i)
    PROVE  \E y \in Seq(S) : FlattenSeq(s) = Cat(s[i], y) /\ FlattenSeq(t) = Cat(t[i], y)
BY FlattenTwo DEF TwoOf

\* Of a single sequence that is not empty comes that one.
LEMMA FlattenSingle ==
    ASSUME NEW S, NEW s \in Seq(Seq(S)), NEW i \in 1 .. Len(s),
           \A j \in 1 .. Len(s) : j # i => s[j] = <<>>
    PROVE  FlattenSeq(s) = s[i]
<1> DEFINE t == [s EXCEPT ![i] = <<>>]
<1>1. /\ t \in Seq(Seq(S)) /\ Len(t) = Len(s)
      /\ \A j \in 1 .. Len(s) : t[j] = IF j = i THEN <<>> ELSE s[j]
  <2>1. <<>> \in Seq(S)
    BY EmptySeq
  <2>2. QED BY <2>1, ExceptSeq
<1>2. Len(s) \in Nat
  BY LenProperties
<1> HIDE DEF t
<1>3. PICK y \in Seq(S) : FlattenSeq(s) = Cat(s[i], y) /\ FlattenSeq(t) = Cat(t[i], y)
  <2>1. SilentBefore(s, i)
    <3>1. SUFFICES ASSUME NEW j \in 1 .. Len(s), j < i PROVE s[j] = <<>>
      BY DEF SilentBefore
    <3>2. j # i
      BY ONLY <1>2, <3>1, i \in 1 .. Len(s)
    <3>3. QED BY <3>2
  <2>2. AlikeBut(s, t, i)
    BY <1>1 DEF AlikeBut
  <2>3. t \in Seq(Seq(S)) /\ Len(s) = Len(t)
    BY <1>1
  <2>4. QED BY ONLY <2>1, <2>2, <2>3, s \in Seq(Seq(S)), i \in 1 .. Len(s), FlattenTwo
<1>4. FlattenSeq(t) = <<>>
  <2>1. \A j \in 1 .. Len(t) : t[j] = <<>>
    BY <1>1
  <2>2. Len(t) \in Nat /\ Len(t) <= Len(t)
    BY <1>1, <1>2
  <2>3. FlattenSeq(SubSeq(t, 1, Len(t))) = <<>>
    BY ONLY <1>1, <2>1, <2>2, FlattenSilent
  <2>4. QED BY <1>1, <2>3, SubSeqFull
<1>5. t[i] = <<>> /\ Cat(<<>>, y) = y /\ s[i] \in Seq(S)
  BY <1>1, CatEmpty, ElementOfSeq
<1>6. y = <<>>
  BY <1>3, <1>4, <1>5
<1>7. Cat(s[i], <<>>) = s[i]
  BY <1>5, CatEmpty
<1>8. QED BY <1>3, <1>6, <1>7
=============================================================================
