--------------------------- MODULE FramingProofs ---------------------------
(***************************************************************************)
(* Proofs about Framing, for every base, number of digits, set of layouts  *)
(* and set of packets: no byte is lost, and nothing is held back, however  *)
(* writes and reads cut the stream.                                        *)
(*                                                                         *)
(* The first half is about the encoding.  The folds and the recursive      *)
(* functions of the module are unrolled into functions of the number of    *)
(* steps, and what is encoded is shown to say what it was made of: a       *)
(* variable length integer, an integer of fixed width, a field, a body, a  *)
(* packet, a sequence of packets.                                          *)
(*                                                                         *)
(* The second half is about the stream.  In the invariant, what the reader *)
(* has and what is on its way to it are, in that order, what was sent.     *)
(* What the writers still have to write is the hard part: as the oldest    *)
(* call puts bytes on the wire they must be those that come next, and they *)
(* are because the writers of which nothing was written yet are the last   *)
(* ones, in their order, and because a writer cut short is the only one,   *)
(* or else the packets are torn.                                           *)
(***************************************************************************)
EXTENDS Framing, SequenceLemmas, WellFoundedInduction, TLAPS

-----------------------------------------------------------------------------
(* Recursive definitions over the natural numbers *)

\* A recursive definition over the natural numbers defines a function if it
\* goes back to a lower number.
Descends(A, L, base, st, pr) ==
    /\ base \in [Nat -> A] /\ st \in [Nat \X A -> A] /\ pr \in [Nat -> Nat]
    /\ \A n \in Nat \ L : pr[n] < n

Steps(g, n, A, L, base, st, pr) ==
    /\ g \in [0 .. n -> A]
    /\ \A i \in 0 .. n : g[i] = IF i \in L THEN base[i] ELSE st[<<i, g[pr[i]]>>]

\* The first values can be computed.
LEMMA StepsExist ==
    ASSUME NEW A, NEW L, NEW base, NEW st, NEW pr, Descends(A, L, base, st, pr)
    PROVE  \A n \in Nat : \E g : Steps(g, n, A, L, base, st, pr)
<1> USE DEF Descends
<1> DEFINE S == {n \in Nat : \E g : Steps(g, n, A, L, base, st, pr)}
<1>1. 0 \in S
  <2>1. 0 \in L
    BY 0 \in Nat
  <2> DEFINE g == [i \in 0 .. 0 |-> base[i]]
  <2>2. g \in [0 .. 0 -> A] /\ \A i \in 0 .. 0 : g[i] = base[i] /\ i \in L
    BY <2>1
  <2> HIDE DEF g
  <2>3. Steps(g, 0, A, L, base, st, pr)
    BY <2>2 DEF Steps
  <2>4. QED BY <2>2, <2>3
<1>2. ASSUME NEW n \in Nat, n \in S PROVE n + 1 \in S
  <2>1. PICK g : Steps(g, n, A, L, base, st, pr)
    BY <1>2
  <2>0. g \in [0 .. n -> A]
    BY <2>1 DEF Steps
  <2> DEFINE x == IF n + 1 \in L THEN base[n + 1] ELSE st[<<n + 1, g[pr[n + 1]]>>]
             h == [i \in 0 .. n + 1 |-> IF i = n + 1 THEN x ELSE g[i]]
  <2>2. n + 1 \notin L => pr[n + 1] \in 0 .. n
    <3>1. PICK m \in Nat : m = n + 1
      OBVIOUS
    <3>2. m \notin L => pr[m] < m /\ pr[m] \in Nat
      OBVIOUS
    <3>3. QED BY <3>1, <3>2
  <2>3. x \in A
    <3>1. PICK m : m = n + 1
      OBVIOUS
    <3>2. m \in Nat
      BY <3>1
    <3>3. m \in L => base[m] \in A
      BY <3>2
    <3>4. m \notin L => g[pr[m]] \in A
      BY <2>0, <2>2, <3>1
    <3>5. m \notin L => st[<<m, g[pr[m]]>>] \in A
      BY <3>2, <3>4
    <3>6. QED BY <3>1, <3>3, <3>5
  <2>4. h \in [0 .. n + 1 -> A] /\ h[n + 1] = x /\ \A i \in 0 .. n : h[i] = g[i]
    <3> HIDE DEF x
    <3>1. QED BY <2>0, <2>3
  <2> HIDE DEF h
  <2>5. ASSUME NEW i \in 0 .. n + 1
        PROVE  h[i] = IF i \in L THEN base[i] ELSE st[<<i, h[pr[i]]>>]
    <3>1. CASE i = n + 1
      BY <2>2, <2>4, <3>1
    <3>2. CASE i # n + 1
      <4>1. i \in 0 .. n /\ i \in Nat
        BY <3>2
      <4>2. i \notin L => pr[i] \in 0 .. n
        BY <4>1
      <4>3. g[i] = IF i \in L THEN base[i] ELSE st[<<i, g[pr[i]]>>]
        BY <2>1, <4>1 DEF Steps
      <4>4. QED BY <2>4, <4>1, <4>2, <4>3
    <3>3. QED BY <3>1, <3>2
  <2>6. Steps(h, n + 1, A, L, base, st, pr)
    BY <2>4, <2>5 DEF Steps
  <2>7. QED BY <2>4, <2>6
<1>3. Nat \subseteq S
  <2> HIDE DEF S
  <2>1. QED BY <1>1, <1>2, SetInduction
<1>4. QED BY <1>3

\* They do not depend on how far one goes.
LEMMA StepsAgree ==
    ASSUME NEW A, NEW L, NEW base, NEW st, NEW pr, Descends(A, L, base, st, pr),
           NEW m \in Nat, NEW n \in Nat, m <= n,
           NEW g, Steps(g, m, A, L, base, st, pr), NEW h, Steps(h, n, A, L, base, st, pr)
    PROVE  g[m] = h[m]
<1> USE DEF Descends
<1> DEFINE S == {k \in Nat : \A i \in 0 .. k : i <= m => g[i] = h[i]}
<1>1. ASSUME NEW i \in Nat, i <= m, i \notin L => g[pr[i]] = h[pr[i]]
      PROVE  g[i] = h[i]
  <2>1. i \in 0 .. m /\ i \in 0 .. n
    BY <1>1
  <2>2. /\ g[i] = IF i \in L THEN base[i] ELSE st[<<i, g[pr[i]]>>]
        /\ h[i] = IF i \in L THEN base[i] ELSE st[<<i, h[pr[i]]>>]
    BY <2>1 DEF Steps
  <2>3. QED BY <1>1, <2>2
<1>2. 0 \in S
  <2>1. 0 \in L
    BY 0 \in Nat
  <2>2. g[0] = h[0]
    BY <1>1, <2>1
  <2>3. QED BY <2>2
<1>3. ASSUME NEW k \in Nat, k \in S PROVE k + 1 \in S
  <2>1. SUFFICES ASSUME NEW i \in 0 .. k + 1, i <= m PROVE g[i] = h[i]
    OBVIOUS
  <2>2. i \in Nat /\ (i \notin L => pr[i] \in 0 .. k /\ pr[i] <= m)
    <3>1. i \in Nat /\ i <= k + 1 /\ i <= m
      BY <2>1
    <3>2. i \notin L => pr[i] \in Nat /\ pr[i] < i
      BY <3>1
    <3>3. QED BY <3>1, <3>2
  <2>3. QED BY <1>1, <1>3, <2>1, <2>2
<1>4. Nat \subseteq S
  <2> HIDE DEF S
  <2>1. QED BY <1>2, <1>3, SetInduction
<1>5. \A k \in Nat : \A i \in 0 .. k : i <= m => g[i] = h[i]
  BY <1>4
<1>6. m \in 0 .. m /\ m <= m
  OBVIOUS
<1>7. QED BY ONLY <1>5, <1>6, m \in Nat

\* So the definition defines a function.
LEMMA RecursionExists ==
    ASSUME NEW A, NEW L, NEW base, NEW st, NEW pr, Descends(A, L, base, st, pr)
    PROVE  \E f \in [Nat -> A] :
             \A n \in Nat : f[n] = IF n \in L THEN base[n] ELSE st[<<n, f[pr[n]]>>]
<1> DEFINE G(n) == CHOOSE g : Steps(g, n, A, L, base, st, pr)
           f == [n \in Nat |-> G(n)[n]]
<1>1. \A n \in Nat : Steps(G(n), n, A, L, base, st, pr)
  BY StepsExist
<1> HIDE DEF G
<1>2. f \in [Nat -> A]
  <2>1. ASSUME NEW n \in Nat PROVE G(n)[n] \in A
    BY <1>1 DEF Steps
  <2>2. QED BY <2>1
<1>3. ASSUME NEW n \in Nat PROVE f[n] = IF n \in L THEN base[n] ELSE st[<<n, f[pr[n]]>>]
  <2>1. n \in 0 .. n
    OBVIOUS
  <2>2. G(n)[n] = IF n \in L THEN base[n] ELSE st[<<n, G(n)[pr[n]]>>]
    BY <1>1, <2>1 DEF Steps
  <2>3. ASSUME n \notin L PROVE G(n)[pr[n]] = f[pr[n]]
    <3>1. PICK m \in Nat : m = pr[n] /\ m <= n
      BY <2>3 DEF Descends
    <3>2. G(m)[m] = G(n)[m]
      BY <1>1, <3>1, StepsAgree
    <3>3. QED BY <3>1, <3>2
  <2>4. QED BY <2>2, <2>3
<1>4. QED BY <1>2, <1>3
-----------------------------------------------------------------------------
(* Division, powers, digits *)

\* Division, with the rest.
LEMMA Division ==
    \A b \in Nat \ {0} : \A x \in Nat :
        /\ x = b * (x \div b) + (x % b)
        /\ x % b \in 0 .. b - 1
        /\ x \div b \in Nat
        /\ b > 1 /\ x > 0 => x \div b < x
OBVIOUS

\* A quotient is bounded if what is divided is.
LEMMA QuotientBound ==
    \A b \in Nat \ {0, 1} : \A x, y \in Nat : x < b * y => x \div b < y
OBVIOUS

\* Products of natural numbers.
LEMMA Multiplication ==
    ASSUME NEW a \in Nat, NEW b \in Nat
    PROVE  a * b \in Nat /\ (a > 0 /\ b > 0 => a * b > 0)
<1>1. a * b \in Nat
  OBVIOUS
<1>2. ASSUME a > 0, b > 0 PROVE a * b > 0
  BY <1>2
<1>3. QED BY <1>1, <1>2

IsPower(f) == f = [n \in Nat |-> IF n = 0 THEN 1 ELSE Base * f[n - 1]]

\* Powers of Base.
LEMMA PowerProperties ==
    /\ Power[0] = 1
    /\ \A n \in Nat : Power[n] \in Nat /\ Power[n] > 0 /\ Power[n + 1] = Base * Power[n]
<1> DEFINE A == {x \in Nat : x > 0}
           base == [n \in Nat |-> 1]
           st == [x \in Nat \X A |-> Base * x[2]]
           pr == [n \in Nat |-> IF n = 0 THEN 0 ELSE n - 1]
<1>1. Descends(A, {0}, base, st, pr)
  <2>1. \A x \in A : Base * x \in A
    <3>1. SUFFICES ASSUME NEW x \in Nat, x > 0 PROVE Base * x \in Nat /\ Base * x > 0
      OBVIOUS
    <3>2. Base \in Nat /\ Base > 0
      BY BaseAssumption
    <3>3. QED BY <3>1, <3>2, Multiplication
  <2>2. st \in [Nat \X A -> A]
    <3> HIDE DEF A
    <3>1. QED BY <2>1
  <2>3. base \in [Nat -> A] /\ pr \in [Nat -> Nat]
    OBVIOUS
  <2>4. \A n \in Nat \ {0} : pr[n] < n
    OBVIOUS
  <2> HIDE DEF base, st, pr, A
  <2>5. QED BY <2>2, <2>3, <2>4 DEF Descends
<1>2. PICK f \in [Nat -> A] :
        \A n \in Nat : f[n] = IF n \in {0} THEN base[n] ELSE st[<<n, f[pr[n]]>>]
  <2> HIDE DEF base, st, pr, A
  <2>1. QED BY <1>1, RecursionExists
<1>3. \A n \in Nat : f[n] = IF n = 0 THEN 1 ELSE Base * f[n - 1]
  <2>1. SUFFICES ASSUME NEW n \in Nat, n # 0 PROVE st[<<n, f[pr[n]]>>] = Base * f[n - 1]
    BY <1>2
  <2>2. pr[n] = n - 1 /\ n - 1 \in Nat
    BY <2>1
  <2>3. f[n - 1] \in A
    BY <2>2
  <2> HIDE DEF A, pr
  <2>4. <<n, f[n - 1]>> \in Nat \X A
    BY <2>3
  <2>5. QED BY <2>2, <2>4
<1>4. IsPower(f)
  <2>1. f = [n \in Nat |-> f[n]]
    OBVIOUS
  <2>2. QED BY <1>3, <2>1 DEF IsPower
<1>5. IsPower(Power)
  <2>1. Power = CHOOSE g : IsPower(g)
    BY DEF Power, IsPower
  <2>2. QED BY <1>4, <2>1
<1>6. \A n \in Nat : Power[n] = IF n = 0 THEN 1 ELSE Base * Power[n - 1]
  BY <1>5 DEF IsPower
<1> DEFINE S == {n \in Nat : Power[n] \in Nat /\ Power[n] > 0}
<1>7. Power[0] = 1
  BY <1>6
<1>8. ASSUME NEW n \in Nat PROVE Power[n + 1] = Base * Power[n]
  <2>1. n + 1 \in Nat /\ n + 1 # 0 /\ n + 1 - 1 = n
    OBVIOUS
  <2>2. QED BY <1>6, <2>1
<1>9. ASSUME NEW n \in Nat, n \in S PROVE n + 1 \in S
  <2>1. PICK x \in Nat : x = Power[n] /\ x > 0
    BY <1>9
  <2>2. Base * x \in Nat /\ Base * x > 0
    BY BaseAssumption, <2>1, Multiplication
  <2>3. QED BY <1>8, <2>1, <2>2
<1>10. Nat \subseteq S
  <2>1. 0 \in S
    BY <1>7
  <2> HIDE DEF S
  <2>2. QED BY <1>9, <2>1, SetInduction
<1>11. QED BY <1>7, <1>8, <1>10

\* Bytes.
LEMMA ByteProperties ==
    /\ <<>> \in Seq(Byte)
    /\ \A x \in Byte : x \in Nat /\ x < 2 * Base /\ <<x>> \in Seq(Byte)
    /\ \A v \in Nat : v < 2 * Base => v \in Byte
BY BaseAssumption DEF Byte

IsDigits(f) ==
    f = [value \in Nat |->
            IF value < Base THEN <<value>> ELSE <<(value % Base) + Base>> \o f[value \div Base]]

\* The first digit, and those that follow.
LEMMA DigitsStep ==
    ASSUME NEW v \in Nat
    PROVE  /\ Digits[v] \in Seq(Byte)
           /\ v < Base => Digits[v] = <<v>>
           /\ v >= Base => /\ Digits[v] = Cat(<<(v % Base) + Base>>, Digits[v \div Base])
                           /\ (v % Base) + Base \in Byte
<1> DEFINE A == Seq(Byte)
           L == 0 .. Base - 1
           base == [n \in Nat |-> IF n < Base THEN <<n>> ELSE <<>>]
           st == [x \in Nat \X A |-> <<(x[1] % Base) + Base>> \o x[2]]
           pr == [n \in Nat |-> n \div Base]
<1>1. \A n \in Nat : (n % Base) + Base \in Byte /\ n \div Base \in Nat
  BY BaseAssumption, Division DEF Byte
<1>2. Descends(A, L, base, st, pr)
  <2>1. st \in [Nat \X A -> A]
    <3>1. SUFFICES ASSUME NEW n \in Nat, NEW x \in Seq(Byte)
                   PROVE  <<(n % Base) + Base>> \o x \in Seq(Byte)
      OBVIOUS
    <3>2. <<(n % Base) + Base>> \in Seq(Byte)
      BY <1>1
    <3>3. QED BY <3>2, ConcatProperties
  <2>2. base \in [Nat -> A]
    <3>1. \A n \in Nat : n < Base => <<n>> \in Seq(Byte)
      BY BaseAssumption, ByteProperties
    <3>2. QED BY <3>1, ByteProperties
  <2>3. pr \in [Nat -> Nat]
    BY <1>1
  <2>4. \A n \in Nat \ L : pr[n] < n
    BY BaseAssumption, Division
  <2> HIDE DEF base, st, pr, A, L
  <2>5. QED BY <2>1, <2>2, <2>3, <2>4 DEF Descends
<1>3. PICK f \in [Nat -> A] :
        \A n \in Nat : f[n] = IF n \in L THEN base[n] ELSE st[<<n, f[pr[n]]>>]
  <2> HIDE DEF base, st, pr, A, L
  <2>1. QED BY <1>2, RecursionExists
<1>4. \A n \in Nat : f[n] = IF n < Base THEN <<n>> ELSE <<(n % Base) + Base>> \o f[n \div Base]
  <2>1. SUFFICES ASSUME NEW n \in Nat
                 PROVE  f[n] = IF n < Base THEN <<n>> ELSE <<(n % Base) + Base>> \o f[n \div Base]
    OBVIOUS
  <2>2. n < Base <=> n \in L
    BY BaseAssumption
  <2>3. pr[n] = n \div Base /\ n \div Base \in Nat
    BY <1>1
  <2>4. f[n \div Base] \in A
    BY <2>3
  <2>5. st[<<n, f[n \div Base]>>] = <<(n % Base) + Base>> \o f[n \div Base]
    <3> HIDE DEF A
    <3>1. <<n, f[n \div Base]>> \in Nat \X A
      BY <2>4
    <3>2. QED BY <3>1
  <2>6. base[n] = IF n < Base THEN <<n>> ELSE <<>>
    OBVIOUS
  <2> HIDE DEF base, st, pr, A, L
  <2>7. QED BY <1>3, <2>2, <2>3, <2>5, <2>6
<1>5. IsDigits(f)
  <2>1. f = [n \in Nat |-> f[n]]
    OBVIOUS
  <2>2. QED BY <1>4, <2>1 DEF IsDigits
<1>6. IsDigits(Digits)
  <2>1. Digits = CHOOSE g : IsDigits(g)
    BY DEF Digits, IsDigits
  <2>2. QED BY <1>5, <2>1
<1> HIDE DEF base, st, pr, A, L
<1>7. \A n \in Nat : Digits[n] = IF n < Base THEN <<n>>
                                 ELSE <<(n % Base) + Base>> \o Digits[n \div Base]
  BY <1>6 DEF IsDigits
<1> DEFINE S == {n \in Nat : \A m \in 0 .. n : Digits[m] \in Seq(Byte)}
<1>8. 0 \in S
  <2>1. 0 < Base /\ 0 < 2 * Base /\ 0 \in Nat
    BY BaseAssumption
  <2>2. Digits[0] = <<0>> /\ <<0>> \in Seq(Byte)
    BY <1>7, <2>1, ByteProperties
  <2>3. \A m \in 0 .. 0 : m = 0
    OBVIOUS
  <2>4. QED BY <2>2, <2>3
<1>9. ASSUME NEW n \in Nat, n \in S PROVE n + 1 \in S
  <2>1. SUFFICES ASSUME NEW m \in 0 .. n + 1 PROVE Digits[m] \in Seq(Byte)
    OBVIOUS
  <2>2. CASE m < Base
    <3>1. m \in Byte
      BY <2>2, BaseAssumption DEF Byte
    <3>2. QED BY <1>7, <2>2, <3>1, ByteProperties
  <2>3. CASE ~(m < Base)
    <3>1. m \div Base \in Nat /\ m \div Base < m
      BY <2>3, BaseAssumption, Division
    <3>2. m \div Base \in 0 .. n
      BY <3>1
    <3>3. Digits[m \div Base] \in Seq(Byte)
      BY <1>9, <3>2
    <3>4. m \in Nat
      OBVIOUS
    <3>5. <<(m % Base) + Base>> \in Seq(Byte)
      BY <1>1, <3>4, ByteProperties
    <3>6. <<(m % Base) + Base>> \o Digits[m \div Base] \in Seq(Byte)
      BY ONLY <3>3, <3>5, ConcatProperties
    <3>7. QED BY <1>7, <2>3, <3>4, <3>6
  <2>4. QED BY <2>2, <2>3
<1>10. Nat \subseteq S
  <2> HIDE DEF S
  <2>1. QED BY <1>8, <1>9, SetInduction
<1>11. Digits[v] \in Seq(Byte)
  <2>1. \A n \in Nat : \A m \in 0 .. n : Digits[m] \in Seq(Byte)
    BY <1>10
  <2>2. v \in 0 .. v
    OBVIOUS
  <2>3. QED BY ONLY <2>1, <2>2, v \in Nat
<1>12. v < Base => Digits[v] = <<v>>
  BY <1>7
<1>13. v >= Base => Digits[v] = <<(v % Base) + Base>> \o Digits[v \div Base]
  <2>1. v >= Base => ~(v < Base)
    BY BaseAssumption
  <2>2. QED BY <1>7, <2>1
<1>14. QED BY <1>1, <1>11, <1>12, <1>13 DEF Cat

IsFixedInt(f) ==
    f = [width \in Nat |-> [value \in Nat |->
            IF width = 0 THEN <<>>
            ELSE Append(f[width - 1][value \div (2 * Base)], value % (2 * Base))]]

\* A fixed_int of one byte more.
LEMMA FixedIntStep ==
    ASSUME NEW w \in Nat
    PROVE  /\ FixedInt[w] \in [Nat -> Seq(Byte)]
           /\ \A v \in Nat :
                /\ FixedInt[0][v] = <<>>
                /\ FixedInt[w + 1][v] = Append(FixedInt[w][v \div (2 * Base)], v % (2 * Base))
                /\ v \div (2 * Base) \in Nat /\ v % (2 * Base) \in Byte
<1> DEFINE A == [Nat -> Seq(Byte)]
           base == [n \in Nat |-> [v \in Nat |-> <<>>]]
           st == [x \in Nat \X A |->
                    [v \in Nat |-> Append(x[2][v \div (2 * Base)], v % (2 * Base))]]
           pr == [n \in Nat |-> IF n = 0 THEN 0 ELSE n - 1]
<1>1. \A v \in Nat : v \div (2 * Base) \in Nat /\ v % (2 * Base) \in Byte
  <2>1. PICK b : b = 2 * Base /\ b \in Nat \ {0}
    BY BaseAssumption
  <2>2. \A v \in Nat : v \div b \in Nat /\ v % b \in 0 .. b - 1
    BY <2>1, Division
  <2>3. \A x \in 0 .. b - 1 : x \in Byte
    BY <2>1, ByteProperties
  <2>4. QED BY <2>1, <2>2, <2>3
<1>2. Descends(A, {0}, base, st, pr)
  <2>1. st \in [Nat \X A -> A]
    <3>1. SUFFICES ASSUME NEW n \in Nat, NEW x \in A
                   PROVE  [v \in Nat |-> Append(x[v \div (2 * Base)], v % (2 * Base))] \in A
      OBVIOUS
    <3>2. SUFFICES ASSUME NEW v \in Nat
                   PROVE  Append(x[v \div (2 * Base)], v % (2 * Base)) \in Seq(Byte)
      OBVIOUS
    <3>3. x[v \div (2 * Base)] \in Seq(Byte)
      BY <1>1
    <3>4. QED BY <1>1, <3>3, AppendProperties
  <2>2. base \in [Nat -> A]
    BY EmptySeq
  <2>3. pr \in [Nat -> Nat] /\ \A n \in Nat \ {0} : pr[n] < n
    OBVIOUS
  <2> HIDE DEF base, st, pr, A
  <2>4. QED BY <2>1, <2>2, <2>3 DEF Descends
<1>3. PICK f \in [Nat -> A] :
        \A n \in Nat : f[n] = IF n \in {0} THEN base[n] ELSE st[<<n, f[pr[n]]>>]
  <2> HIDE DEF base, st, pr, A
  <2>1. QED BY <1>2, RecursionExists
<1> DEFINE H(g, n) == [v \in Nat |-> IF n = 0 THEN <<>>
                         ELSE Append(g[n - 1][v \div (2 * Base)], v % (2 * Base))]
<1>4. \A n \in Nat : f[n] = H(f, n)
  <2>1. f[0] = H(f, 0)
    BY <1>3
  <2>2. ASSUME NEW n \in Nat, n # 0 PROVE f[n] = H(f, n)
    <3>1. pr[n] = n - 1 /\ n - 1 \in Nat
      BY <2>2
    <3>2. PICK x : x = f[n - 1]
      OBVIOUS
    <3>3. x \in A
      BY <3>1, <3>2
    <3>4. st[<<n, x>>] = [v \in Nat |-> Append(x[v \div (2 * Base)], v % (2 * Base))]
      <4> HIDE DEF A
      <4>1. <<n, x>> \in Nat \X A
        BY <3>3
      <4>2. QED BY <4>1
    <3>5. f[n] = st[<<n, x>>]
      <4> HIDE DEF st, pr, A, base
      <4>1. QED BY <1>3, <2>2, <3>1, <3>2
    <3>6. QED BY <2>2, <3>2, <3>4, <3>5
  <2> HIDE DEF H
  <2>3. QED BY <2>1, <2>2
<1>5. IsFixedInt(f)
  <2>1. f = [n \in Nat |-> f[n]]
    OBVIOUS
  <2>2. f = [n \in Nat |-> H(f, n)]
    <3> HIDE DEF H
    <3>1. QED BY <1>4, <2>1
  <2>3. QED BY <2>2 DEF IsFixedInt
<1>6. IsFixedInt(FixedInt)
  <2>1. FixedInt = CHOOSE g : IsFixedInt(g)
    BY DEF FixedInt, IsFixedInt
  <2>2. QED BY <1>5, <2>1
<1>7. \A n \in Nat : FixedInt[n] = H(FixedInt, n)
  BY <1>6 DEF IsFixedInt
<1> HIDE DEF base, st, pr
<1> DEFINE S == {n \in Nat : FixedInt[n] \in A}
<1>8. \A n, v \in Nat :
        FixedInt[n + 1][v] = Append(FixedInt[n][v \div (2 * Base)], v % (2 * Base))
  <2>1. SUFFICES ASSUME NEW n \in Nat, NEW v \in Nat
                 PROVE  FixedInt[n + 1][v] = Append(FixedInt[n][v \div (2 * Base)], v % (2 * Base))
    OBVIOUS
  <2>2. n + 1 \in Nat /\ n + 1 # 0 /\ n + 1 - 1 = n
    OBVIOUS
  <2>3. H(FixedInt, n + 1)[v] = Append(FixedInt[n][v \div (2 * Base)], v % (2 * Base))
    <3>1. PICK x, y : x = v \div (2 * Base) /\ y = v % (2 * Base)
      OBVIOUS
    <3>2. H(FixedInt, n + 1)[v] = IF n + 1 = 0 THEN <<>> ELSE Append(FixedInt[n + 1 - 1][x], y)
      BY <3>1
    <3>3. QED BY <2>2, <3>1, <3>2
  <2> HIDE DEF H
  <2>4. FixedInt[n + 1] = H(FixedInt, n + 1)
    BY <1>7, <2>2
  <2>5. QED BY <2>3, <2>4
<1>9. FixedInt[0] = [v \in Nat |-> <<>>]
  BY <1>7
<1>10. ASSUME NEW n \in Nat, n \in S PROVE n + 1 \in S
  <2>1. FixedInt[n + 1] = [v \in Nat |-> FixedInt[n + 1][v]]
    <3>1. H(FixedInt, n + 1) = [v \in Nat |-> H(FixedInt, n + 1)[v]]
      OBVIOUS
    <3> HIDE DEF H
    <3>2. FixedInt[n + 1] = H(FixedInt, n + 1)
      BY <1>7, n + 1 \in Nat
    <3>3. QED BY <3>1, <3>2
  <2>2. ASSUME NEW v \in Nat PROVE FixedInt[n + 1][v] \in Seq(Byte)
    <3>1. FixedInt[n][v \div (2 * Base)] \in Seq(Byte)
      BY <1>1, <1>10
    <3>2. Append(FixedInt[n][v \div (2 * Base)], v % (2 * Base)) \in Seq(Byte)
      BY <1>1, <3>1, AppendProperties
    <3>3. QED BY <1>8, <3>2
  <2>3. QED BY <2>1, <2>2
<1>11. Nat \subseteq S
  <2>1. 0 \in S
    <3>1. [v \in Nat |-> <<>>] \in A
      BY EmptySeq
    <3> HIDE DEF A
    <3>2. QED BY <1>9, <3>1
  <2> HIDE DEF S
  <2>2. QED BY <1>10, <2>1, SetInduction
<1>12. FixedInt[w] \in [Nat -> Seq(Byte)]
  BY <1>11
<1>13. \A v \in Nat : FixedInt[0][v] = <<>>
  BY <1>9
<1> HIDE DEF S, H, A
<1>14. QED BY <1>1, <1>8, <1>12, <1>13
-----------------------------------------------------------------------------
(* The folds of the module, step by step *)

\* The least of the positions from m on.
LEMMA BottomOf ==
    ASSUME NEW m \in Nat, NEW n \in Nat, NEW T \in SUBSET (m .. n), m \in T
    PROVE  Min(T) = m
<1>1. \A y \in T : m <= y
  OBVIOUS
<1>2. \A x \in T : (\A y \in T : x <= y) => x = m
  OBVIOUS
<1>3. QED BY <1>1, <1>2 DEF Min

Valued(byte, rest) == (byte % Base) + Base * rest

\* The function that the fold over the digits defines.
ValuesOver(seq, m, n, F) ==
    F = [T \in SUBSET (m .. n) |->
            IF T = {} THEN 0 ELSE Valued(seq[Min(T)], F[T \ {Min(T)}])]

\* There is such a function.
LEMMA ValuesExist ==
    \A seq : \A n \in Nat : \E F : ValuesOver(seq, 1, n, F)
<1> SUFFICES ASSUME NEW seq, NEW n \in Nat PROVE \E F : ValuesOver(seq, 1, n, F)
  OBVIOUS
<1> DEFINE S == {d \in Nat : \A m \in Nat : m + d = n + 1 => \E F : ValuesOver(seq, m, n, F)}
<1>1. 0 \in S
  <2>1. SUFFICES ASSUME NEW m \in Nat, m + 0 = n + 1 PROVE \E F : ValuesOver(seq, m, n, F)
    OBVIOUS
  <2>2. \A T \in SUBSET (m .. n) : T = {}
    BY <2>1
  <2> DEFINE F == [T \in SUBSET (m .. n) |-> 0]
  <2>3. ValuesOver(seq, m, n, F)
    BY <2>2 DEF ValuesOver
  <2>4. QED BY <2>3
<1>2. ASSUME NEW d \in Nat, d \in S PROVE d + 1 \in S
  <2>1. SUFFICES ASSUME NEW m \in Nat, m + (d + 1) = n + 1 PROVE \E F : ValuesOver(seq, m, n, F)
    OBVIOUS
  <2>2. PICK F : ValuesOver(seq, m + 1, n, F)
    <3>1. m + 1 \in Nat /\ m + 1 + d = n + 1
      BY <2>1
    <3>2. QED BY <1>2, <3>1
  <2> DEFINE H(T) == IF m \in T THEN Valued(seq[m], F[T \ {m}]) ELSE F[T]
             G == [T \in SUBSET (m .. n) |-> H(T)]
             Next1(T) == IF T = {} THEN 0 ELSE Valued(seq[Min(T)], G[T \ {Min(T)}])
  <2>3. \A T \in SUBSET (m .. n) : m \notin T => T \in SUBSET (m + 1 .. n)
    OBVIOUS
  <2>4. \A T \in SUBSET (m + 1 .. n) : m \notin T /\ T \in SUBSET (m .. n) /\ G[T] = F[T]
    OBVIOUS
  <2>5. \A T \in SUBSET (m + 1 .. n) :
          F[T] = IF T = {} THEN 0 ELSE Valued(seq[Min(T)], F[T \ {Min(T)}])
    BY <2>2 DEF ValuesOver
  <2>6. ASSUME NEW T \in SUBSET (m .. n) PROVE H(T) = Next1(T)
    <3>1. CASE m \in T
      <4>1. Min(T) = m /\ T # {}
        BY <3>1, BottomOf
      <4>2. T \ {m} \in SUBSET (m + 1 .. n)
        OBVIOUS
      <4>3. G[T \ {m}] = F[T \ {m}]
        BY <2>4, <4>2
      <4> HIDE DEF G
      <4>4. QED BY <3>1, <4>1, <4>3
    <3>2. CASE m \notin T
      <4>1. T \in SUBSET (m + 1 .. n) /\ T \ {Min(T)} \in SUBSET (m + 1 .. n)
        BY <2>3, <3>2
      <4>2. G[T \ {Min(T)}] = F[T \ {Min(T)}]
        BY <2>4, <4>1
      <4> HIDE DEF G
      <4>3. QED BY <2>5, <3>2, <4>1, <4>2
    <3>3. QED BY <3>1, <3>2
  <2>7. G = [T \in SUBSET (m .. n) |-> Next1(T)]
    <3> HIDE DEF H, Next1
    <3>1. QED BY <2>6
  <2>8. ValuesOver(seq, m, n, G)
    <3> HIDE DEF G
    <3>1. QED BY <2>7 DEF ValuesOver
  <2>9. QED BY <2>8
<1>3. Nat \subseteq S
  <2> HIDE DEF S
  <2>1. QED BY <1>1, <1>2, SetInduction
<1>4. n \in S /\ 1 + n = n + 1
  BY <1>3
<1>5. QED BY <1>4

\* The value of digits, from the last one on.
ReadsAs(h, seq) ==
    /\ h[Len(seq)] = 0
    /\ \A i \in 1 .. Len(seq) : h[i - 1] = Valued(seq[i], h[i])

\* The value of a length is computed from its last digit back.
LEMMA ValueRead ==
    ASSUME NEW S, NEW seq \in Seq(S), NEW bytes, NEW k, SubSeq(bytes, 1, k) = seq
    PROVE  \E h : ReadsAs(h, seq) /\ Value(bytes, k) = h[0]
<1> DEFINE n == Len(seq)
<1>1. DOMAIN seq = 1 .. n /\ n \in Nat
  BY LenProperties
<1> HIDE DEF n
<1> DEFINE G == CHOOSE F : ValuesOver(seq, 1, n, F)
<1>2. ValuesOver(seq, 1, n, G)
  BY <1>1, ValuesExist
<1>3. Value(bytes, k) = G[1 .. n]
  <2> DEFINE Eq(F) == F = [T \in SUBSET DOMAIN seq |->
                IF T = {} THEN 0 ELSE Valued(seq[Min(T)], F[T \ {Min(T)}])]
  <2>1. Value(bytes, k) = (CHOOSE F : Eq(F))[DOMAIN seq]
    BY SubSeq(bytes, 1, k) = seq DEF Value, FoldRight, MapThenFoldSet, Valued
  <2>2. \A F : Eq(F) <=> ValuesOver(seq, 1, n, F)
    BY <1>1 DEF ValuesOver
  <2>3. (CHOOSE F : Eq(F)) = G
    <3> HIDE DEF Eq
    <3>1. QED BY <2>2
  <2>4. QED BY <1>1, <2>1, <2>3
<1> HIDE DEF G
<1>4. \A T \in SUBSET (1 .. n) :
        G[T] = IF T = {} THEN 0 ELSE Valued(seq[Min(T)], G[T \ {Min(T)}])
  BY <1>2 DEF ValuesOver
<1> DEFINE h == [i \in 0 .. n |-> G[i + 1 .. n]]
<1>5. h[n] = 0
  <2>1. n \in 0 .. n /\ n + 1 .. n = {} /\ {} \in SUBSET (1 .. n)
    BY <1>1
  <2>2. G[{}] = 0
    BY <1>4, <2>1
  <2>3. QED BY <2>1, <2>2
<1>6. ASSUME NEW i \in 1 .. n PROVE h[i - 1] = Valued(seq[i], h[i])
  <2>1. PICK j \in Nat : j = i - 1 /\ j + 1 = i
    BY <1>1
  <2>2. i \in 0 .. n /\ j \in 0 .. n /\ i \in Nat /\ i \in i .. n
    BY <1>1, <2>1
  <2>3. \A x : x \in (i .. n) \ {i} <=> x \in i + 1 .. n
    BY <1>1
  <2>4. (i .. n) \ {i} = i + 1 .. n
    BY <2>3
  <2>5. i .. n \in SUBSET (1 .. n) /\ i .. n # {}
    <3>1. \A x \in i .. n : x \in 1 .. n
      BY <1>1
    <3>2. QED BY <2>2, <3>1
  <2>6. Min(i .. n) = i
    BY <1>1, <2>2, BottomOf
  <2>7. G[i .. n] = Valued(seq[i], G[i + 1 .. n])
    BY <1>4, <2>4, <2>5, <2>6
  <2>8. h[j] = G[i .. n] /\ h[i] = G[i + 1 .. n]
    BY <2>1, <2>2
  <2>9. QED BY <2>1, <2>7, <2>8
<1>7. h[0] = G[1 .. n]
  BY <1>1
<1>8. ReadsAs(h, seq)
  <2> HIDE DEF h
  <2>1. QED BY <1>5, <1>6 DEF ReadsAs, n
<1>9. QED BY <1>3, <1>7, <1>8

Shifted(value, byte) == value * 2 * Base + byte

\* The function that the fold over the bytes of an integer defines.
IntegersOver(seq, n, F) ==
    F = [T \in SUBSET (1 .. n) |->
            IF T = {} THEN 0 ELSE Shifted(F[T \ {Max(T)}], seq[Max(T)])]

\* There is such a function.
LEMMA IntegersExist == \A seq : \A n \in Nat : \E F : IntegersOver(seq, n, F)
<1> SUFFICES ASSUME NEW seq PROVE \A n \in Nat : \E F : IntegersOver(seq, n, F)
  OBVIOUS
<1> DEFINE S == {n \in Nat : \E F : IntegersOver(seq, n, F)}
<1>1. 0 \in S
  <2> DEFINE F == [T \in SUBSET (1 .. 0) |-> 0]
  <2>1. \A T \in SUBSET (1 .. 0) : T = {}
    OBVIOUS
  <2>2. IntegersOver(seq, 0, F)
    BY <2>1 DEF IntegersOver
  <2>3. QED BY <2>2
<1>2. ASSUME NEW n \in Nat, n \in S PROVE n + 1 \in S
  <2>1. PICK F : IntegersOver(seq, n, F)
    BY <1>2
  <2> DEFINE H(T) == IF n + 1 \in T THEN Shifted(F[T \ {n + 1}], seq[n + 1]) ELSE F[T]
             G == [T \in SUBSET (1 .. n + 1) |-> H(T)]
             Next1(T) == IF T = {} THEN 0 ELSE Shifted(G[T \ {Max(T)}], seq[Max(T)])
  <2>2. \A T \in SUBSET (1 .. n + 1) : n + 1 \notin T => T \in SUBSET (1 .. n)
    OBVIOUS
  <2>3. \A T \in SUBSET (1 .. n) : n + 1 \notin T /\ T \in SUBSET (1 .. n + 1) /\ G[T] = F[T]
    OBVIOUS
  <2>4. \A T \in SUBSET (1 .. n) :
          F[T] = IF T = {} THEN 0 ELSE Shifted(F[T \ {Max(T)}], seq[Max(T)])
    BY <2>1 DEF IntegersOver
  <2>5. ASSUME NEW T \in SUBSET (1 .. n + 1) PROVE H(T) = Next1(T)
    <3>1. CASE n + 1 \in T
      <4>1. Max(T) = n + 1 /\ T # {}
        BY <3>1, TopOf
      <4>2. T \ {n + 1} \in SUBSET (1 .. n)
        OBVIOUS
      <4>3. G[T \ {n + 1}] = F[T \ {n + 1}]
        BY <2>3, <4>2
      <4> HIDE DEF G
      <4>4. QED BY <3>1, <4>1, <4>3
    <3>2. CASE n + 1 \notin T
      <4>1. T \in SUBSET (1 .. n) /\ T \ {Max(T)} \in SUBSET (1 .. n)
        BY <2>2, <3>2
      <4>2. G[T \ {Max(T)}] = F[T \ {Max(T)}]
        BY <2>3, <4>1
      <4> HIDE DEF G
      <4>3. QED BY <2>4, <3>2, <4>1, <4>2
    <3>3. QED BY <3>1, <3>2
  <2>6. G = [T \in SUBSET (1 .. n + 1) |-> Next1(T)]
    <3> HIDE DEF H, Next1
    <3>1. QED BY <2>5
  <2>7. IntegersOver(seq, n + 1, G)
    <3> HIDE DEF G
    <3>1. QED BY <2>6 DEF IntegersOver
  <2>8. QED BY <2>7
<1>3. Nat \subseteq S
  <2> HIDE DEF S
  <2>1. QED BY <1>1, <1>2, SetInduction
<1>4. QED BY <1>3

\* The integer after each of its bytes.
Counts(h, seq) ==
    /\ h[0] = 0
    /\ \A i \in 1 .. Len(seq) : h[i] = Shifted(h[i - 1], seq[i])

\* The value of an integer is computed from its first byte on.
LEMMA IntegerRead ==
    ASSUME NEW S, NEW seq \in Seq(S)
    PROVE  \E h : Counts(h, seq) /\ IntegerOf(seq) = h[Len(seq)]
<1> DEFINE n == Len(seq)
<1>1. DOMAIN seq = 1 .. n /\ n \in Nat
  BY LenProperties
<1> HIDE DEF n
<1> DEFINE G == CHOOSE F : IntegersOver(seq, n, F)
<1>2. IntegersOver(seq, n, G)
  BY <1>1, IntegersExist
<1>3. IntegerOf(seq) = G[1 .. n]
  <2> DEFINE Eq(F) == F = [T \in SUBSET DOMAIN seq |->
                IF T = {} THEN 0 ELSE Shifted(F[T \ {Max(T)}], seq[Max(T)])]
  <2>1. IntegerOf(seq) = (CHOOSE F : Eq(F))[DOMAIN seq]
    BY DEF IntegerOf, FoldLeft, MapThenFoldSet, Shifted
  <2>2. \A F : Eq(F) <=> IntegersOver(seq, n, F)
    BY <1>1 DEF IntegersOver
  <2>3. (CHOOSE F : Eq(F)) = G
    <3> HIDE DEF Eq
    <3>1. QED BY <2>2
  <2>4. QED BY <1>1, <2>1, <2>3
<1> HIDE DEF G
<1> DEFINE h == [i \in 0 .. n |-> G[1 .. i]]
<1>4. \A T \in SUBSET (1 .. n) :
        G[T] = IF T = {} THEN 0 ELSE Shifted(G[T \ {Max(T)}], seq[Max(T)])
  BY <1>2 DEF IntegersOver
<1>5. h[0] = 0
  <2>1. 0 \in 0 .. n /\ 1 .. 0 = {} /\ {} \in SUBSET (1 .. n)
    BY <1>1
  <2>2. QED BY <1>4, <2>1
<1>6. ASSUME NEW i \in 1 .. n PROVE h[i] = Shifted(h[i - 1], seq[i])
  <2>1. PICK j \in Nat : j = i - 1 /\ j + 1 = i
    BY <1>1
  <2>2. i \in 0 .. n /\ j \in 0 .. n /\ i \in Nat /\ i \in 1 .. i
    BY <1>1, <2>1
  <2>3. \A x : x \in (1 .. i) \ {i} <=> x \in 1 .. j
    BY <1>1, <2>1
  <2>4. (1 .. i) \ {i} = 1 .. j
    BY <2>3
  <2>5. 1 .. i \in SUBSET (1 .. n) /\ 1 .. i # {}
    <3>1. \A x \in 1 .. i : x \in 1 .. n
      BY <1>1
    <3>2. QED BY <2>2, <3>1
  <2>6. Max(1 .. i) = i
    BY <2>1, <2>2, TopOf
  <2>7. G[1 .. i] = Shifted(G[1 .. j], seq[i])
    BY <1>4, <2>4, <2>5, <2>6
  <2>8. h[i] = G[1 .. i] /\ h[j] = G[1 .. j]
    BY <2>1, <2>2
  <2>9. QED BY <2>1, <2>7, <2>8
<1>7. h[n] = G[1 .. n]
  BY <1>1
<1>8. Counts(h, seq)
  <2> HIDE DEF h
  <2>1. QED BY <1>5, <1>6 DEF Counts, n
<1>9. QED BY <1>3, <1>7, <1>8 DEF n

Untaken(body) == [fields |-> <<>>, left |-> body, throws |-> FALSE]

\* The function that the fold over the kinds of the fields defines.
TakesOver(body, seq, n, F) ==
    F = [T \in SUBSET (1 .. n) |->
            IF T = {} THEN Untaken(body) ELSE TakeField(F[T \ {Max(T)}], seq[Max(T)])]

\* There is such a function.
LEMMA TakesExist == \A body, seq : \A n \in Nat : \E F : TakesOver(body, seq, n, F)
<1> SUFFICES ASSUME NEW body, NEW seq PROVE \A n \in Nat : \E F : TakesOver(body, seq, n, F)
  OBVIOUS
<1> DEFINE S == {n \in Nat : \E F : TakesOver(body, seq, n, F)}
<1>1. 0 \in S
  <2> DEFINE F == [T \in SUBSET (1 .. 0) |-> Untaken(body)]
  <2>1. \A T \in SUBSET (1 .. 0) : T = {}
    OBVIOUS
  <2>2. TakesOver(body, seq, 0, F)
    BY <2>1 DEF TakesOver
  <2>3. QED BY <2>2
<1>2. ASSUME NEW n \in Nat, n \in S PROVE n + 1 \in S
  <2>1. PICK F : TakesOver(body, seq, n, F)
    BY <1>2
  <2> DEFINE H(T) == IF n + 1 \in T THEN TakeField(F[T \ {n + 1}], seq[n + 1]) ELSE F[T]
             G == [T \in SUBSET (1 .. n + 1) |-> H(T)]
             Next1(T) == IF T = {} THEN Untaken(body) ELSE TakeField(G[T \ {Max(T)}], seq[Max(T)])
  <2>2. \A T \in SUBSET (1 .. n + 1) : n + 1 \notin T => T \in SUBSET (1 .. n)
    OBVIOUS
  <2>3. \A T \in SUBSET (1 .. n) : n + 1 \notin T /\ T \in SUBSET (1 .. n + 1) /\ G[T] = F[T]
    OBVIOUS
  <2>4. \A T \in SUBSET (1 .. n) :
          F[T] = IF T = {} THEN Untaken(body) ELSE TakeField(F[T \ {Max(T)}], seq[Max(T)])
    BY <2>1 DEF TakesOver
  <2>5. ASSUME NEW T \in SUBSET (1 .. n + 1) PROVE H(T) = Next1(T)
    <3>1. CASE n + 1 \in T
      <4>1. Max(T) = n + 1 /\ T # {}
        BY <3>1, TopOf
      <4>2. T \ {n + 1} \in SUBSET (1 .. n)
        OBVIOUS
      <4>3. G[T \ {n + 1}] = F[T \ {n + 1}]
        BY <2>3, <4>2
      <4> HIDE DEF G
      <4>4. QED BY <3>1, <4>1, <4>3
    <3>2. CASE n + 1 \notin T
      <4>1. T \in SUBSET (1 .. n) /\ T \ {Max(T)} \in SUBSET (1 .. n)
        BY <2>2, <3>2
      <4>2. G[T \ {Max(T)}] = F[T \ {Max(T)}]
        BY <2>3, <4>1
      <4> HIDE DEF G
      <4>3. QED BY <2>4, <3>2, <4>1, <4>2
    <3>3. QED BY <3>1, <3>2
  <2>6. G = [T \in SUBSET (1 .. n + 1) |-> Next1(T)]
    <3> HIDE DEF H, Next1
    <3>1. QED BY <2>5
  <2>7. TakesOver(body, seq, n + 1, G)
    <3> HIDE DEF G
    <3>1. QED BY <2>6 DEF TakesOver
  <2>8. QED BY <2>7
<1>3. Nat \subseteq S
  <2> HIDE DEF S
  <2>1. QED BY <1>1, <1>2, SetInduction
<1>4. QED BY <1>3

\* What is taken of a body after each of its fields.
Taking(h, body, seq) ==
    /\ h[0] = Untaken(body)
    /\ \A i \in 1 .. Len(seq) : h[i] = TakeField(h[i - 1], seq[i])

\* A body is read field by field.
LEMMA BodyRead ==
    ASSUME NEW body, NEW S, NEW seq \in Seq(S)
    PROVE  \E h : Taking(h, body, seq) /\ Deserialize(seq, body) = h[Len(seq)]
<1> DEFINE n == Len(seq)
<1>1. DOMAIN seq = 1 .. n /\ n \in Nat
  BY LenProperties
<1> HIDE DEF n
<1> DEFINE G == CHOOSE F : TakesOver(body, seq, n, F)
<1>2. TakesOver(body, seq, n, G)
  BY <1>1, TakesExist
<1>3. Deserialize(seq, body) = G[1 .. n]
  <2> DEFINE Eq(F) == F = [T \in SUBSET DOMAIN seq |->
                IF T = {} THEN Untaken(body) ELSE TakeField(F[T \ {Max(T)}], seq[Max(T)])]
  <2>1. Deserialize(seq, body) = (CHOOSE F : Eq(F))[DOMAIN seq]
    BY DEF Deserialize, FoldLeft, MapThenFoldSet, Untaken
  <2>2. \A F : Eq(F) <=> TakesOver(body, seq, n, F)
    BY <1>1 DEF TakesOver
  <2>3. (CHOOSE F : Eq(F)) = G
    <3> HIDE DEF Eq
    <3>1. QED BY <2>2
  <2>4. QED BY <1>1, <2>1, <2>3
<1> HIDE DEF G
<1> DEFINE h == [i \in 0 .. n |-> G[1 .. i]]
<1>4. \A T \in SUBSET (1 .. n) :
        G[T] = IF T = {} THEN Untaken(body) ELSE TakeField(G[T \ {Max(T)}], seq[Max(T)])
  BY <1>2 DEF TakesOver
<1>5. h[0] = Untaken(body)
  <2>1. 0 \in 0 .. n /\ 1 .. 0 = {} /\ {} \in SUBSET (1 .. n)
    BY <1>1
  <2>2. QED BY <1>4, <2>1
<1>6. ASSUME NEW i \in 1 .. n PROVE h[i] = TakeField(h[i - 1], seq[i])
  <2>1. PICK j \in Nat : j = i - 1 /\ j + 1 = i
    BY <1>1
  <2>2. i \in 0 .. n /\ j \in 0 .. n /\ i \in Nat /\ i \in 1 .. i
    BY <1>1, <2>1
  <2>3. \A x : x \in (1 .. i) \ {i} <=> x \in 1 .. j
    BY <1>1, <2>1
  <2>4. (1 .. i) \ {i} = 1 .. j
    BY <2>3
  <2>5. 1 .. i \in SUBSET (1 .. n) /\ 1 .. i # {}
    <3>1. \A x \in 1 .. i : x \in 1 .. n
      BY <1>1
    <3>2. QED BY <2>2, <3>1
  <2>6. Max(1 .. i) = i
    BY <2>1, <2>2, TopOf
  <2>7. G[1 .. i] = TakeField(G[1 .. j], seq[i])
    BY <1>4, <2>4, <2>5, <2>6
  <2>8. h[i] = G[1 .. i] /\ h[j] = G[1 .. j]
    BY <2>1, <2>2
  <2>9. QED BY <2>1, <2>7, <2>8
<1>7. h[n] = G[1 .. n]
  BY <1>1
<1>8. Taking(h, body, seq)
  <2> HIDE DEF h
  <2>1. QED BY <1>5, <1>6 DEF Taking, n
<1>9. QED BY <1>3, <1>7, <1>8 DEF n
-----------------------------------------------------------------------------
(* Digits of a variable length integer *)

\* Digits of which only the last one says that it is.
Ends(d) ==
    /\ d \in Seq(Byte) /\ Len(d) \in Nat /\ Len(d) >= 1
    /\ d[Len(d)] < Base
    /\ \A i \in 1 .. Len(d) - 1 : d[i] >= Base

\* Division by Base.
LEMMA BaseDivision ==
    /\ Base \in Nat /\ Base > 1 /\ Base \in Nat \ {0, 1}
    /\ \A x \in Nat : /\ x \div Base \in Nat /\ x % Base \in 0 .. Base - 1
                       /\ x = Base * (x \div Base) + (x % Base)
    /\ \A x \in Nat : x < Base => x % Base = x /\ (x + Base) % Base = x
<1>1. Base \in Nat /\ Base > 1 /\ Base \in Nat \ {0, 1}
  BY BaseAssumption
<1>2. PICK b \in Nat \ {0, 1} : b = Base
  BY <1>1
<1>3. \A x \in Nat : /\ x \div b \in Nat /\ x % b \in 0 .. b - 1
                     /\ x = b * (x \div b) + (x % b)
  OBVIOUS
<1>4. \A x \in Nat : x < b => x % b = x /\ (x + b) % b = x
  OBVIOUS
<1>5. QED BY <1>1, <1>2, <1>3, <1>4

\* One digit below Base ends.
LEMMA EndsOne == ASSUME NEW x \in Byte, x < Base PROVE Ends(<<x>>) /\ Len(<<x>>) = 1
<1>1. <<x>> \in Seq(Byte) /\ Len(<<x>>) = 1 /\ <<x>>[1] = x
  OBVIOUS
<1> DEFINE d == <<x>>
<1> HIDE DEF d
<1>2. d \in Seq(Byte) /\ Len(d) = 1 /\ d[1] = x
  BY <1>1 DEF d
<1>3. Ends(d)
  BY <1>2 DEF Ends
<1>4. QED BY <1>1, <1>3 DEF d

\* A sequence that begins with one element more.
LEMMA CatFirst ==
    ASSUME NEW S, NEW x \in S, NEW d \in Seq(S)
    PROVE  /\ <<x>> \in Seq(S) /\ Cat(<<x>>, d) \in Seq(S)
           /\ Len(Cat(<<x>>, d)) = Len(d) + 1 /\ Len(d) \in Nat
           /\ Cat(<<x>>, d)[1] = x
           /\ \A i \in 1 .. Len(d) : \A j \in Nat : j = i + 1 => Cat(<<x>>, d)[j] = d[i]
<1>1. <<x>> \in Seq(S) /\ Len(<<x>>) = 1 /\ <<x>>[1] = x /\ 1 \in 1 .. 1
  OBVIOUS
<1>2. PICK e : e = <<x>>
  OBVIOUS
<1>3. e \in Seq(S) /\ Len(e) = 1 /\ e[1] = x
  BY <1>1, <1>2
<1>4. Cat(e, d) \in Seq(S)
  BY <1>3, CatType
<1>5. Len(Cat(e, d)) = Len(e) + Len(d) /\ Len(d) \in Nat
  BY <1>3, CatLen
<1>6. /\ \A i \in 1 .. Len(e) : Cat(e, d)[i] = e[i]
      /\ \A i \in 1 .. Len(d) : \A k \in Nat : k = Len(e) + i => Cat(e, d)[k] = d[i]
  BY <1>3, CatElements
<1>7. Len(Cat(e, d)) = Len(d) + 1
  BY <1>3, <1>5
<1>8. Cat(e, d)[1] = x
  BY <1>1, <1>3, <1>6
<1>9. \A i \in 1 .. Len(d) : \A j \in Nat : j = i + 1 => Cat(e, d)[j] = d[i]
  BY <1>3, <1>6
<1>10. QED BY <1>2, <1>3, <1>4, <1>5, <1>7, <1>8, <1>9

\* A byte that says that more follow goes before.
LEMMA EndsMore ==
    ASSUME NEW d, Ends(d), NEW x \in Byte, x >= Base
    PROVE  Ends(Cat(<<x>>, d)) /\ Len(Cat(<<x>>, d)) = Len(d) + 1
<1> DEFINE c == Cat(<<x>>, d)
<1>1. d \in Seq(Byte) /\ Len(d) \in Nat /\ Len(d) >= 1
  BY DEF Ends
<1>2. /\ c \in Seq(Byte) /\ Len(c) = Len(d) + 1 /\ c[1] = x
      /\ \A i \in 1 .. Len(d) : \A j \in Nat : j = i + 1 => c[j] = d[i]
  BY <1>1, CatFirst
<1> HIDE DEF c
<1>3. c[Len(c)] < Base
  <2>1. Len(d) \in 1 .. Len(d) /\ Len(c) \in Nat
    BY <1>1, <1>2
  <2>2. c[Len(c)] = d[Len(d)]
    BY <1>2, <2>1
  <2>3. QED BY <2>2 DEF Ends
<1>4. ASSUME NEW i \in 1 .. Len(c) - 1 PROVE c[i] >= Base
  <2>1. CASE i = 1
    BY <1>2, <2>1
  <2>2. CASE i # 1
    <3>1. PICK k \in Nat : k = i - 1
      BY <2>2
    <3>2. k \in 1 .. Len(d) - 1 /\ k \in 1 .. Len(d) /\ i = k + 1 /\ i \in Nat
      BY <1>1, <1>2, <2>2, <3>1
    <3>3. c[i] = d[k] /\ d[k] >= Base
      BY <1>2, <3>2 DEF Ends
    <3>4. QED BY <3>3
  <2>3. QED BY <2>1, <2>2
<1>5. Len(c) \in Nat /\ Len(c) >= 1
  BY <1>1, <1>2
<1>6. QED BY <1>2, <1>3, <1>4, <1>5 DEF Ends, c

\* The digits of a number, and how many there are.
LEMMA DigitsShape ==
    ASSUME NEW v \in Nat, NEW k \in Nat, v < Power[k + 1]
    PROVE  Ends(Digits[v]) /\ Len(Digits[v]) <= k + 1
<1> DEFINE S == {n \in Nat : \A w \in Nat : w < Power[n + 1] =>
                    Ends(Digits[w]) /\ Len(Digits[w]) <= n + 1}
<1>1. ASSUME NEW w \in Nat, w < Base PROVE Ends(Digits[w]) /\ Len(Digits[w]) = 1
  <2>1. w < 2 * Base
    BY <1>1, BaseAssumption
  <2>2. w \in Byte
    BY <2>1, ByteProperties
  <2>3. Digits[w] = <<w>>
    BY <1>1, DigitsStep
  <2>4. QED BY <1>1, <2>2, <2>3, EndsOne
<1>2. 0 \in S
  <2>1. Power[0 + 1] = Base
    BY PowerProperties, BaseAssumption
  <2>2. SUFFICES ASSUME NEW w \in Nat, w < Power[0 + 1]
                 PROVE  Ends(Digits[w]) /\ Len(Digits[w]) <= 0 + 1
    OBVIOUS
  <2>3. Ends(Digits[w]) /\ Len(Digits[w]) = 1
    BY <1>1, <2>1, <2>2
  <2>4. QED BY <2>3
<1>3. ASSUME NEW n \in Nat, n \in S PROVE n + 1 \in S
  <2>1. SUFFICES ASSUME NEW w \in Nat, w < Power[n + 1 + 1]
                 PROVE  Ends(Digits[w]) /\ Len(Digits[w]) <= n + 1 + 1
    OBVIOUS
  <2>2. CASE w < Base
    <3>1. Ends(Digits[w]) /\ Len(Digits[w]) = 1
      BY <1>1, <2>2
    <3>2. QED BY <3>1
  <2>3. CASE w >= Base
    <3>0. Power[n + 1] \in Nat
      BY PowerProperties, n + 1 \in Nat
    <3>a. w \div Base \in Nat
      BY BaseDivision
    <3>1. PICK p, q \in Nat : p = Power[n + 1] /\ q = w \div Base
      BY <3>0, <3>a
    <3>2. w < Base * p
      <4>1. Power[n + 1 + 1] = Base * Power[n + 1]
        BY PowerProperties, n + 1 \in Nat
      <4>2. QED BY <2>1, <3>1, <4>1
    <3>3. q < p
      BY ONLY <3>1, <3>2, BaseAssumption, w \in Nat, QuotientBound
    <3>4. Ends(Digits[q]) /\ Len(Digits[q]) <= n + 1
      BY <1>3, <3>1, <3>3
    <3>5. PICK x \in Byte : x = (w % Base) + Base /\ Digits[w] = Cat(<<x>>, Digits[q])
      BY <2>3, <3>1, DigitsStep
    <3>6. x >= Base
      <4>1. w % Base \in Nat
        BY Division, BaseAssumption
      <4>2. QED BY <3>5, <4>1, BaseAssumption
    <3>7. Ends(Cat(<<x>>, Digits[q])) /\ Len(Cat(<<x>>, Digits[q])) = Len(Digits[q]) + 1
      BY <3>4, <3>6, EndsMore
    <3>8. Len(Digits[q]) \in Nat
      BY <3>4 DEF Ends
    <3>9. QED BY <3>4, <3>5, <3>7, <3>8
  <2>4. QED BY <2>2, <2>3, BaseAssumption
<1>4. Nat \subseteq S
  <2> HIDE DEF S
  <2>1. QED BY <1>2, <1>3, SetInduction
<1>5. QED BY <1>4

\* What the digits of a number say.
LEMMA DigitsSay ==
    ASSUME NEW v \in Nat, NEW h, ReadsAs(h, Digits[v])
    PROVE  h[0] = v
<1> DEFINE D == Digits[v]
           Suffix(w, i) == /\ i + Len(Digits[w]) = Len(D)
                           /\ \A j \in 1 .. Len(Digits[w]) : D[i + j] = Digits[w][j]
           S == {n \in Nat : \A w, i \in Nat : w <= n /\ Suffix(w, i) => h[i] = w}
<1>1. \A w \in Nat : Digits[w] \in Seq(Byte) /\ Len(Digits[w]) \in Nat
  BY DigitsStep, LenProperties
<1>2. h[Len(D)] = 0 /\ \A i \in 1 .. Len(D) : h[i - 1] = Valued(D[i], h[i])
  BY DEF ReadsAs
<1> HIDE DEF D
<1>3. ASSUME NEW w \in Nat, NEW i \in Nat, w < Base, Suffix(w, i) PROVE h[i] = w
  <2>1. Digits[w] = <<w>>
    BY <1>3, DigitsStep
  <2>2. Len(Digits[w]) = 1 /\ Digits[w][1] = w /\ 1 \in 1 .. 1
    BY <2>1
  <2>3. i + 1 = Len(D) /\ D[i + 1] = w
    BY <1>3, <2>2
  <2>4. PICK j : j = i + 1
    OBVIOUS
  <2>5. j \in 1 .. Len(D) /\ j - 1 = i /\ j = Len(D)
    BY <2>3, <2>4
  <2>6. h[i] = Valued(w, 0)
    BY <1>2, <2>3, <2>4, <2>5
  <2>7. Valued(w, 0) = w
    BY <1>3, BaseAssumption DEF Valued
  <2>8. QED BY <2>6, <2>7
<1>4. 0 \in S
  <2>1. SUFFICES ASSUME NEW w \in Nat, NEW i \in Nat, w <= 0, Suffix(w, i) PROVE h[i] = w
    OBVIOUS
  <2>2. w < Base
    BY <2>1, BaseAssumption
  <2>3. QED BY <1>3, <2>1, <2>2
<1>5. ASSUME NEW n \in Nat, n \in S PROVE n + 1 \in S
  <2>1. SUFFICES ASSUME NEW w \in Nat, NEW i \in Nat, w <= n + 1, Suffix(w, i)
                 PROVE  h[i] = w
    OBVIOUS
  <2>2. CASE w >= Base
    <3>1. PICK q \in Nat : q = w \div Base /\ w = Base * q + (w % Base) /\ q <= n /\ w % Base \in 0 .. Base - 1
      <4>1. w > 0 /\ Base \in Nat \ {0} /\ Base > 1
        BY <2>2, BaseAssumption
      <4>2. w \div Base \in Nat /\ w = Base * (w \div Base) + (w % Base) /\ w \div Base < w /\ w % Base \in 0 .. Base - 1
        BY <4>1, Division
      <4>3. w \div Base <= n
        BY <2>1, <4>2
      <4>4. QED BY <4>2, <4>3
    <3>2. PICK x \in Byte : x = (w % Base) + Base /\ Digits[w] = Cat(<<x>>, Digits[q])
      BY <2>2, <3>1, DigitsStep
    <3>3. Digits[q] \in Seq(Byte)
      BY <1>1
    <3>4. /\ Len(Digits[w]) = Len(Digits[q]) + 1 /\ Len(Digits[q]) \in Nat /\ Digits[w][1] = x
          /\ \A l \in 1 .. Len(Digits[q]) : \A j \in Nat : j = l + 1 => Digits[w][j] = Digits[q][l]
      BY <3>2, <3>3, CatFirst
    <3>5. PICK j : j = i + 1
      OBVIOUS
    <3>6. j \in 1 .. Len(D) /\ j - 1 = i /\ j \in Nat /\ 1 \in 1 .. Len(Digits[w])
      BY <2>1, <3>4, <3>5
    <3>7. D[j] = x
      BY <2>1, <3>4, <3>5, <3>6
    <3>8. Suffix(q, j)
      <4>1. j + Len(Digits[q]) = Len(D)
        <5>1. i + Len(Digits[w]) = Len(D)
          BY <2>1
        <5>2. PICK a, b \in Nat : a = Len(Digits[w]) /\ b = Len(Digits[q])
          BY <1>1
        <5>3. i + a = Len(D) /\ a = b + 1
          BY <3>4, <5>1, <5>2
        <5>4. j + b = i + a
          BY <3>5, <5>3
        <5>5. QED BY <5>2, <5>3, <5>4
      <4>2. ASSUME NEW l \in 1 .. Len(Digits[q]) PROVE D[j + l] = Digits[q][l]
        <5>1. PICK m \in Nat : m = l + 1
          OBVIOUS
        <5>2. m \in 1 .. Len(Digits[w]) /\ i + m = j + l
          BY <3>4, <3>5, <5>1
        <5>3. D[i + m] = Digits[w][m]
          BY <2>1, <5>2
        <5>4. QED BY <3>4, <5>1, <5>2, <5>3
      <4>3. QED BY <4>1, <4>2
    <3> HIDE DEF Suffix
    <3>9. h[j] = q
      BY <1>5, <3>1, <3>6, <3>8
    <3>10. h[i] = Valued(x, q)
      BY <1>2, <3>6, <3>7, <3>9
    <3>11. Valued(x, q) = w
      <4>1. PICK r \in 0 .. Base - 1 : r = w % Base
        BY <3>1
      <4>2. (r + Base) % Base = r
        <5>1. PICK b \in Nat \ {0, 1} : b = Base
          BY BaseDivision
        <5>2. r \in 0 .. b - 1
          BY <4>1, <5>1
        <5>3. (r + b) % b = r
          BY ONLY <5>2, b \in Nat \ {0, 1}
        <5>4. QED BY <5>1, <5>3
      <4>3. x = r + Base
        BY <3>2, <4>1
      <4>4. x % Base = r
        BY ONLY <4>2, <4>3
      <4>5. Valued(x, q) = r + Base * q
        BY ONLY <4>4 DEF Valued
      <4>6. PICK t : t = Base * q
        OBVIOUS
      <4>7. t \in Nat
        BY ONLY <4>6, BaseDivision, q \in Nat, Multiplication
      <4>8. w = t + r
        BY ONLY <3>1, <4>1, <4>6
      <4>9. QED BY ONLY <4>1, <4>5, <4>6, <4>7, <4>8, BaseDivision
    <3>12. QED BY <3>10, <3>11
  <2>3. CASE w < Base
    BY <1>3, <2>1, <2>3
  <2>4. QED BY <2>2, <2>3, BaseAssumption
<1>6. Nat \subseteq S
  <2> HIDE DEF S
  <2>1. QED BY <1>4, <1>5, SetInduction
<1>7. Suffix(v, 0)
  <2>1. Len(D) \in Nat /\ D = Digits[v]
    BY <1>1 DEF D
  <2>2. QED BY <2>1
<1>8. \A n \in Nat : \A w, i \in Nat : w <= n /\ Suffix(w, i) => h[i] = w
  BY <1>6
<1> HIDE DEF Suffix, S
<1>9. QED BY <1>7, <1>8
-----------------------------------------------------------------------------
(* A variable length integer at the front of some bytes *)

\* A sequence that is not empty: its first element and the others.
LEMMA FirstAndTail ==
    ASSUME NEW S, NEW s \in Seq(S), s # <<>>
    PROVE  /\ s[1] \in S /\ <<s[1]>> \in Seq(S) /\ Tail(s) \in Seq(S)
           /\ Len(Tail(s)) = Len(s) - 1 /\ Len(s) \in Nat /\ Len(s) >= 1
           /\ s = Cat(<<s[1]>>, Tail(s))
<1>1. Len(s) \in Nat /\ Len(s) >= 1 /\ s[1] \in S
  BY EmptySeq, LenProperties, ElementOfSeq
<1>2. /\ Tail(s) \in Seq(S) /\ Len(Tail(s)) = Len(s) - 1
      /\ \A i \in 1 .. Len(s) - 1 : Tail(s)[i] = s[i + 1]
  BY <1>1, HeadTailProperties
<1>a. PICK t \in Seq(S), x \in S : t = Tail(s) /\ x = s[1]
  BY <1>1, <1>2
<1> DEFINE c == Cat(<<x>>, t)
<1>3. /\ <<x>> \in Seq(S) /\ c \in Seq(S)
      /\ Len(c) = Len(t) + 1 /\ Len(t) \in Nat
      /\ c[1] = x
      /\ \A i \in 1 .. Len(t) : \A j \in Nat : j = i + 1 => c[j] = t[i]
  BY CatFirst
<1> HIDE DEF c
<1>4. Len(c) = Len(s)
  BY <1>1, <1>2, <1>3, <1>a
<1>5. ASSUME NEW j \in 1 .. Len(s) PROVE c[j] = s[j]
  <2>1. CASE j = 1
    BY <1>3, <1>a, <2>1
  <2>2. CASE j # 1
    <3>1. PICK i \in Nat : i = j - 1
      BY <2>2
    <3>2. i \in 1 .. Len(s) - 1 /\ i \in 1 .. Len(t) /\ j = i + 1 /\ j \in Nat
      BY <1>1, <1>2, <1>a, <2>2, <3>1
    <3>3. QED BY <1>2, <1>3, <1>a, <3>2
  <2>3. QED BY <2>1, <2>2
<1>6. c = s
  BY <1>3, <1>4, <1>5, SeqEqual
<1>7. QED BY <1>1, <1>2, <1>3, <1>6, <1>a DEF c

\* What begins with one element, and of which a part is at hand.
LEMMA TailGoesOn ==
    ASSUME NEW S, NEW s \in Seq(S), s # <<>>, NEW r \in Seq(S), NEW x \in S, NEW y \in Seq(S),
           Cat(s, r) = Cat(<<x>>, y)
    PROVE  /\ s[1] = x /\ Tail(s) \in Seq(S)
           /\ s = Cat(<<x>>, Tail(s)) /\ Cat(Tail(s), r) = y
<1>1. /\ s[1] \in S /\ <<s[1]>> \in Seq(S) /\ Tail(s) \in Seq(S)
      /\ s = Cat(<<s[1]>>, Tail(s))
  BY FirstAndTail
<1>2. <<x>> \in Seq(S) /\ Len(<<x>>) = 1 /\ Len(<<s[1]>>) = 1 /\ <<x>>[1] = x /\ <<s[1]>>[1] = s[1]
  BY <1>1
<1>3. PICK a, b, t : a = <<s[1]>> /\ b = <<x>> /\ t = Tail(s)
  OBVIOUS
<1>4. a \in Seq(S) /\ b \in Seq(S) /\ t \in Seq(S) /\ Len(a) = Len(b) /\ a[1] = s[1] /\ b[1] = x
  BY <1>1, <1>2, <1>3
<1>5. Cat(s, r) = Cat(a, Cat(t, r))
  <2>1. s = Cat(a, t)
    BY <1>1, <1>3
  <2>2. Cat(Cat(a, t), r) = Cat(a, Cat(t, r))
    BY <1>4, CatAssociative
  <2>3. QED BY <2>1, <2>2
<1>6. Cat(t, r) \in Seq(S)
  BY <1>4, CatType
<1>7. Cat(a, Cat(t, r)) = Cat(b, y)
  BY <1>3, <1>5
<1>8. a = b /\ Cat(t, r) = y
  BY <1>4, <1>6, <1>7, CatCancel
<1>9. s[1] = x
  BY <1>4, <1>8
<1>10. QED BY <1>1, <1>3, <1>8, <1>9

\* Bytes that begin with digits that end.
LEMMA LengthIsThere ==
    ASSUME NEW d, Ends(d), Len(d) <= MaxDigits, NEW e \in Seq(Byte)
    PROVE  CanDeserialize(Cat(d, e)) /\ Used(Cat(d, e)) = {Len(d)}
<1>1. d \in Seq(Byte) /\ Len(d) \in Nat /\ Len(d) >= 1 /\ Len(d) \in 1 .. Len(d)
  BY DEF Ends
<1>2. PICK b : b = Cat(d, e)
  OBVIOUS
<1>3. /\ b \in Seq(Byte) /\ Len(b) = Len(d) + Len(e) /\ Len(e) \in Nat
      /\ \A i \in 1 .. Len(d) : b[i] = d[i]
  <2>1. Cat(d, e) \in Seq(Byte)
    BY <1>1, CatType
  <2>2. Len(Cat(d, e)) = Len(d) + Len(e) /\ Len(e) \in Nat
    BY <1>1, CatLen
  <2>3. \A i \in 1 .. Len(d) : Cat(d, e)[i] = d[i]
    BY <1>1, CatElements
  <2>4. QED BY <1>2, <2>1, <2>2, <2>3
<1>4. Len(d) \in 1 .. Len(b) /\ DOMAIN b = 1 .. Len(b) /\ Len(b) \in Nat
  BY <1>1, <1>3, LenProperties
<1>5. b[Len(d)] < Base
  BY <1>1, <1>3 DEF Ends
<1>6. CanDeserialize(b)
  BY <1>4, <1>5 DEF CanDeserialize
<1>7. \A i \in 1 .. Len(d) - 1 : b[i] >= Base
  <2>1. \A i \in 1 .. Len(d) - 1 : i \in 1 .. Len(d) /\ d[i] >= Base
    BY <1>1 DEF Ends
  <2>2. QED BY <1>3, <2>1
<1>8. Len(d) \in Used(b)
  BY <1>1, <1>4, <1>5, <1>7, DigitsAssumption DEF Used
<1>9. ASSUME NEW n \in Used(b) PROVE n = Len(d)
  <2>1. /\ n \in 1 .. MaxDigits /\ n <= Len(b) /\ b[n] < Base /\ n \in Nat /\ n >= 1
        /\ \A i \in 1 .. n - 1 : b[i] >= Base
    BY DigitsAssumption DEF Used
  <2>2. b[n] \in Nat /\ b[Len(d)] \in Nat /\ Base \in Nat
    <3>1. n \in 1 .. Len(b)
      BY <1>4, <2>1
    <3>2. b[n] \in Byte /\ b[Len(d)] \in Byte
      BY <1>3, <1>4, <3>1, ElementOfSeq
    <3>3. QED BY <3>2, ByteProperties, BaseAssumption
  <2>3. ~(n < Len(d))
    <3>1. SUFFICES ASSUME n < Len(d) PROVE FALSE
      OBVIOUS
    <3>2. n \in 1 .. Len(d) - 1
      BY <1>1, <2>1, <3>1
    <3>3. b[n] >= Base
      BY <1>7, <3>2
    <3>4. QED BY <2>1, <2>2, <3>3
  <2>4. ~(Len(d) < n)
    <3>1. SUFFICES ASSUME Len(d) < n PROVE FALSE
      OBVIOUS
    <3>2. Len(d) \in 1 .. n - 1
      BY <1>1, <2>1, <3>1
    <3>3. b[Len(d)] >= Base
      BY <2>1, <3>2
    <3>4. QED BY <1>5, <2>2, <3>3
  <2>5. QED BY ONLY <1>1, <2>1, <2>3, <2>4
<1>10. Used(b) = {Len(d)}
  BY <1>8, <1>9
<1>11. QED BY <1>2, <1>6, <1>10

\* The length is there in full when the bytes at hand say so.
LEMMA LengthComes ==
    ASSUME NEW d, Ends(d), Len(d) <= MaxDigits, NEW b \in Seq(Byte), NEW r \in Seq(Byte),
           NEW y \in Seq(Byte), Cat(b, r) = Cat(d, y), CanDeserialize(b)
    PROVE  \E e \in Seq(Byte) : b = Cat(d, e) /\ y = Cat(e, r)
<1>1. /\ d \in Seq(Byte) /\ Len(d) \in Nat /\ Len(d) >= 1 /\ Len(b) \in Nat
      /\ DOMAIN b = 1 .. Len(b) /\ MaxDigits \in Nat
  BY LenProperties, DigitsAssumption DEF Ends
<1>2. Len(d) <= Len(b)
  <2>1. SUFFICES ASSUME Len(b) < Len(d) PROVE FALSE
    BY <1>1
  <2>2. PICK i \in 1 .. Len(b) : b[i] < Base
    BY <1>1, <2>1 DEF CanDeserialize
  <2>3. i \in 1 .. Len(d) - 1 /\ i \in 1 .. Len(d)
    BY <1>1, <2>1
  <2>4. Cat(b, r)[i] = b[i]
    BY CatElements
  <2>5. Cat(d, y)[i] = d[i]
    BY <1>1, <2>3, CatElements
  <2>6. d[i] >= Base
    BY <2>3 DEF Ends
  <2>7. d[i] \in Nat /\ Base \in Nat
    BY <1>1, <2>3, ElementOfSeq, ByteProperties, BaseAssumption
  <2>8. QED BY <2>2, <2>4, <2>5, <2>6, <2>7
<1>3. QED BY <1>1, <1>2, CatSplit

\* The value of the length that bytes begin with.
LEMMA LengthSays ==
    ASSUME NEW v \in Nat, NEW e \in Seq(Byte)
    PROVE  Value(Cat(Digits[v], e), Len(Digits[v])) = v
<1>1. Digits[v] \in Seq(Byte)
  BY DigitsStep
<1>2. SubSeq(Cat(Digits[v], e), 1, Len(Digits[v])) = Digits[v]
  BY <1>1, CatPrefix
<1>3. PICK h : ReadsAs(h, Digits[v]) /\ Value(Cat(Digits[v], e), Len(Digits[v])) = h[0]
  BY <1>1, <1>2, ValueRead
<1>4. QED BY <1>3, DigitsSay

\* The digits of a length that a packet may have.
LEMMA LengthShape ==
    ASSUME NEW v \in Nat, v <= MaxValue
    PROVE  Ends(Digits[v]) /\ Len(Digits[v]) <= MaxDigits
<1>1. PICK k \in Nat : k + 1 = MaxDigits
  <2>1. MaxDigits - 1 \in Nat /\ MaxDigits - 1 + 1 = MaxDigits
    BY DigitsAssumption
  <2>2. QED BY <2>1
<1>2. v < Power[k + 1]
  <2>1. Power[MaxDigits] \in Nat
    BY DigitsAssumption, PowerProperties
  <2>2. QED BY <1>1, <2>1 DEF MaxValue
<1>3. QED BY <1>1, <1>2, DigitsShape

\* varlen_int: every length up to MaxValue is written in at most MaxDigits bytes,
\* can be read as soon as these are there, whatever follows, and comes back.
THEOREM LengthReadsBack ==
    ASSUME NEW v \in Nat, v <= MaxValue, NEW e \in Seq(Byte)
    PROVE  /\ Len(Digits[v]) <= MaxDigits
           /\ CanDeserialize(Cat(Digits[v], e))
           /\ Used(Cat(Digits[v], e)) = {Len(Digits[v])}
           /\ Value(Cat(Digits[v], e), Len(Digits[v])) = v
BY LengthShape, LengthIsThere, LengthSays

\* The bytes of a length that does not end.
Highs == [i \in 1 .. MaxDigits |-> Base]
Endless == Cat(<<0>>, Highs)

\* A length that does not end consists of bytes.
LEMMA EndlessType ==
    /\ 0 \in Byte /\ <<0>> \in Seq(Byte) /\ Highs \in Seq(Byte) /\ Endless \in Seq(Byte)
    /\ Endless = <<0>> \o [i \in 1 .. MaxDigits |-> Base]
<1>1. 0 \in Byte /\ Base \in Byte
  BY BaseAssumption DEF Byte
<1>2. <<0>> \in Seq(Byte) /\ Highs \in Seq(Byte)
  BY <1>1, DigitsAssumption DEF Highs
<1>3. QED BY <1>1, <1>2, CatType DEF Endless, Highs, Cat

\* No part of its digits says a length.
LEMMA EndlessUses ==
    ASSUME NEW b \in Seq(Byte), NEW r \in Seq(Byte), Cat(b, r) = Highs
    PROVE  Used(b) = {}
<1>1. SUFFICES ASSUME NEW n \in Used(b) PROVE FALSE
  OBVIOUS
<1>2. n \in 1 .. MaxDigits /\ n <= Len(b) /\ b[n] < Base /\ Len(b) \in Nat
  BY LenProperties DEF Used
<1>3. n \in 1 .. Len(b)
  BY <1>2, DigitsAssumption
<1>4. Cat(b, r)[n] = b[n]
  BY <1>3, CatElements
<1>5. Highs[n] = Base
  BY <1>2 DEF Highs
<1>6. QED BY <1>2, <1>4, <1>5, BaseAssumption
-----------------------------------------------------------------------------
(* Integers of fixed width *)

\* No byte says 0.
LEMMA IntegerOfNothing == IntegerOf(<<>>) = 0
<1>1. <<>> \in Seq(Byte) /\ Len(<<>>) = 0
  OBVIOUS
<1>2. PICK h : Counts(h, <<>>) /\ IntegerOf(<<>>) = h[Len(<<>>)]
  BY <1>1, IntegerRead
<1>3. QED BY <1>1, <1>2 DEF Counts

\* One byte more.
LEMMA IntegerAppend ==
    ASSUME NEW S, NEW s \in Seq(S), NEW x \in S
    PROVE  IntegerOf(Append(s, x)) = Shifted(IntegerOf(s), x)
<1> DEFINE t == Append(s, x)
           n == Len(s)
<1>1. /\ t \in Seq(S) /\ Len(t) = n + 1 /\ n \in Nat /\ t[n + 1] = x
      /\ \A i \in 1 .. n : t[i] = s[i]
  BY AppendProperties, LenProperties
<1>2. PICK g : Counts(g, s) /\ IntegerOf(s) = g[Len(s)]
  BY IntegerRead
<1>3. PICK h : Counts(h, t) /\ IntegerOf(t) = h[Len(t)]
  BY <1>1, IntegerRead
<1> HIDE DEF t
<1> DEFINE K == {i \in Nat : i <= n => h[i] = g[i]}
<1>4. 0 \in K
  BY <1>2, <1>3 DEF Counts
<1>5. ASSUME NEW i \in Nat, i \in K PROVE i + 1 \in K
  <2>1. SUFFICES ASSUME i + 1 <= n PROVE h[i + 1] = g[i + 1]
    OBVIOUS
  <2>2. PICK j \in Nat : j = i + 1
    OBVIOUS
  <2>3. j \in 1 .. n /\ j \in 1 .. Len(t) /\ j - 1 = i /\ i <= n
    BY <1>1, <2>1, <2>2
  <2>4. h[i] = g[i] /\ t[j] = s[j]
    BY <1>1, <1>5, <2>3
  <2>5. h[j] = Shifted(h[i], t[j])
    BY <1>3, <2>3 DEF Counts
  <2>6. g[j] = Shifted(g[i], s[j])
    BY <1>2, <2>3 DEF Counts
  <2>7. QED BY <2>2, <2>4, <2>5, <2>6
<1>6. Nat \subseteq K
  <2> HIDE DEF K
  <2>1. QED BY <1>4, <1>5, SetInduction
<1>7. h[n] = g[n]
  BY <1>1, <1>6
<1>8. PICK m \in Nat : m = n + 1
  BY <1>1
<1>9. m \in 1 .. Len(t) /\ m - 1 = n /\ t[m] = x /\ Len(t) = m
  BY <1>1, <1>8
<1>10. h[m] = Shifted(h[n], x)
  BY <1>3, <1>9 DEF Counts
<1>11. QED BY <1>2, <1>3, <1>7, <1>9, <1>10 DEF t

\* The integers below a bound are written in so many bytes, and read back.
Says(w, bound) ==
    \A x \in Nat : x < bound =>
        FixedInt[w][x] \in Seq(Byte) /\ Len(FixedInt[w][x]) = w /\ IntegerOf(FixedInt[w][x]) = x

\* No byte is enough for 0.
LEMMA SaysNothing == Says(0, 1)
<1>1. SUFFICES ASSUME NEW x \in Nat, x < 1
               PROVE  FixedInt[0][x] \in Seq(Byte) /\ Len(FixedInt[0][x]) = 0 /\ IntegerOf(FixedInt[0][x]) = x
  BY DEF Says
<1>2. FixedInt[0][x] = <<>> /\ x = 0
  <2>1. PICK w \in Nat : w = 0
    BY 0 \in Nat
  <2>2. FixedInt[0][x] = <<>>
    BY ONLY FixedIntStep, w \in Nat, x \in Nat
  <2>3. x = 0
    BY <1>1
  <2>4. QED BY <2>2, <2>3
<1>3. <<>> \in Seq(Byte) /\ Len(<<>>) = 0
  OBVIOUS
<1>4. QED BY <1>2, <1>3, IntegerOfNothing

\* One byte more is enough for 2 * Base times as many values.
LEMMA SaysMore ==
    ASSUME NEW w \in Nat, NEW bound \in Nat, Says(w, bound)
    PROVE  Says(w + 1, (2 * Base) * bound) /\ (2 * Base) * bound \in Nat
<1>1. PICK b \in Nat \ {0, 1} : b = 2 * Base
  BY BaseAssumption
<1>2. SUFFICES ASSUME NEW x \in Nat, x < b * bound
               PROVE  /\ FixedInt[w + 1][x] \in Seq(Byte) /\ Len(FixedInt[w + 1][x]) = w + 1
                      /\ IntegerOf(FixedInt[w + 1][x]) = x
  BY <1>1, Multiplication DEF Says
<1>3. /\ x \div b \in Nat /\ x % b \in Byte
      /\ FixedInt[w + 1][x] = Append(FixedInt[w][x \div b], x % b)
  BY <1>1, FixedIntStep
<1>4. PICK q \in Nat, r \in Byte : q = x \div b /\ r = x % b
  BY <1>3
<1>5. q < bound
  BY ONLY <1>2, <1>4, b \in Nat \ {0, 1}, x \in Nat, bound \in Nat, QuotientBound
<1>6. x = b * q + r
  BY ONLY <1>4, b \in Nat \ {0, 1}, x \in Nat, Division
<1>7. FixedInt[w][q] \in Seq(Byte) /\ Len(FixedInt[w][q]) = w /\ IntegerOf(FixedInt[w][q]) = q
  BY <1>5 DEF Says
<1>8. PICK s : s = FixedInt[w][q]
  OBVIOUS
<1>9. FixedInt[w + 1][x] = Append(s, r)
  BY <1>3, <1>4, <1>8
<1>10. Append(s, r) \in Seq(Byte) /\ Len(Append(s, r)) = w + 1
  BY <1>7, <1>8, AppendProperties
<1>11. IntegerOf(Append(s, r)) = Shifted(q, r)
  BY <1>7, <1>8, IntegerAppend
<1>12. Shifted(q, r) = x
  <2>1. r \in Nat
    BY ByteProperties
  <2>2. Shifted(q, r) = q * 2 * Base + r
    BY DEF Shifted
  <2>3. Base \in Nat
    BY BaseAssumption
  <2>4. q * 2 * Base = b * q
    BY ONLY <1>1, <2>3, q \in Nat
  <2>5. QED BY <1>6, <2>2, <2>4
<1>13. QED BY <1>9, <1>10, <1>11, <1>12

\* So the bytes of each of the integer types say their values.
LEMMA IntegersSay ==
    /\ Says(1, 2 * Base)
    /\ Says(2, (2 * Base) * (2 * Base))
    /\ Says(4, (2 * Base) * ((2 * Base) * ((2 * Base) * (2 * Base))))
<1> DEFINE b == 2 * Base
<1>1. b \in Nat /\ b * 1 = b
  BY BaseAssumption
<1>2. Says(1, b)
  <2>1. Says(0 + 1, (2 * Base) * 1)
    BY SaysNothing, SaysMore, 0 \in Nat, 1 \in Nat
  <2>2. QED BY <1>1, <2>1
<1>3. Says(2, (2 * Base) * b) /\ (2 * Base) * b \in Nat
  <2>1. Says(1 + 1, (2 * Base) * b) /\ (2 * Base) * b \in Nat
    <3> HIDE DEF b
    <3>1. QED BY <1>1, <1>2, SaysMore, 1 \in Nat
  <2>2. QED BY <2>1
<1> DEFINE c == (2 * Base) * b
<1>4. Says(3, (2 * Base) * c) /\ (2 * Base) * c \in Nat
  <2>1. Says(2 + 1, (2 * Base) * c) /\ (2 * Base) * c \in Nat
    <3>1. c \in Nat /\ Says(2, c)
      BY <1>3
    <3> HIDE DEF c
    <3>2. QED BY <3>1, SaysMore, 2 \in Nat
  <2>2. QED BY <2>1
<1> DEFINE d == (2 * Base) * c
<1>5. Says(4, (2 * Base) * d)
  <2>1. Says(3 + 1, (2 * Base) * d)
    <3>1. d \in Nat /\ Says(3, d)
      BY <1>4
    <3> HIDE DEF d
    <3>2. QED BY <3>1, SaysMore, 3 \in Nat
  <2>2. QED BY <2>1
<1>6. QED BY <1>2, <1>3, <1>5

\* An integer that its bytes can say is read as it was written.
LEMMA IntegerReadsBack ==
    ASSUME NEW w \in {1, 2, 4}, NEW x \in Values(w)
    PROVE  /\ x \in Nat
           /\ FixedInt[w][x] \in Seq(Byte) /\ Len(FixedInt[w][x]) = w
           /\ IntegerOf(FixedInt[w][x]) = x
<1>1. PICK b \in Nat : b = 2 * Base
  BY BaseAssumption
<1>2. b * b \in Nat
  BY Multiplication
<1>3. b * (b * (b * b)) \in Nat
  BY <1>2, Multiplication
<1>4. CASE w = 1
  <2>1. x \in Nat /\ x < b
    BY <1>1, <1>4 DEF Values
  <2>2. QED BY <1>1, <1>4, <2>1, IntegersSay DEF Says
<1>5. CASE w = 2
  <2>1. x \in 0 .. b * b - 1
    BY <1>1, <1>5 DEF Values
  <2>2. x \in Nat /\ x < b * b
    BY <1>2, <2>1
  <2>3. QED BY <1>1, <1>5, <2>2, IntegersSay DEF Says
<1>6. CASE w = 4
  <2>1. x \in 0 .. b * (b * (b * b)) - 1
    BY <1>1, <1>6 DEF Values
  <2>2. x \in Nat /\ x < b * (b * (b * b))
    BY <1>3, <2>1
  <2>3. QED BY <1>1, <1>6, <2>2, IntegersSay DEF Says
<1>7. QED BY <1>4, <1>5, <1>6
-----------------------------------------------------------------------------
(* Fields and bodies *)

\* The kinds of fields.
LEMMA FieldCases ==
    ASSUME NEW f \in Field
    PROVE  /\ f.kind \in Kinds /\ f = [kind |-> f.kind, value |-> f.value]
           /\ f.kind \in IntegerKinds => Width(f.kind) \in {1, 2, 4} /\ f.value \in Values(Width(f.kind))
           /\ f.kind \notin IntegerKinds => f.kind \in {"string", "rest"} /\ f.value \in Seq(Byte)
<1>1. CASE f \in [kind : {"u8"}, value : Values(1)]
  BY <1>1 DEF Kinds, IntegerKinds, Width
<1>2. CASE f \in [kind : {"u16"}, value : Values(2)]
  BY <1>2 DEF Kinds, IntegerKinds, Width
<1>3. CASE f \in [kind : {"u32"}, value : Values(4)]
  BY <1>3 DEF Kinds, IntegerKinds, Width
<1>4. CASE f \in [kind : {"string", "rest"}, value : Seq(Byte)]
  BY <1>4 DEF Kinds, IntegerKinds, Width
<1>5. QED BY <1>1, <1>2, <1>3, <1>4 DEF Field

\* The bytes of a string: its length, then its own.
LEMMA StringBytes ==
    ASSUME NEW v \in Seq(Byte)
    PROVE  /\ FixedInt[2][Len(v)] \in Seq(Byte)
           /\ FixedInt[2][Len(v)] \o v = Cat(FixedInt[2][Len(v)], v)
           /\ Cat(FixedInt[2][Len(v)], v) \in Seq(Byte)
<1>1. FixedInt[2] \in [Nat -> Seq(Byte)] /\ Len(v) \in Nat
  BY FixedIntStep, LenProperties, 2 \in Nat
<1>2. FixedInt[2][Len(v)] \in Seq(Byte)
  BY <1>1
<1>3. QED BY <1>2, CatType DEF Cat

\* A field is written in bytes.
LEMMA FieldBytesType ==
    ASSUME NEW f \in Field
    PROVE  FieldBytes(f) \in Seq(Byte)
<1>1. CASE f.kind \in IntegerKinds
  <2>1. PICK w \in {1, 2, 4} : w = Width(f.kind) /\ f.value \in Values(w)
    BY <1>1, FieldCases
  <2>2. FixedInt[w][f.value] \in Seq(Byte)
    BY <2>1, IntegerReadsBack
  <2>3. f.kind # "string"
    BY <1>1 DEF IntegerKinds
  <2>4. FieldBytes(f) = FixedInt[w][f.value]
    BY <1>1, <2>1, <2>3 DEF FieldBytes
  <2>5. QED BY <2>2, <2>4
<1>2. CASE f.kind = "string"
  <2>1. f.value \in Seq(Byte) /\ f.kind \notin IntegerKinds
    BY <1>2, FieldCases DEF IntegerKinds
  <2>2. QED BY <1>2, <2>1, StringBytes DEF FieldBytes
<1>3. CASE f.kind = "rest"
  <2>1. f.value \in Seq(Byte) /\ f.kind \notin IntegerKinds
    BY <1>3, FieldCases DEF IntegerKinds
  <2>2. QED BY <1>3, <2>1 DEF FieldBytes
<1>4. QED BY <1>1, <1>2, <1>3, FieldCases

\* A string that its length can say.
Sayable(f) == f.kind = "string" => Len(f.value) \in Values(2)

\* The bytes of a field are used up by its kind, and say its value.
LEMMA FieldReadsBack ==
    ASSUME NEW f \in Field, Sayable(f), NEW y \in Seq(Byte), f.kind = "rest" => y = <<>>
    PROVE  /\ Uses(f.kind, Cat(FieldBytes(f), y)) = Len(FieldBytes(f))
           /\ ValueOf(f.kind, FieldBytes(f)) = f.value
<1>1. CASE f.kind \in IntegerKinds
  <2>1. PICK w \in {1, 2, 4} : w = Width(f.kind) /\ f.value \in Values(w)
    BY <1>1, FieldCases
  <2>2. Len(FixedInt[w][f.value]) = w /\ IntegerOf(FixedInt[w][f.value]) = f.value
    BY <2>1, IntegerReadsBack
  <2>a. f.kind # "string"
    BY <1>1 DEF IntegerKinds
  <2>3. FieldBytes(f) = FixedInt[w][f.value]
    BY <1>1, <2>1, <2>a DEF FieldBytes
  <2>4. Uses(f.kind, Cat(FieldBytes(f), y)) = w
    BY <1>1, <2>1, <2>a DEF Uses
  <2>5. ValueOf(f.kind, FieldBytes(f)) = IntegerOf(FieldBytes(f))
    BY <1>1, <2>a DEF ValueOf
  <2>6. QED BY <2>2, <2>3, <2>4, <2>5
<1>2. CASE f.kind = "string"
  <2>1. f.value \in Seq(Byte) /\ f.kind \notin IntegerKinds /\ Len(f.value) \in Values(2)
    BY <1>2, FieldCases DEF IntegerKinds, Sayable
  <2>2. PICK v, a : v = f.value /\ a = FixedInt[2][Len(v)]
    OBVIOUS
  <2>3. /\ a \in Seq(Byte) /\ Len(a) = 2 /\ IntegerOf(a) = Len(v)
        /\ v \in Seq(Byte) /\ Len(v) \in Nat
    BY <2>1, <2>2, IntegerReadsBack
  <2>4. FieldBytes(f) = Cat(a, v) /\ Cat(a, v) \in Seq(Byte)
    BY <1>2, <2>1, <2>2, StringBytes DEF FieldBytes
  <2>5. PICK c : c = Cat(a, v)
    OBVIOUS
  <2>6. c \in Seq(Byte) /\ Len(c) = 2 + Len(v)
    BY <2>3, <2>4, <2>5, CatLen
  <2>7. PICK b : b = Cat(c, y)
    OBVIOUS
  <2>8. Len(b) = Len(c) + Len(y) /\ Len(y) \in Nat
    BY <2>6, <2>7, CatLen
  <2>9. SubSeq(b, 1, 2) = a
    <3>1. b = Cat(a, Cat(v, y)) /\ Cat(v, y) \in Seq(Byte)
      BY <2>3, <2>5, <2>7, CatAssociative, CatType
    <3>2. SubSeq(Cat(a, Cat(v, y)), 1, Len(a)) = a
      BY <2>3, <3>1, CatPrefix
    <3>3. QED BY <2>3, <3>1, <3>2
  <2>10. StringLength(b) = Len(v)
    BY <2>3, <2>9 DEF StringLength
  <2>11. Uses(f.kind, b) = 2 + Len(v)
    <3>1. Uses(f.kind, b) = IF Len(b) < 2 THEN 2 ELSE 2 + StringLength(b)
      BY <1>2, <2>1 DEF Uses
    <3>2. ~(Len(b) < 2)
      BY <2>3, <2>6, <2>8
    <3>3. QED BY <2>10, <3>1, <3>2
  <2>12. ValueOf(f.kind, c) = v
    <3>1. ValueOf(f.kind, c) = SubSeq(c, 3, Len(c))
      BY <1>2, <2>1 DEF ValueOf
    <3>2. SubSeq(Cat(a, v), Len(a) + 1, Len(Cat(a, v))) = v
      BY <2>3, CatPrefix
    <3>3. Len(a) + 1 = 3
      BY <2>3
    <3>4. QED BY <2>5, <3>1, <3>2, <3>3
  <2>13. QED BY <2>2, <2>4, <2>5, <2>6, <2>7, <2>11, <2>12
<1>3. CASE f.kind = "rest"
  <2>1. f.value \in Seq(Byte) /\ f.kind \notin IntegerKinds /\ f.kind # "string"
    BY <1>3, FieldCases DEF IntegerKinds
  <2>2. FieldBytes(f) = f.value
    BY <2>1 DEF FieldBytes
  <2>3. Cat(f.value, y) = f.value
    BY <1>3, <2>1, CatEmpty
  <2>4. Uses(f.kind, f.value) = Len(f.value) /\ ValueOf(f.kind, f.value) = f.value
    BY <2>1 DEF Uses, ValueOf
  <2>5. QED BY <2>2, <2>3, <2>4
<1>4. QED BY <1>1, <1>2, <1>3, FieldCases

\* What is taken of a body: some fields, and what is left.
IsTaken(t, fields, left) ==
    /\ t \in [fields : Seq(Field), left : Seq(Byte), throws : BOOLEAN]
    /\ t.fields = fields /\ t.left = left /\ t.throws = FALSE

\* Taking a field from the front of what is left gives the field and leaves the others.
LEMMA FieldTaken ==
    ASSUME NEW f \in Field, Sayable(f), NEW y \in Seq(Byte), f.kind = "rest" => y = <<>>,
           NEW t, NEW fields, IsTaken(t, fields, Cat(FieldBytes(f), y))
    PROVE  IsTaken(TakeField(t, f.kind), Append(fields, f), y)
<1>1. PICK c \in Seq(Byte) : c = FieldBytes(f)
  BY FieldBytesType
<1>2. PICK b : b = Cat(c, y)
  OBVIOUS
<1>3. Uses(f.kind, b) = Len(c) /\ ValueOf(f.kind, c) = f.value
  BY <1>1, <1>2, FieldReadsBack
<1>4. Len(b) = Len(c) + Len(y) /\ Len(y) \in Nat /\ Len(c) \in Nat
  BY <1>2, CatLen
<1>5. SubSeq(b, 1, Len(c)) = c /\ SubSeq(b, Len(c) + 1, Len(b)) = y
  BY <1>2, CatPrefix
<1>6. ~(Len(c) > Len(b))
  BY <1>4
<1>7. [kind |-> f.kind, value |-> f.value] = f
  BY FieldCases
<1>8. /\ t \in [fields : Seq(Field), left : Seq(Byte), throws : BOOLEAN]
      /\ t.fields = fields /\ t.left = b /\ t.throws = FALSE
  BY <1>1, <1>2 DEF IsTaken
<1>9. PICK g \in Seq(Field) : g = Append(fields, f)
  <2>1. fields \in Seq(Field)
    BY <1>8
  <2>2. Append(fields, f) \in Seq(Field)
    BY <2>1, AppendProperties
  <2>3. QED BY <2>2
<1>10. TakeField(t, f.kind) = [t EXCEPT !.fields = g, !.left = y]
  <2>1. Uses(f.kind, t.left) = Len(c)
    BY <1>3, <1>8
  <2>2. SubSeq(t.left, 1, Len(c)) = c /\ SubSeq(t.left, Len(c) + 1, Len(t.left)) = y
    BY <1>5, <1>8
  <2>3. ~(Len(c) > Len(t.left))
    BY <1>6, <1>8
  <2>4. Append(t.fields, [kind |-> f.kind, value |-> ValueOf(f.kind, c)]) = g
    BY <1>3, <1>7, <1>8, <1>9
  <2>5. QED BY <2>1, <2>2, <2>3, <2>4 DEF TakeField
<1>11. /\ [t EXCEPT !.fields = g, !.left = y] \in [fields : Seq(Field), left : Seq(Byte), throws : BOOLEAN]
       /\ [t EXCEPT !.fields = g, !.left = y].fields = g
       /\ [t EXCEPT !.fields = g, !.left = y].left = y
       /\ [t EXCEPT !.fields = g, !.left = y].throws = t.throws
  BY ONLY <1>8, g \in Seq(Field), y \in Seq(Byte)
<1>12. QED BY <1>8, <1>9, <1>10, <1>11 DEF IsTaken

\* The bytes of the fields, one after the other.
BytesOf(fields) == [i \in DOMAIN fields |-> FieldBytes(fields[i])]
KindsOf(fields) == [i \in DOMAIN fields |-> fields[i].kind]

RestIsLast(fields) == \A i \in 1 .. Len(fields) : fields[i].kind = "rest" => i = Len(fields)

\* The bytes and the kinds of the fields of a packet.
LEMMA BytesOfType ==
    ASSUME NEW fields \in Seq(Field)
    PROVE  /\ BytesOf(fields) \in Seq(Seq(Byte)) /\ Len(BytesOf(fields)) = Len(fields)
           /\ KindsOf(fields) \in Seq(Kinds) /\ Len(KindsOf(fields)) = Len(fields)
           /\ Len(fields) \in Nat
           /\ \A i \in 1 .. Len(fields) :
                /\ fields[i] \in Field /\ BytesOf(fields)[i] = FieldBytes(fields[i])
                /\ KindsOf(fields)[i] = fields[i].kind
<1>1. PICK n \in Nat : n = Len(fields) /\ DOMAIN fields = 1 .. n
  BY LenProperties
<1>2. \A i \in 1 .. n : fields[i] \in Field
  BY <1>1, ElementOfSeq
<1>3. \A i \in 1 .. n : FieldBytes(fields[i]) \in Seq(Byte) /\ fields[i].kind \in Kinds
  BY <1>2, FieldBytesType, FieldCases
<1>4. BytesOf(fields) = [i \in 1 .. n |-> FieldBytes(fields[i])]
  BY <1>1 DEF BytesOf
<1>5. KindsOf(fields) = [i \in 1 .. n |-> fields[i].kind]
  BY <1>1 DEF KindsOf
<1>6. BytesOf(fields) \in [1 .. n -> Seq(Byte)] /\ KindsOf(fields) \in [1 .. n -> Kinds]
  BY <1>3, <1>4, <1>5
<1>7. /\ BytesOf(fields) \in Seq(Seq(Byte)) /\ Len(BytesOf(fields)) = n
      /\ KindsOf(fields) \in Seq(Kinds) /\ Len(KindsOf(fields)) = n
  BY <1>6, SeqDef, LenProperties
<1>8. QED BY <1>1, <1>2, <1>4, <1>5, <1>7

\* A body is taken apart into the fields it was put together from.
LEMMA BodyReadsBack ==
    ASSUME NEW fields \in Seq(Field), RestIsLast(fields),
           \A i \in 1 .. Len(fields) : Sayable(fields[i])
    PROVE  /\ Deserialize(KindsOf(fields), FlattenSeq(BytesOf(fields))).fields = fields
           /\ Deserialize(KindsOf(fields), FlattenSeq(BytesOf(fields))).throws = FALSE
<1> DEFINE s == BytesOf(fields)
           kinds == KindsOf(fields)
           P(k) == FlattenSeq(SubSeq(s, 1, k))
<1>1. PICK n \in Nat : n = Len(fields)
  BY LenProperties
<1>2. /\ s \in Seq(Seq(Byte)) /\ Len(s) = n
      /\ kinds \in Seq(Kinds) /\ Len(kinds) = n
      /\ \A i \in 1 .. n : fields[i] \in Field /\ s[i] = FieldBytes(fields[i]) /\ kinds[i] = fields[i].kind
  BY <1>1, BytesOfType
<1> HIDE DEF s, kinds
<1>3. PICK B \in Seq(Byte) : B = FlattenSeq(s)
  BY <1>2, FlattenType
<1>4. PICK h : Taking(h, B, kinds) /\ Deserialize(kinds, B) = h[n]
  BY <1>2, BodyRead
<1> DEFINE G(k, y) == IsTaken(h[k], SubSeq(fields, 1, k), y) /\ Cat(P(k), y) = B
           K == {k \in Nat : k <= n => \E y \in Seq(Byte) : G(k, y)}
<1>5. 0 \in K
  <2>1. SubSeq(fields, 1, 0) = <<>> /\ SubSeq(s, 1, 0) = <<>>
    BY <1>1, <1>2, SubSeqEmpty
  <2>2. P(0) = <<>>
    BY <2>1, FlattenNothing
  <2>3. Cat(P(0), B) = B
    BY <2>2, CatEmpty
  <2>4. h[0] = [fields |-> <<>>, left |-> B, throws |-> FALSE]
    BY <1>4 DEF Taking, Untaken
  <2>5. <<>> \in Seq(Field)
    BY EmptySeq
  <2>6. IsTaken(h[0], <<>>, B)
    BY <2>4, <2>5 DEF IsTaken
  <2>7. G(0, B)
    BY <2>1, <2>3, <2>6
  <2>8. QED BY <2>7
<1>6. ASSUME NEW k \in Nat, k \in K PROVE k + 1 \in K
  <2>1. SUFFICES ASSUME k + 1 <= n PROVE \E y \in Seq(Byte) : G(k + 1, y)
    OBVIOUS
  <2>2. PICK m \in Nat : m = k + 1
    OBVIOUS
  <2>3. k < n /\ k <= n /\ m \in 1 .. n /\ m - 1 = k /\ k < Len(s)
    BY <1>2, <2>1, <2>2
  <2>4. PICK y \in Seq(Byte) : G(k, y)
    BY <1>6, <2>3
  <2>5. PICK z \in Seq(Byte) : FlattenSeq(s) = Cat(P(k), Cat(s[m], z)) /\ (m = Len(s) => z = <<>>)
    BY <1>2, <2>2, <2>3, FlattenSplit
  <2>6. s[m] \in Seq(Byte) /\ P(k) \in Seq(Byte) /\ P(m) = Cat(P(k), s[m])
    BY <1>2, <2>2, <2>3, FlattenPrefix
  <2> HIDE DEF P
  <2>7. Cat(s[m], z) \in Seq(Byte)
    BY <2>6, CatType
  <2>8. Cat(P(k), y) = Cat(P(k), Cat(s[m], z))
    BY <1>3, <2>4, <2>5
  <2>9. y = Cat(s[m], z)
    BY <2>6, <2>7, <2>8, CatCancel
  <2>10. Cat(P(m), z) = B
    <3>1. Cat(Cat(P(k), s[m]), z) = Cat(P(k), Cat(s[m], z))
      BY <2>6, CatAssociative
    <3>2. QED BY <1>3, <2>5, <2>6, <3>1
  <2>11. PICK f \in Field : f = fields[m]
    BY <1>2, <2>3
  <2>12. Sayable(f) /\ (f.kind = "rest" => z = <<>>)
    BY <1>1, <1>2, <2>3, <2>5, <2>11 DEF RestIsLast
  <2>13. IsTaken(h[k], SubSeq(fields, 1, k), Cat(FieldBytes(f), z))
    BY <1>2, <2>3, <2>4, <2>9, <2>11
  <2>14. IsTaken(TakeField(h[k], f.kind), Append(SubSeq(fields, 1, k), f), z)
    BY <2>12, <2>13, FieldTaken
  <2>15. h[m] = TakeField(h[k], f.kind)
    <3>1. h[m] = TakeField(h[m - 1], kinds[m])
      BY <1>2, <1>4, <2>3 DEF Taking
    <3>2. QED BY <1>2, <2>3, <2>11, <3>1
  <2>16. Append(SubSeq(fields, 1, k), f) = SubSeq(fields, 1, m)
    <3>1. SubSeq(fields, 1, k + 1) = Append(SubSeq(fields, 1, k), fields[k + 1])
      BY <1>1, <2>3, SubSeqRecursiveSecond
    <3>2. QED BY <2>2, <2>11, <3>1
  <2>17. G(m, z)
    BY <2>10, <2>14, <2>15, <2>16
  <2>18. QED BY <2>2, <2>17
<1>7. Nat \subseteq K
  <2> HIDE DEF K
  <2>1. QED BY <1>5, <1>6, SetInduction
<1>8. PICK y \in Seq(Byte) : G(n, y)
  <2>1. n \in K /\ n <= n
    BY <1>7
  <2>2. QED BY ONLY <2>1
<1>9. SubSeq(fields, 1, n) = fields
  BY <1>1, SubSeqFull
<1>10. Deserialize(kinds, B).fields = fields /\ Deserialize(kinds, B).throws = FALSE
  BY <1>4, <1>8, <1>9 DEF IsTaken
<1>11. QED BY <1>3, <1>10 DEF s, kinds
-----------------------------------------------------------------------------
(* Packets *)

\* A packet and its body.
LEMMA PacketTypes ==
    ASSUME NEW p \in Packets
    PROVE  /\ p.first \in Byte /\ p.fields \in Seq(Field)
           /\ p = [first |-> p.first, fields |-> p.fields]
           /\ Body(p) = FlattenSeq(BytesOf(p.fields))
           /\ Body(p) \in Seq(Byte) /\ Len(Body(p)) \in Nat /\ Len(Body(p)) <= MaxValue
<1>1. p \in [first : Byte, fields : Seq(Field)]
  BY PacketsAssumption
<1>2. p.first \in Byte /\ p.fields \in Seq(Field) /\ p = [first |-> p.first, fields |-> p.fields]
  BY <1>1
<1>3. Body(p) = FlattenSeq(BytesOf(p.fields))
  BY DEF Body, BytesOf
<1>4. BytesOf(p.fields) \in Seq(Seq(Byte))
  BY <1>2, BytesOfType
<1>5. Body(p) \in Seq(Byte)
  BY <1>3, <1>4, FlattenType
<1>6. QED BY <1>2, <1>3, <1>5, LenProperties, LengthAssumption

\* A packet on the stream: its first byte, the digits of its length, its body.
LEMMA PacketBytes ==
    ASSUME NEW p \in Packets
    PROVE  /\ <<p.first>> \in Seq(Byte)
           /\ Ends(Digits[Len(Body(p))]) /\ Len(Digits[Len(Body(p))]) <= MaxDigits
           /\ Digits[Len(Body(p))] \in Seq(Byte)
           /\ Encode(p) = Cat(<<p.first>>, Cat(Digits[Len(Body(p))], Body(p)))
           /\ Encode(p) = Cat(Cat(<<p.first>>, Digits[Len(Body(p))]), Body(p))
           /\ Cat(<<p.first>>, Digits[Len(Body(p))]) \in Seq(Byte)
           /\ Encode(p) \in Seq(Byte) /\ Encode(p) # <<>>
<1>1. PICK x \in Byte, b \in Seq(Byte) : x = p.first /\ b = Body(p)
  BY PacketTypes
<1>2. PICK d : d = Digits[Len(b)]
  OBVIOUS
<1>3. Len(b) \in Nat /\ Len(b) <= MaxValue
  BY <1>1, PacketTypes
<1>4. Ends(d) /\ Len(d) <= MaxDigits /\ d \in Seq(Byte)
  BY <1>2, <1>3, LengthShape, DigitsStep
<1>5. <<x>> \in Seq(Byte)
  BY ByteProperties
<1>6. PICK a \in Seq(Byte) : a = <<x>>
  BY <1>5
<1>7. Encode(p) = Cat(Cat(a, d), b)
  BY <1>1, <1>2, <1>6 DEF Encode, Cat
<1>8. Cat(Cat(a, d), b) = Cat(a, Cat(d, b)) /\ Cat(d, b) \in Seq(Byte) /\ Cat(a, d) \in Seq(Byte)
  BY <1>4, CatAssociative, CatType
<1>9. Cat(a, Cat(d, b)) \in Seq(Byte)
  BY <1>8, CatType
<1>10. Cat(a, Cat(d, b)) # <<>>
  <2>1. SUFFICES ASSUME Cat(a, Cat(d, b)) = <<>> PROVE FALSE
    OBVIOUS
  <2>2. a = <<>>
    BY <1>8, <2>1, CatNothing
  <2>3. <<x>> # <<>>
    OBVIOUS
  <2>4. QED BY <1>6, <2>2, <2>3
<1>11. QED BY <1>1, <1>2, <1>4, <1>6, <1>7, <1>8, <1>9, <1>10

\* What control_packet::serialize writes, deserialize reads: a packet of a known
\* type with strings that their 16-bit lengths can say comes back field by field.
THEOREM PacketReadsBack ==
    ASSUME NEW p \in Packets, ~Odd(p)
    PROVE  /\ p.first \in KnownTypes
           /\ Deserialize(Layouts[p.first], Body(p)).fields = p.fields
           /\ ~Deserialize(Layouts[p.first], Body(p)).throws
<1>1. PICK F \in Seq(Field) : F = p.fields
  BY PacketTypes
<1>2. p.first \in KnownTypes
  BY DEF Odd
<1>3. Layouts[p.first] = KindsOf(F)
  BY <1>1, <1>2, PacketsAssumption DEF KindsOf
<1>4. DOMAIN F = 1 .. Len(F)
  BY LenProperties
<1>5. \A i \in 1 .. Len(F) : Sayable(F[i])
  BY <1>1, <1>4 DEF Odd, Sayable
<1>6. RestIsLast(F)
  <2>1. /\ Len(KindsOf(F)) = Len(F)
        /\ \A i \in 1 .. Len(F) : KindsOf(F)[i] = F[i].kind
        /\ KindsOf(F) \in Seq(Kinds)
    BY BytesOfType
  <2>2. DOMAIN KindsOf(F) = 1 .. Len(F)
    BY <2>1, LenProperties
  <2>3. \A i \in DOMAIN KindsOf(F) : KindsOf(F)[i] = "rest" => i = Len(KindsOf(F))
    BY <1>2, <1>3, LayoutsAssumption
  <2>4. QED BY <2>1, <2>2, <2>3 DEF RestIsLast
<1>7. Body(p) = FlattenSeq(BytesOf(F))
  BY <1>1, PacketTypes
<1>8. /\ Deserialize(KindsOf(F), FlattenSeq(BytesOf(F))).fields = F
      /\ Deserialize(KindsOf(F), FlattenSeq(BytesOf(F))).throws = FALSE
  BY <1>5, <1>6, BodyReadsBack
<1>9. QED BY <1>1, <1>2, <1>3, <1>7, <1>8

-----------------------------------------------------------------------------
(* Packets one after the other *)

Encodings(ps) == [i \in DOMAIN ps |-> Encode(ps[i])]

\* Packets in bytes.
LEMMA EncodingsType ==
    ASSUME NEW ps \in Seq(Packets)
    PROVE  /\ Encodings(ps) \in Seq(Seq(Byte)) /\ Len(Encodings(ps)) = Len(ps) /\ Len(ps) \in Nat
           /\ \A i \in 1 .. Len(ps) : ps[i] \in Packets /\ Encodings(ps)[i] = Encode(ps[i])
           /\ EncodeAll(ps) = FlattenSeq(Encodings(ps))
           /\ EncodeAll(ps) \in Seq(Byte)
<1>1. PICK n \in Nat : n = Len(ps) /\ DOMAIN ps = 1 .. n
  BY LenProperties
<1>2. \A i \in 1 .. n : ps[i] \in Packets /\ Encode(ps[i]) \in Seq(Byte)
  BY <1>1, ElementOfSeq, PacketBytes
<1>3. Encodings(ps) = [i \in 1 .. n |-> Encode(ps[i])]
  BY <1>1 DEF Encodings
<1>4. Encodings(ps) \in [1 .. n -> Seq(Byte)]
  BY <1>2, <1>3
<1>5. Encodings(ps) \in Seq(Seq(Byte)) /\ Len(Encodings(ps)) = n
  BY <1>4, SeqDef, LenProperties
<1>6. EncodeAll(ps) = FlattenSeq(Encodings(ps))
  BY DEF EncodeAll, Encodings
<1>7. FlattenSeq(Encodings(ps)) \in Seq(Byte)
  BY <1>5, FlattenType
<1>8. QED BY <1>1, <1>2, <1>3, <1>5, <1>6, <1>7

\* One packet more.
LEMMA EncodeAppend ==
    ASSUME NEW ps \in Seq(Packets), NEW p \in Packets
    PROVE  EncodeAll(Append(ps, p)) = Cat(EncodeAll(ps), Encode(p))
<1>1. PICK qs : qs = Append(ps, p)
  OBVIOUS
<1>2. /\ qs \in Seq(Packets) /\ Len(qs) = Len(ps) + 1 /\ Len(ps) \in Nat /\ qs[Len(ps) + 1] = p
      /\ \A i \in 1 .. Len(ps) : qs[i] = ps[i]
  BY <1>1, AppendProperties, LenProperties
<1>3. PICK s, t, e : s = Encodings(ps) /\ t = Encodings(qs) /\ e = Encode(p)
  OBVIOUS
<1>4. /\ s \in Seq(Seq(Byte)) /\ Len(s) = Len(ps)
      /\ \A i \in 1 .. Len(ps) : s[i] = Encode(ps[i])
      /\ EncodeAll(ps) = FlattenSeq(s)
  BY <1>3, EncodingsType
<1>5. /\ t \in Seq(Seq(Byte)) /\ Len(t) = Len(qs)
      /\ \A i \in 1 .. Len(qs) : t[i] = Encode(qs[i])
      /\ EncodeAll(qs) = FlattenSeq(t)
  BY <1>2, <1>3, EncodingsType
<1>6. e \in Seq(Byte)
  BY <1>3, PacketBytes
<1>7. PICK u : u = Append(s, e)
  OBVIOUS
<1>8. /\ u \in Seq(Seq(Byte)) /\ Len(u) = Len(ps) + 1 /\ u[Len(ps) + 1] = e
      /\ \A i \in 1 .. Len(ps) : u[i] = s[i]
  <2>1. /\ u \in Seq(Seq(Byte)) /\ Len(u) = Len(s) + 1 /\ u[Len(s) + 1] = e
        /\ \A i \in 1 .. Len(s) : u[i] = s[i]
    BY ONLY <1>4, <1>6, <1>7, AppendProperties
  <2>2. QED BY <1>4, <2>1
<1>9. t = u
  <2>1. Len(t) = Len(u)
    BY <1>2, <1>5, <1>8
  <2>2. ASSUME NEW i \in 1 .. Len(t) PROVE t[i] = u[i]
    <3>1. CASE i \in 1 .. Len(ps)
      BY <1>2, <1>4, <1>5, <1>8, <2>2, <3>1
    <3>2. CASE i = Len(ps) + 1
      BY <1>2, <1>3, <1>5, <1>8, <2>2, <3>2
    <3>3. QED BY <1>2, <1>5, <3>1, <3>2
  <2>3. QED BY <1>5, <1>8, <2>1, <2>2, SeqEqual
<1>10. FlattenSeq(u) = Cat(FlattenSeq(s), e)
  BY <1>4, <1>6, <1>7, FlattenAppend
<1>11. QED BY <1>1, <1>3, <1>4, <1>5, <1>9, <1>10

\* No packets, no bytes.
LEMMA EncodeNothing == EncodeAll(<<>>) = <<>>
<1>1. <<>> \in Seq(Packets) /\ Len(<<>>) = 0
  OBVIOUS
<1>2. Encodings(<<>>) \in Seq(Seq(Byte)) /\ Len(Encodings(<<>>)) = 0 /\ EncodeAll(<<>>) = FlattenSeq(Encodings(<<>>))
  BY <1>1, EncodingsType
<1>3. Encodings(<<>>) = <<>>
  BY <1>2, EmptySeq
<1>4. QED BY <1>2, <1>3, FlattenNothing

\* The first packets, and the one that follows them.
LEMMA EncodePrefix ==
    ASSUME NEW ps \in Seq(Packets), NEW k \in Nat, k < Len(ps)
    PROVE  /\ SubSeq(ps, 1, k) \in Seq(Packets) /\ SubSeq(ps, 1, k + 1) \in Seq(Packets)
           /\ ps[k + 1] \in Packets
           /\ EncodeAll(SubSeq(ps, 1, k + 1)) = Cat(EncodeAll(SubSeq(ps, 1, k)), Encode(ps[k + 1]))
           /\ \E y \in Seq(Byte) :
                EncodeAll(ps) = Cat(EncodeAll(SubSeq(ps, 1, k)), Cat(Encode(ps[k + 1]), y))
<1>1. PICK m \in Nat : m = k + 1
  OBVIOUS
<1>2. Len(ps) \in Nat /\ m \in 1 .. Len(ps)
  BY <1>1, LenProperties
<1>3. \A n \in Nat : n <= Len(ps) =>
        /\ SubSeq(ps, 1, n) \in Seq(Packets) /\ Len(SubSeq(ps, 1, n)) = n
        /\ \A i \in 1 .. n : SubSeq(ps, 1, n)[i] = ps[i]
  <2>1. SUFFICES ASSUME NEW n \in Nat, n <= Len(ps)
                 PROVE  /\ SubSeq(ps, 1, n) \in Seq(Packets) /\ Len(SubSeq(ps, 1, n)) = n
                        /\ \A i \in 1 .. n : SubSeq(ps, 1, n)[i] = ps[i]
    OBVIOUS
  <2>2. \A i \in 1 .. n : ps[i] \in Packets
    BY <1>2, <2>1, ElementOfSeq
  <2>3. QED BY <1>2, <2>1, <2>2, SubSeqProperties
<1>4. ps[m] \in Packets
  BY <1>2, ElementOfSeq
<1>5. SubSeq(ps, 1, m) = Append(SubSeq(ps, 1, k), ps[m])
  BY <1>1, <1>2, SubSeqRecursiveSecond
<1>6. SubSeq(ps, 1, k) \in Seq(Packets) /\ SubSeq(ps, 1, m) \in Seq(Packets)
  BY <1>2, <1>3
<1>7. EncodeAll(SubSeq(ps, 1, m)) = Cat(EncodeAll(SubSeq(ps, 1, k)), Encode(ps[m]))
  BY <1>4, <1>5, <1>6, EncodeAppend
<1>8. PICK s : s = Encodings(ps)
  OBVIOUS
<1>9. /\ s \in Seq(Seq(Byte)) /\ Len(s) = Len(ps)
      /\ \A i \in 1 .. Len(ps) : s[i] = Encode(ps[i])
      /\ EncodeAll(ps) = FlattenSeq(s)
  BY <1>8, EncodingsType
<1>10. EncodeAll(SubSeq(ps, 1, k)) = FlattenSeq(SubSeq(s, 1, k))
  <2>1. PICK qs : qs = SubSeq(ps, 1, k)
    OBVIOUS
  <2>2. qs \in Seq(Packets) /\ Len(qs) = k /\ \A i \in 1 .. k : qs[i] = ps[i]
    BY <1>2, <1>3, <2>1
  <2>3. PICK t : t = Encodings(qs)
    OBVIOUS
  <2>4. /\ t \in Seq(Seq(Byte)) /\ Len(t) = k
        /\ \A i \in 1 .. k : t[i] = Encode(qs[i])
        /\ EncodeAll(qs) = FlattenSeq(t)
    BY <2>2, <2>3, EncodingsType
  <2>5. PICK u : u = SubSeq(s, 1, k)
    OBVIOUS
  <2>6. u \in Seq(Seq(Byte)) /\ Len(u) = k /\ \A i \in 1 .. k : u[i] = s[i]
    <3>1. \A i \in 1 .. k : s[i] \in Seq(Byte)
      BY <1>2, <1>9, ElementOfSeq
    <3>2. QED BY <1>2, <1>9, <2>5, <3>1, SubSeqProperties
  <2>7. ASSUME NEW i \in 1 .. k PROVE t[i] = u[i]
    <3>1. i \in 1 .. Len(ps)
      BY <1>2
    <3>2. t[i] = Encode(ps[i])
      BY <2>2, <2>4
    <3>3. u[i] = Encode(ps[i])
      BY <1>9, <2>6, <3>1
    <3>4. QED BY <3>2, <3>3
  <2>8. t = u
    BY <2>4, <2>6, <2>7, SeqEqual
  <2>9. QED BY <2>1, <2>4, <2>5, <2>8
<1>11. PICK y \in Seq(Byte) : FlattenSeq(s) = Cat(FlattenSeq(SubSeq(s, 1, k)), Cat(s[k + 1], y))
  BY <1>2, <1>9, FlattenSplit
<1>12. EncodeAll(ps) = Cat(EncodeAll(SubSeq(ps, 1, k)), Cat(Encode(ps[m]), y))
  BY <1>1, <1>2, <1>9, <1>10, <1>11
<1>13. QED BY <1>1, <1>4, <1>6, <1>7, <1>12
-----------------------------------------------------------------------------
(* Calls of write_some, and what a writer has left *)

Call == [writer : Nat \ {0}, bytes : Seq(Byte)]

\* The calls under way or to be made, and that no writer has two.
CallSet(ws, rs) == {ws[i] : i \in 1 .. Len(ws)} \union {rs[j] : j \in 1 .. Len(rs)}

Distinct(ws, rs) ==
    /\ \A i, j \in 1 .. Len(ws) : ws[i].writer = ws[j].writer => i = j
    /\ \A i, j \in 1 .. Len(rs) : rs[i].writer = rs[j].writer => i = j
    /\ \A i \in 1 .. Len(ws), j \in 1 .. Len(rs) : ws[i].writer # rs[j].writer

\* What a writer has in some calls.
PartsOf(cs, w) == [i \in DOMAIN cs |-> IF cs[i].writer = w THEN cs[i].bytes ELSE <<>>]

LeftOf(ws, rs, w) == Cat(FlattenSeq(PartsOf(ws, w)), FlattenSeq(PartsOf(rs, w)))

\* What the calls in a queue carry for one writer.
LEMMA PartsType ==
    ASSUME NEW cs \in Seq(Call), NEW w
    PROVE  /\ PartsOf(cs, w) \in Seq(Seq(Byte)) /\ Len(PartsOf(cs, w)) = Len(cs) /\ Len(cs) \in Nat
           /\ \A i \in 1 .. Len(cs) :
                /\ cs[i] \in Call
                /\ PartsOf(cs, w)[i] = IF cs[i].writer = w THEN cs[i].bytes ELSE <<>>
           /\ FlattenSeq(PartsOf(cs, w)) \in Seq(Byte)
<1>1. PICK n \in Nat : n = Len(cs) /\ DOMAIN cs = 1 .. n
  BY LenProperties
<1>2. \A i \in 1 .. n : cs[i] \in Call
  BY <1>1, ElementOfSeq
<1>3. \A i \in 1 .. n : cs[i].bytes \in Seq(Byte)
  BY <1>2 DEF Call
<1>4. <<>> \in Seq(Byte)
  BY EmptySeq
<1>5. PartsOf(cs, w) = [i \in 1 .. n |-> IF cs[i].writer = w THEN cs[i].bytes ELSE <<>>]
  BY <1>1 DEF PartsOf
<1>6. PartsOf(cs, w) \in [1 .. n -> Seq(Byte)]
  BY <1>3, <1>4, <1>5
<1>7. PartsOf(cs, w) \in Seq(Seq(Byte)) /\ Len(PartsOf(cs, w)) = n
  BY <1>6, SeqDef, LenProperties
<1>8. FlattenSeq(PartsOf(cs, w)) \in Seq(Byte)
  BY <1>7, FlattenType
<1>9. QED BY <1>1, <1>2, <1>5, <1>7, <1>8

\* Nothing, if none is its.
LEMMA PartsNone ==
    ASSUME NEW cs \in Seq(Call), NEW w, \A i \in 1 .. Len(cs) : cs[i].writer # w
    PROVE  FlattenSeq(PartsOf(cs, w)) = <<>>
<1>1. PICK s : s = PartsOf(cs, w)
  OBVIOUS
<1>2. /\ s \in Seq(Seq(Byte)) /\ Len(s) \in Nat /\ \A i \in 1 .. Len(s) : s[i] = <<>>
  <2>1. /\ s \in Seq(Seq(Byte)) /\ Len(s) = Len(cs) /\ Len(cs) \in Nat
        /\ \A i \in 1 .. Len(cs) : s[i] = IF cs[i].writer = w THEN cs[i].bytes ELSE <<>>
    BY <1>1, PartsType
  <2>2. QED BY <2>1
<1>3. FlattenSeq(SubSeq(s, 1, Len(s))) = <<>>
  BY <1>2, FlattenSilent
<1>4. SubSeq(s, 1, Len(s)) = s
  BY <1>2, SubSeqFull
<1>5. QED BY <1>1, <1>3, <1>4

\* The bytes of the one that is its.
LEMMA PartsOne ==
    ASSUME NEW cs \in Seq(Call), NEW i \in 1 .. Len(cs),
           \A j \in 1 .. Len(cs) : cs[j].writer = cs[i].writer => i = j
    PROVE  FlattenSeq(PartsOf(cs, cs[i].writer)) = cs[i].bytes
<1>1. PICK s : s = PartsOf(cs, cs[i].writer)
  OBVIOUS
<1>2. s \in Seq(Seq(Byte)) /\ Len(s) = Len(cs) /\ s[i] = cs[i].bytes
  BY <1>1, PartsType
<1>3. \A j \in 1 .. Len(s) : j # i => s[j] = <<>>
  BY <1>1, PartsType
<1>4. FlattenSeq(s) = s[i]
  BY <1>2, <1>3, FlattenSingle
<1>5. QED BY <1>1, <1>2, <1>4

\* A writer without a call has nothing left.
LEMMA LeftNone ==
    ASSUME NEW ws \in Seq(Call), NEW rs \in Seq(Call), NEW w,
           \A c \in CallSet(ws, rs) : c.writer # w
    PROVE  LeftOf(ws, rs, w) = <<>>
<1>1. \A i \in 1 .. Len(ws) : ws[i].writer # w
  BY DEF CallSet
<1>2. \A i \in 1 .. Len(rs) : rs[i].writer # w
  BY DEF CallSet
<1>3. FlattenSeq(PartsOf(ws, w)) = <<>> /\ FlattenSeq(PartsOf(rs, w)) = <<>>
  BY <1>1, <1>2, PartsNone
<1>4. <<>> \in Seq(Byte)
  BY EmptySeq
<1>5. Cat(<<>>, <<>>) = <<>>
  BY <1>4, CatEmpty
<1>6. QED BY <1>3, <1>5 DEF LeftOf

\* A writer with a call has the bytes of the call left.
LEMMA LeftOne ==
    ASSUME NEW ws \in Seq(Call), NEW rs \in Seq(Call), Distinct(ws, rs),
           NEW c \in CallSet(ws, rs)
    PROVE  LeftOf(ws, rs, c.writer) = c.bytes /\ c \in Call
<1>1. CASE \E i \in 1 .. Len(ws) : c = ws[i]
  <2>1. PICK i \in 1 .. Len(ws) : c = ws[i]
    BY <1>1
  <2>2. \A j \in 1 .. Len(ws) : ws[j].writer = ws[i].writer => i = j
    BY DEF Distinct
  <2>3. FlattenSeq(PartsOf(ws, c.writer)) = c.bytes
    BY <2>1, <2>2, PartsOne
  <2>4. \A j \in 1 .. Len(rs) : rs[j].writer # c.writer
    BY <2>1 DEF Distinct
  <2>5. FlattenSeq(PartsOf(rs, c.writer)) = <<>>
    BY <2>4, PartsNone
  <2>6. c \in Call /\ c.bytes \in Seq(Byte)
    <3>1. c \in Call
      BY <2>1, PartsType
    <3>2. QED BY <3>1 DEF Call
  <2>7. Cat(c.bytes, <<>>) = c.bytes
    BY <2>6, CatEmpty
  <2>8. QED BY <2>3, <2>5, <2>6, <2>7 DEF LeftOf
<1>2. CASE \E i \in 1 .. Len(rs) : c = rs[i]
  <2>1. PICK i \in 1 .. Len(rs) : c = rs[i]
    BY <1>2
  <2>2. \A j \in 1 .. Len(rs) : rs[j].writer = rs[i].writer => i = j
    BY DEF Distinct
  <2>3. FlattenSeq(PartsOf(rs, c.writer)) = c.bytes
    BY <2>1, <2>2, PartsOne
  <2>4. \A j \in 1 .. Len(ws) : ws[j].writer # c.writer
    BY <2>1 DEF Distinct
  <2>5. FlattenSeq(PartsOf(ws, c.writer)) = <<>>
    BY <2>4, PartsNone
  <2>6. c \in Call /\ c.bytes \in Seq(Byte)
    <3>1. c \in Call
      BY <2>1, PartsType
    <3>2. QED BY <3>1 DEF Call
  <2>7. Cat(<<>>, c.bytes) = c.bytes
    BY <2>6, CatEmpty
  <2>8. QED BY <2>3, <2>5, <2>6, <2>7 DEF LeftOf
<1>3. QED BY <1>1, <1>2 DEF CallSet

\* What a writer has left are bytes.
LEMMA LeftType ==
    ASSUME NEW ws \in Seq(Call), NEW rs \in Seq(Call), NEW w
    PROVE  LeftOf(ws, rs, w) \in Seq(Byte)
<1>1. FlattenSeq(PartsOf(ws, w)) \in Seq(Byte) /\ FlattenSeq(PartsOf(rs, w)) \in Seq(Byte)
  BY PartsType
<1>2. QED BY <1>1, CatType DEF LeftOf

\* With the same call of a writer, or with none, the writer has the same left.
LEMMA LeftSame ==
    ASSUME NEW ws \in Seq(Call), NEW rs \in Seq(Call), Distinct(ws, rs),
           NEW vs \in Seq(Call), NEW qs \in Seq(Call), Distinct(vs, qs), NEW w,
           \A c \in CallSet(ws, rs) : c.writer = w => c \in CallSet(vs, qs),
           \A c \in CallSet(vs, qs) : c.writer = w => c \in CallSet(ws, rs)
    PROVE  LeftOf(ws, rs, w) = LeftOf(vs, qs, w)
<1>1. CASE \E c \in CallSet(ws, rs) : c.writer = w
  <2>1. PICK c \in CallSet(ws, rs) : c.writer = w
    BY <1>1
  <2>2. c \in CallSet(vs, qs)
    BY <2>1
  <2>3. LeftOf(ws, rs, c.writer) = c.bytes
    BY LeftOne
  <2>4. LeftOf(vs, qs, c.writer) = c.bytes
    BY <2>2, LeftOne
  <2>5. QED BY <2>1, <2>3, <2>4
<1>2. CASE \A c \in CallSet(ws, rs) : c.writer # w
  <2>1. \A c \in CallSet(vs, qs) : c.writer # w
    BY <1>2
  <2>2. LeftOf(ws, rs, w) = <<>>
    BY <1>2, LeftNone
  <2>3. LeftOf(vs, qs, w) = <<>>
    BY <2>1, LeftNone
  <2>4. QED BY <2>2, <2>3
<1>3. QED BY <1>1, <1>2

\* What all the writers have left.
LeftsOf(ws, rs, n) == [w \in 1 .. n |-> LeftOf(ws, rs, w)]
UnwrittenOf(ws, rs, n) == FlattenSeq(LeftsOf(ws, rs, n))

\* And what all writers have left.
LEMMA LeftsType ==
    ASSUME NEW ws \in Seq(Call), NEW rs \in Seq(Call), NEW n \in Nat
    PROVE  /\ LeftsOf(ws, rs, n) \in Seq(Seq(Byte)) /\ Len(LeftsOf(ws, rs, n)) = n
           /\ \A w \in 1 .. n : LeftsOf(ws, rs, n)[w] = LeftOf(ws, rs, w)
           /\ UnwrittenOf(ws, rs, n) \in Seq(Byte)
<1>1. \A w \in 1 .. n : LeftOf(ws, rs, w) \in Seq(Byte)
  BY LeftType
<1>2. LeftsOf(ws, rs, n) \in [1 .. n -> Seq(Byte)]
  BY <1>1 DEF LeftsOf
<1>3. LeftsOf(ws, rs, n) \in Seq(Seq(Byte)) /\ Len(LeftsOf(ws, rs, n)) = n
  BY <1>2, SeqDef, LenProperties
<1>4. UnwrittenOf(ws, rs, n) \in Seq(Byte)
  BY <1>3, FlattenType DEF UnwrittenOf
<1>5. QED BY <1>3, <1>4 DEF LeftsOf

\* The order of the calls does not change what is unwritten.
LEMMA UnwrittenSame ==
    ASSUME NEW ws \in Seq(Call), NEW rs \in Seq(Call), Distinct(ws, rs),
           NEW vs \in Seq(Call), NEW qs \in Seq(Call), Distinct(vs, qs), NEW n \in Nat,
           CallSet(ws, rs) = CallSet(vs, qs)
    PROVE  UnwrittenOf(ws, rs, n) = UnwrittenOf(vs, qs, n)
<1>1. \A w \in 1 .. n : LeftOf(ws, rs, w) = LeftOf(vs, qs, w)
  BY LeftSame
<1>2. LeftsOf(ws, rs, n) = LeftsOf(vs, qs, n)
  BY <1>1 DEF LeftsOf
<1>3. QED BY <1>2 DEF UnwrittenOf

\* Without calls nothing is.
LEMMA UnwrittenNothing ==
    ASSUME NEW n \in Nat
    PROVE  UnwrittenOf(<<>>, <<>>, n) = <<>>
<1>1. PICK e \in Seq(Call) : e = <<>>
  BY EmptySeq
<1>2. PICK s : s = LeftsOf(e, e, n)
  OBVIOUS
<1>3. Len(e) = 0
  BY <1>1
<1>4. CallSet(e, e) = {}
  BY <1>3 DEF CallSet
<1>5. \A w \in 1 .. n : LeftOf(e, e, w) = <<>>
  BY <1>4, LeftNone
<1>6. /\ s \in Seq(Seq(Byte)) /\ Len(s) = n /\ \A w \in 1 .. n : s[w] = <<>>
  BY <1>2, <1>5, LeftsType
<1>7. FlattenSeq(SubSeq(s, 1, n)) = <<>>
  BY <1>6, FlattenSilent
<1>8. SubSeq(s, 1, n) = s
  BY <1>6, SubSeqFull
<1>9. QED BY <1>1, <1>2, <1>7, <1>8 DEF UnwrittenOf

\* A writer more, the last one.
LEMMA UnwrittenMore ==
    ASSUME NEW ws \in Seq(Call), NEW rs \in Seq(Call), Distinct(ws, rs),
           NEW vs \in Seq(Call), Distinct(vs, rs), NEW n \in Nat,
           NEW c \in Call, c.writer = n + 1,
           \A d \in CallSet(ws, rs) : d.writer <= n,
           CallSet(vs, rs) = CallSet(ws, rs) \union {c}
    PROVE  UnwrittenOf(vs, rs, n + 1) = Cat(UnwrittenOf(ws, rs, n), c.bytes)
<1>1. PICK m \in Nat : m = n + 1
  OBVIOUS
<1>2. PICK s, t, u : s = LeftsOf(ws, rs, n) /\ t = LeftsOf(vs, rs, m) /\ u = Append(s, c.bytes)
  OBVIOUS
<1>3. /\ s \in Seq(Seq(Byte)) /\ Len(s) = n
      /\ \A w \in 1 .. n : s[w] = LeftOf(ws, rs, w)
  BY <1>2, LeftsType
<1>4. /\ t \in Seq(Seq(Byte)) /\ Len(t) = m
      /\ \A w \in 1 .. m : t[w] = LeftOf(vs, rs, w)
  BY <1>2, LeftsType
<1>5. c.bytes \in Seq(Byte)
  BY DEF Call
<1>6. /\ u \in Seq(Seq(Byte)) /\ Len(u) = Len(s) + 1 /\ u[Len(s) + 1] = c.bytes
      /\ \A w \in 1 .. Len(s) : u[w] = s[w]
  BY ONLY <1>2, <1>3, <1>5, AppendProperties
<1>7. ASSUME NEW w \in 1 .. m PROVE t[w] = u[w]
  <2>1. CASE w = m
    <3>1. LeftOf(vs, rs, c.writer) = c.bytes
      BY LeftOne
    <3>2. QED BY <1>1, <1>3, <1>4, <1>6, <2>1, <3>1
  <2>2. CASE w # m
    <3>1. w \in 1 .. n /\ c.writer # w
      BY <1>1, <2>2
    <3>2. LeftOf(ws, rs, w) = LeftOf(vs, rs, w)
      BY <3>1, LeftSame
    <3>3. QED BY <1>3, <1>4, <1>6, <3>1, <3>2
  <2>3. QED BY <2>1, <2>2
<1>8. t = u
  BY <1>1, <1>3, <1>4, <1>6, <1>7, SeqEqual
<1>9. FlattenSeq(u) = Cat(FlattenSeq(s), c.bytes)
  BY <1>2, <1>3, <1>5, FlattenAppend
<1>10. QED BY <1>1, <1>2, <1>8, <1>9 DEF UnwrittenOf

\* One writer has less left, the ones before it have nothing.
NextOf(ws, rs, vs, qs, n, c) ==
    /\ ws \in Seq(Call) /\ rs \in Seq(Call) /\ Distinct(ws, rs)
    /\ vs \in Seq(Call) /\ qs \in Seq(Call) /\ Distinct(vs, qs) /\ n \in Nat
    /\ c \in CallSet(ws, rs) /\ c.writer <= n
    /\ \A d \in CallSet(ws, rs) : d.writer # c.writer => d \in CallSet(vs, qs)
    /\ \A d \in CallSet(vs, qs) : d.writer # c.writer => d \in CallSet(ws, rs)
    /\ \A w \in 1 .. n : w < c.writer => LeftOf(ws, rs, w) = <<>>

\* The bytes of the oldest call are the first of what is unwritten.
LEMMA UnwrittenNext ==
    ASSUME NEW ws, NEW rs, NEW vs, NEW qs, NEW n, NEW c, NextOf(ws, rs, vs, qs, n, c)
    PROVE  \E y \in Seq(Byte) :
             /\ UnwrittenOf(ws, rs, n) = Cat(c.bytes, y)
             /\ UnwrittenOf(vs, qs, n) = Cat(LeftOf(vs, qs, c.writer), y)
<1>0. /\ ws \in Seq(Call) /\ rs \in Seq(Call) /\ Distinct(ws, rs)
      /\ vs \in Seq(Call) /\ qs \in Seq(Call) /\ Distinct(vs, qs) /\ n \in Nat
  BY DEF NextOf
<1>1. c \in Call /\ LeftOf(ws, rs, c.writer) = c.bytes
  <2>1. c \in CallSet(ws, rs)
    BY DEF NextOf
  <2>2. QED BY ONLY <1>0, <2>1, LeftOne
<1>2. PICK i \in 1 .. n : i = c.writer
  BY <1>1 DEF NextOf, Call
<1>3. PICK s, t : s = LeftsOf(ws, rs, n) /\ t = LeftsOf(vs, qs, n)
  OBVIOUS
<1>4. /\ s \in Seq(Seq(Byte)) /\ Len(s) = n
      /\ \A w \in 1 .. n : s[w] = LeftOf(ws, rs, w)
  BY <1>0, <1>3, LeftsType
<1>5. /\ t \in Seq(Seq(Byte)) /\ Len(t) = n
      /\ \A w \in 1 .. n : t[w] = LeftOf(vs, qs, w)
  BY <1>0, <1>3, LeftsType
<1>6. SilentBefore(s, i)
  BY <1>2, <1>4 DEF NextOf, SilentBefore
<1>7. AlikeBut(s, t, i)
  <2>1. SUFFICES ASSUME NEW w \in 1 .. n, w # i PROVE t[w] = s[w]
    BY <1>4 DEF AlikeBut
  <2>2. /\ \A d \in CallSet(ws, rs) : d.writer = w => d \in CallSet(vs, qs)
        /\ \A d \in CallSet(vs, qs) : d.writer = w => d \in CallSet(ws, rs)
    BY <1>2, <2>1 DEF NextOf
  <2>3. LeftOf(ws, rs, w) = LeftOf(vs, qs, w)
    BY <1>0, <2>2, LeftSame
  <2>4. QED BY <1>4, <1>5, <2>3
<1>8. PICK y \in Seq(Byte) : FlattenSeq(s) = Cat(s[i], y) /\ FlattenSeq(t) = Cat(t[i], y)
  <2>1. s \in Seq(Seq(Byte)) /\ t \in Seq(Seq(Byte)) /\ Len(s) = Len(t) /\ i \in 1 .. Len(s)
    BY <1>4, <1>5
  <2>2. TwoOf(Byte, s, t, i)
    BY <1>6, <1>7, <2>1 DEF TwoOf
  <2>3. QED BY ONLY <2>2, FlattenTwoOf
<1>9. s[i] = c.bytes /\ t[i] = LeftOf(vs, qs, c.writer)
  BY <1>1, <1>2, <1>4, <1>5
<1>10. QED BY <1>3, <1>8, <1>9 DEF UnwrittenOf
-----------------------------------------------------------------------------
(* The order of the calls *)

\* A call of which nothing was written yet, and one of which something was.
Fresh(c, ps) == c.bytes = Encode(ps[c.writer])
Started(c, ps) == Len(c.bytes) < Len(Encode(ps[c.writer]))
Valid(c, ps) == c.writer <= Len(ps) /\ c.bytes # <<>>

\* The packets of which nothing was written are the last ones, in their order.
InOrder(ws, ps) ==
    \A i, j \in 1 .. Len(ws) :
        Fresh(ws[i], ps) /\ (j < i \/ ~Fresh(ws[j], ps)) => ws[j].writer < ws[i].writer
BehindFresh(ws, rs, ps) ==
    \A i \in 1 .. Len(ws), j \in 1 .. Len(rs) :
        Fresh(ws[i], ps) => rs[j].writer < ws[i].writer

CallsInv(ws, rs, ps) ==
    /\ ws \in Seq(Call) /\ rs \in Seq(Call) /\ ps \in Seq(Packets)
    /\ \A i \in 1 .. Len(ws) : Valid(ws[i], ps) /\ (Fresh(ws[i], ps) \/ Started(ws[i], ps))
    /\ \A j \in 1 .. Len(rs) : Valid(rs[j], ps) /\ Started(rs[j], ps)
    /\ Distinct(ws, rs) /\ InOrder(ws, ps) /\ BehindFresh(ws, rs, ps)

\* No calls are in order.
LEMMA NothingCalled ==
    ASSUME NEW ps \in Seq(Packets)
    PROVE  CallsInv(<<>>, <<>>, ps)
<1>1. PICK e \in Seq(Call) : e = <<>>
  BY EmptySeq
<1>2. Len(e) = 0
  BY <1>1
<1>3. CallsInv(e, e, ps)
  BY <1>2 DEF CallsInv, Distinct, InOrder, BehindFresh
<1>4. QED BY <1>1, <1>3

\* What is appended, and what is left without the first.
LEMMA OneMore ==
    ASSUME NEW S, NEW s \in Seq(S), NEW x \in S
    PROVE  /\ Append(s, x) \in Seq(S) /\ Len(s) \in Nat /\ Len(Append(s, x)) = Len(s) + 1
           /\ Append(s, x)[Len(s) + 1] = x
           /\ \A i \in 1 .. Len(s) : Append(s, x)[i] = s[i] /\ s[i] \in S
BY AppendProperties, LenProperties, ElementOfSeq

\* A queue without its first entry.
LEMMA OneLess ==
    ASSUME NEW S, NEW s \in Seq(S), s # <<>>
    PROVE  /\ Tail(s) \in Seq(S) /\ Len(s) \in Nat /\ Len(s) >= 1 /\ Len(Tail(s)) = Len(s) - 1
           /\ Head(s) = s[1] /\ s[1] \in S /\ 1 \in 1 .. Len(s)
           /\ \A i \in 1 .. Len(Tail(s)) : Tail(s)[i] = s[i + 1] /\ i + 1 \in 1 .. Len(s)
           /\ \A i \in 1 .. Len(s) : i # 1 => i - 1 \in 1 .. Len(Tail(s)) /\ s[i] = Tail(s)[i - 1]
<1>1. Len(s) \in Nat /\ Len(s) >= 1 /\ s[1] \in S /\ 1 \in 1 .. Len(s)
  BY EmptySeq, LenProperties, ElementOfSeq
<1>2. /\ Tail(s) \in Seq(S) /\ Len(Tail(s)) = Len(s) - 1
      /\ \A i \in 1 .. Len(Tail(s)) : Tail(s)[i] = s[i + 1]
  BY <1>1, HeadTailProperties
<1>3. Head(s) = s[1]
  BY <1>1
<1>4. PICK t : t = Tail(s)
  OBVIOUS
<1>5. \A i \in 1 .. Len(t) : t[i] = s[i + 1] /\ i + 1 \in 1 .. Len(s)
  BY <1>1, <1>2, <1>4
<1>6. ASSUME NEW i \in 1 .. Len(s), i # 1 PROVE i - 1 \in 1 .. Len(t) /\ s[i] = t[i - 1]
  <2>1. PICK j \in Nat : i = j + 1
    BY <1>6, i - 1 \in Nat
  <2>2. j \in 1 .. Len(t) /\ i - 1 = j
    BY <1>1, <1>2, <1>4, <1>6, <2>1
  <2>3. QED BY <1>5, <2>1, <2>2
<1>7. QED BY <1>1, <1>2, <1>3, <1>4, <1>5, <1>6

\* A new writer.
LEMMA CallStarts ==
    ASSUME NEW ws, NEW rs, NEW ps, CallsInv(ws, rs, ps), NEW p \in Packets,
           NEW c, c = [writer |-> Len(ps) + 1, bytes |-> Encode(p)]
    PROVE  /\ CallsInv(Append(ws, c), rs, Append(ps, p))
           /\ CallSet(Append(ws, c), rs) = CallSet(ws, rs) \union {c}
           /\ c \in Call /\ c.writer = Len(ps) + 1 /\ c.bytes = Encode(p)
           /\ \A d \in CallSet(ws, rs) : d.writer <= Len(ps)
<1>1. PICK vs, qs : vs = Append(ws, c) /\ qs = Append(ps, p)
  OBVIOUS
<1>2. ws \in Seq(Call) /\ rs \in Seq(Call) /\ ps \in Seq(Packets)
  BY DEF CallsInv
<1>3. Len(ps) \in Nat /\ Len(ps) + 1 \in Nat \ {0} /\ Encode(p) \in Seq(Byte) /\ Encode(p) # <<>>
  <2>1. Len(ps) \in Nat
    BY <1>2, LenProperties
  <2>2. Encode(p) \in Seq(Byte) /\ Encode(p) # <<>>
    BY PacketBytes
  <2>3. QED BY <2>1, <2>2
<1>4. c \in Call /\ c.writer = Len(ps) + 1 /\ c.bytes = Encode(p)
  BY <1>3 DEF Call
<1>5. /\ qs \in Seq(Packets) /\ Len(qs) = Len(ps) + 1 /\ qs[Len(ps) + 1] = p
      /\ \A i \in 1 .. Len(ps) : qs[i] = ps[i]
  BY <1>1, <1>2, OneMore
<1>6. PICK n \in Nat : n = Len(ws)
  BY <1>2, LenProperties
<1>7. /\ vs \in Seq(Call) /\ Len(vs) = n + 1 /\ vs[n + 1] = c
      /\ \A i \in 1 .. n : vs[i] = ws[i] /\ ws[i] \in Call
  BY <1>1, <1>2, <1>4, <1>6, OneMore
<1>8. \A i \in 1 .. Len(rs) : rs[i] \in Call
  BY <1>2, ElementOfSeq
<1>9. \A i \in 1 .. n : /\ Valid(ws[i], ps) /\ (Fresh(ws[i], ps) \/ Started(ws[i], ps))
                        /\ ws[i].writer \in 1 .. Len(ps)
  <2>1. SUFFICES ASSUME NEW i \in 1 .. n
                 PROVE  /\ Valid(ws[i], ps) /\ (Fresh(ws[i], ps) \/ Started(ws[i], ps))
                        /\ ws[i].writer \in 1 .. Len(ps)
    OBVIOUS
  <2>2. Valid(ws[i], ps) /\ (Fresh(ws[i], ps) \/ Started(ws[i], ps))
    BY <1>6 DEF CallsInv
  <2>3. ws[i].writer \in Nat \ {0}
    BY <1>7 DEF Call
  <2>4. QED BY <1>3, <2>2, <2>3 DEF Valid
<1>10. \A i \in 1 .. Len(rs) : /\ Valid(rs[i], ps) /\ Started(rs[i], ps)
                               /\ rs[i].writer \in 1 .. Len(ps)
  <2>1. SUFFICES ASSUME NEW i \in 1 .. Len(rs)
                 PROVE  /\ Valid(rs[i], ps) /\ Started(rs[i], ps)
                        /\ rs[i].writer \in 1 .. Len(ps)
    OBVIOUS
  <2>2. Valid(rs[i], ps) /\ Started(rs[i], ps)
    BY DEF CallsInv
  <2>3. rs[i].writer \in Nat \ {0}
    BY <1>8 DEF Call
  <2>4. QED BY <1>3, <2>2, <2>3 DEF Valid
<1>11. ASSUME NEW d, d.writer \in 1 .. Len(ps)
       PROVE  /\ Valid(d, ps) => Valid(d, qs)
              /\ Fresh(d, qs) <=> Fresh(d, ps)
              /\ Started(d, ps) => Started(d, qs)
  <2>1. qs[d.writer] = ps[d.writer]
    BY <1>5, <1>11
  <2>2. d.writer <= Len(qs)
    BY <1>3, <1>5, <1>11
  <2>3. QED BY <2>1, <2>2 DEF Valid, Fresh, Started
<1>12. Fresh(c, qs) /\ Valid(c, qs)
  BY <1>3, <1>4, <1>5 DEF Fresh, Valid
<1>13. ASSUME NEW i \in 1 .. Len(vs)
       PROVE  Valid(vs[i], qs) /\ (Fresh(vs[i], qs) \/ Started(vs[i], qs))
  <2>1. CASE i \in 1 .. n
    BY <1>7, <1>9, <1>11, <2>1
  <2>2. CASE i = n + 1
    BY <1>7, <1>12, <2>2
  <2>3. QED BY <1>7, <2>1, <2>2
<1>14. \A j \in 1 .. Len(rs) : Valid(rs[j], qs) /\ Started(rs[j], qs)
  BY <1>10, <1>11
<1>15. Distinct(vs, rs)
  <2>1. ASSUME NEW i \in 1 .. Len(vs), NEW j \in 1 .. Len(vs), vs[i].writer = vs[j].writer
        PROVE  i = j
    <3>1. CASE i \in 1 .. n /\ j \in 1 .. n
      BY <1>6, <1>7, <2>1, <3>1 DEF CallsInv, Distinct
    <3>2. CASE i = n + 1 /\ j \in 1 .. n
      BY <1>3, <1>4, <1>7, <1>9, <2>1, <3>2
    <3>3. CASE i \in 1 .. n /\ j = n + 1
      BY <1>3, <1>4, <1>7, <1>9, <2>1, <3>3
    <3>4. QED BY <1>7, <3>1, <3>2, <3>3
  <2>2. ASSUME NEW i \in 1 .. Len(vs), NEW j \in 1 .. Len(rs)
        PROVE  vs[i].writer # rs[j].writer
    <3>1. CASE i \in 1 .. n
      BY <1>6, <1>7, <3>1 DEF CallsInv, Distinct
    <3>2. CASE i = n + 1
      BY <1>3, <1>4, <1>7, <1>10, <3>2
    <3>3. QED BY <1>7, <3>1, <3>2
  <2>3. \A i, j \in 1 .. Len(rs) : rs[i].writer = rs[j].writer => i = j
    BY DEF CallsInv, Distinct
  <2>4. QED BY <2>1, <2>2, <2>3 DEF Distinct
<1>16. InOrder(vs, qs)
  <2>1. SUFFICES ASSUME NEW i \in 1 .. Len(vs), NEW j \in 1 .. Len(vs), Fresh(vs[i], qs),
                        j < i \/ ~Fresh(vs[j], qs)
                 PROVE  vs[j].writer < vs[i].writer
    BY DEF InOrder
  <2>2. CASE i \in 1 .. n /\ j \in 1 .. n
    <3>1. Fresh(ws[i], ps) /\ (j < i \/ ~Fresh(ws[j], ps))
      BY <1>7, <1>9, <1>11, <2>1, <2>2
    <3>2. ws[j].writer < ws[i].writer
      BY <1>6, <2>2, <3>1 DEF CallsInv, InOrder
    <3>3. QED BY <1>7, <2>2, <3>2
  <2>3. CASE i = n + 1 /\ j \in 1 .. n
    BY <1>3, <1>4, <1>7, <1>9, <2>3
  <2>4. CASE j = n + 1
    BY <1>7, <1>12, <2>1, <2>4
  <2>5. QED BY <1>7, <2>2, <2>3, <2>4
<1>17. BehindFresh(vs, rs, qs)
  <2>1. SUFFICES ASSUME NEW i \in 1 .. Len(vs), NEW j \in 1 .. Len(rs), Fresh(vs[i], qs)
                 PROVE  rs[j].writer < vs[i].writer
    BY DEF BehindFresh
  <2>2. CASE i \in 1 .. n
    <3>1. Fresh(ws[i], ps)
      BY <1>7, <1>9, <1>11, <2>1, <2>2
    <3>2. rs[j].writer < ws[i].writer
      BY <1>6, <2>2, <3>1 DEF CallsInv, BehindFresh
    <3>3. QED BY <1>7, <2>2, <3>2
  <2>3. CASE i = n + 1
    BY <1>3, <1>4, <1>7, <1>10, <2>3
  <2>4. QED BY <1>7, <2>2, <2>3
<1>18. CallsInv(vs, rs, qs)
  BY <1>2, <1>5, <1>7, <1>13, <1>14, <1>15, <1>16, <1>17 DEF CallsInv
<1>19. CallSet(vs, rs) = CallSet(ws, rs) \union {c}
  <2>1. \A i \in 1 .. n : i \in 1 .. n + 1 /\ vs[i] = ws[i]
    BY <1>7
  <2>2. n + 1 \in 1 .. n + 1 /\ \A i \in 1 .. n + 1 : i \in 1 .. n \/ i = n + 1
    OBVIOUS
  <2>3. {vs[i] : i \in 1 .. n + 1} = {ws[i] : i \in 1 .. n} \union {c}
    BY <1>7, <2>1, <2>2
  <2>4. QED BY <1>6, <1>7, <2>3 DEF CallSet
<1>20. \A d \in CallSet(ws, rs) : d.writer <= Len(ps)
  BY <1>3, <1>6, <1>9, <1>10 DEF CallSet
<1>21. QED BY <1>1, <1>4, <1>18, <1>19, <1>20

\* The oldest call is over.
LEMMA CallEnds ==
    ASSUME NEW ws, NEW rs, NEW ps, CallsInv(ws, rs, ps), ws # <<>>
    PROVE  /\ CallsInv(Tail(ws), rs, ps)
           /\ ws[1] \in CallSet(ws, rs) /\ ws[1] \in Call /\ Head(ws) = ws[1]
           /\ Valid(ws[1], ps) /\ (Fresh(ws[1], ps) \/ Started(ws[1], ps))
           /\ \A d \in CallSet(ws, rs) : d.writer # ws[1].writer => d \in CallSet(Tail(ws), rs)
           /\ \A d \in CallSet(Tail(ws), rs) : d.writer # ws[1].writer /\ d \in CallSet(ws, rs)
           /\ \A i \in 1 .. Len(Tail(ws)) : Fresh(Tail(ws)[i], ps) => ws[1].writer < Tail(ws)[i].writer
<1>1. PICK vs, c : vs = Tail(ws) /\ c = ws[1]
  OBVIOUS
<1>2. ws \in Seq(Call) /\ rs \in Seq(Call) /\ ps \in Seq(Packets)
  BY DEF CallsInv
<1>3. /\ vs \in Seq(Call) /\ Len(ws) \in Nat /\ Len(ws) >= 1 /\ Len(vs) = Len(ws) - 1
      /\ Head(ws) = c /\ c \in Call /\ 1 \in 1 .. Len(ws)
      /\ \A i \in 1 .. Len(vs) : vs[i] = ws[i + 1] /\ i + 1 \in 1 .. Len(ws)
      /\ \A i \in 1 .. Len(ws) : i # 1 => i - 1 \in 1 .. Len(vs) /\ ws[i] = vs[i - 1]
  BY ONLY <1>1, <1>2, ws # <<>>, OneLess
<1>4. ASSUME NEW i \in 1 .. Len(vs)
      PROVE  \E j \in 1 .. Len(ws) : j = i + 1 /\ j # 1 /\ vs[i] = ws[j]
  <2>1. PICK j \in 1 .. Len(ws) : j = i + 1
    BY <1>3
  <2>2. vs[i] = ws[j] /\ j # 1
    BY <1>3, <2>1
  <2>3. QED BY <2>1, <2>2
<1>5. ASSUME NEW i \in 1 .. Len(vs)
      PROVE  Valid(vs[i], ps) /\ (Fresh(vs[i], ps) \/ Started(vs[i], ps))
  BY <1>4 DEF CallsInv
<1>6. Distinct(vs, rs)
  <2>1. ASSUME NEW i \in 1 .. Len(vs), NEW j \in 1 .. Len(vs), vs[i].writer = vs[j].writer
        PROVE  i = j
    <3>1. PICK k \in 1 .. Len(ws) : k = i + 1 /\ vs[i] = ws[k]
      BY <1>4
    <3>2. PICK l \in 1 .. Len(ws) : l = j + 1 /\ vs[j] = ws[l]
      BY <1>4
    <3>3. k = l
      BY <2>1, <3>1, <3>2 DEF CallsInv, Distinct
    <3>4. QED BY <3>1, <3>2, <3>3
  <2>2. ASSUME NEW i \in 1 .. Len(vs), NEW j \in 1 .. Len(rs)
        PROVE  vs[i].writer # rs[j].writer
    BY <1>4 DEF CallsInv, Distinct
  <2>3. \A i, j \in 1 .. Len(rs) : rs[i].writer = rs[j].writer => i = j
    BY DEF CallsInv, Distinct
  <2>4. QED BY <2>1, <2>2, <2>3 DEF Distinct
<1>7. InOrder(vs, ps)
  <2>1. SUFFICES ASSUME NEW i \in 1 .. Len(vs), NEW j \in 1 .. Len(vs), Fresh(vs[i], ps),
                        j < i \/ ~Fresh(vs[j], ps)
                 PROVE  vs[j].writer < vs[i].writer
    BY DEF InOrder
  <2>2. PICK k \in 1 .. Len(ws) : k = i + 1 /\ vs[i] = ws[k]
    BY <1>4
  <2>3. PICK l \in 1 .. Len(ws) : l = j + 1 /\ vs[j] = ws[l]
    BY <1>4
  <2>4. l < k \/ ~Fresh(ws[l], ps)
    BY <2>1, <2>2, <2>3
  <2>5. QED BY <2>1, <2>2, <2>3, <2>4 DEF CallsInv, InOrder
<1>8. BehindFresh(vs, rs, ps)
  <2>1. SUFFICES ASSUME NEW i \in 1 .. Len(vs), NEW j \in 1 .. Len(rs), Fresh(vs[i], ps)
                 PROVE  rs[j].writer < vs[i].writer
    BY DEF BehindFresh
  <2>2. QED BY <1>4, <2>1 DEF CallsInv, BehindFresh
<1>9. \A j \in 1 .. Len(rs) : Valid(rs[j], ps) /\ Started(rs[j], ps)
  BY DEF CallsInv
<1>10. CallsInv(vs, rs, ps)
  BY <1>2, <1>3, <1>5, <1>6, <1>7, <1>8, <1>9 DEF CallsInv
<1>11. Valid(c, ps) /\ (Fresh(c, ps) \/ Started(c, ps))
  BY <1>1, <1>3 DEF CallsInv
<1>12. c \in CallSet(ws, rs)
  BY <1>1, <1>3 DEF CallSet
<1>13. ASSUME NEW d \in CallSet(ws, rs), d.writer # c.writer PROVE d \in CallSet(vs, rs)
  <2>1. CASE \E i \in 1 .. Len(ws) : d = ws[i]
    <3>1. PICK i \in 1 .. Len(ws) : d = ws[i]
      BY <2>1
    <3>2. i # 1
      BY <1>1, <1>13, <3>1
    <3>3. PICK j \in 1 .. Len(vs) : ws[i] = vs[j]
      BY <1>3, <3>2
    <3>4. QED BY <3>1, <3>3 DEF CallSet
  <2>2. CASE \E i \in 1 .. Len(rs) : d = rs[i]
    BY <2>2 DEF CallSet
  <2>3. QED BY <2>1, <2>2 DEF CallSet
<1>14. ASSUME NEW d \in CallSet(vs, rs) PROVE d.writer # c.writer /\ d \in CallSet(ws, rs)
  <2>1. CASE \E i \in 1 .. Len(vs) : d = vs[i]
    <3>1. PICK i \in 1 .. Len(vs) : d = vs[i]
      BY <2>1
    <3>2. PICK k \in 1 .. Len(ws) : k # 1 /\ vs[i] = ws[k]
      BY <1>4
    <3>3. ws[k].writer # ws[1].writer
      BY <1>3, <3>2 DEF CallsInv, Distinct
    <3>4. QED BY <1>1, <3>1, <3>2, <3>3 DEF CallSet
  <2>2. CASE \E i \in 1 .. Len(rs) : d = rs[i]
    <3>1. PICK i \in 1 .. Len(rs) : d = rs[i]
      BY <2>2
    <3>2. ws[1].writer # rs[i].writer
      BY <1>3 DEF CallsInv, Distinct
    <3>3. QED BY <1>1, <3>1, <3>2 DEF CallSet
  <2>3. QED BY <2>1, <2>2 DEF CallSet
<1>15. ASSUME NEW i \in 1 .. Len(vs), Fresh(vs[i], ps) PROVE c.writer < vs[i].writer
  <2>1. PICK k \in 1 .. Len(ws) : k = i + 1 /\ vs[i] = ws[k]
    BY <1>4
  <2>2. 1 < k /\ 1 \in 1 .. Len(ws)
    BY <1>3, <2>1
  <2>3. ws[1].writer < ws[k].writer
    BY <1>15, <2>1, <2>2 DEF CallsInv, InOrder
  <2>4. QED BY <1>1, <2>1, <2>3
<1>16. QED BY <1>1, <1>3, <1>10, <1>11, <1>12, <1>13, <1>14, <1>15

\* A call for the rest is to be made.
LEMMA CallResumes ==
    ASSUME NEW ws, NEW rs, NEW ps, CallsInv(ws, rs, ps),
           NEW c \in Call, Valid(c, ps), Started(c, ps),
           \A d \in CallSet(ws, rs) : d.writer # c.writer,
           \A i \in 1 .. Len(ws) : Fresh(ws[i], ps) => c.writer < ws[i].writer
    PROVE  /\ CallsInv(ws, Append(rs, c), ps)
           /\ CallSet(ws, Append(rs, c)) = CallSet(ws, rs) \union {c}
<1>1. PICK qs : qs = Append(rs, c)
  OBVIOUS
<1>2. ws \in Seq(Call) /\ rs \in Seq(Call) /\ ps \in Seq(Packets)
  BY DEF CallsInv
<1>3. PICK n \in Nat : n = Len(rs)
  BY <1>2, LenProperties
<1>4. /\ qs \in Seq(Call) /\ Len(qs) = n + 1 /\ qs[n + 1] = c
      /\ \A i \in 1 .. n : qs[i] = rs[i]
  BY <1>1, <1>2, <1>3, OneMore
<1>5. ASSUME NEW j \in 1 .. Len(qs) PROVE Valid(qs[j], ps) /\ Started(qs[j], ps)
  <2>1. CASE j \in 1 .. n
    BY <1>3, <1>4, <2>1 DEF CallsInv
  <2>2. CASE j = n + 1
    BY <1>4, <2>2
  <2>3. QED BY <1>4, <2>1, <2>2
<1>6. Distinct(ws, qs)
  <2>0. /\ \A i \in 1 .. n : rs[i].writer # c.writer
        /\ \A i \in 1 .. Len(ws) : ws[i].writer # c.writer
    BY <1>3 DEF CallSet
  <2>1. ASSUME NEW i \in 1 .. Len(qs), NEW j \in 1 .. Len(qs), qs[i].writer = qs[j].writer
        PROVE  i = j
    <3>1. CASE i \in 1 .. n /\ j \in 1 .. n
      BY <1>3, <1>4, <2>1, <3>1 DEF CallsInv, Distinct
    <3>2. CASE i = n + 1 /\ j \in 1 .. n
      BY <1>4, <2>0, <2>1, <3>2
    <3>3. CASE i \in 1 .. n /\ j = n + 1
      BY <1>4, <2>0, <2>1, <3>3
    <3>4. QED BY <1>4, <3>1, <3>2, <3>3
  <2>2. ASSUME NEW i \in 1 .. Len(ws), NEW j \in 1 .. Len(qs)
        PROVE  ws[i].writer # qs[j].writer
    <3>1. CASE j \in 1 .. n
      BY <1>3, <1>4, <3>1 DEF CallsInv, Distinct
    <3>2. CASE j = n + 1
      BY <1>4, <2>0, <3>2
    <3>3. QED BY <1>4, <3>1, <3>2
  <2>3. \A i, j \in 1 .. Len(ws) : ws[i].writer = ws[j].writer => i = j
    BY DEF CallsInv, Distinct
  <2>4. QED BY <2>1, <2>2, <2>3 DEF Distinct
<1>7. BehindFresh(ws, qs, ps)
  <2>1. SUFFICES ASSUME NEW i \in 1 .. Len(ws), NEW j \in 1 .. Len(qs), Fresh(ws[i], ps)
                 PROVE  qs[j].writer < ws[i].writer
    BY DEF BehindFresh
  <2>2. CASE j \in 1 .. n
    BY <1>3, <1>4, <2>1, <2>2 DEF CallsInv, BehindFresh
  <2>3. CASE j = n + 1
    BY <1>4, <2>1, <2>3
  <2>4. QED BY <1>4, <2>2, <2>3
<1>8. InOrder(ws, ps) /\ \A i \in 1 .. Len(ws) : Valid(ws[i], ps) /\ (Fresh(ws[i], ps) \/ Started(ws[i], ps))
  BY DEF CallsInv
<1>9. CallsInv(ws, qs, ps)
  BY <1>2, <1>4, <1>5, <1>6, <1>7, <1>8 DEF CallsInv
<1>10. CallSet(ws, qs) = CallSet(ws, rs) \union {c}
  <2>1. \A i \in 1 .. n : i \in 1 .. n + 1 /\ qs[i] = rs[i]
    BY <1>4
  <2>2. n + 1 \in 1 .. n + 1 /\ \A i \in 1 .. n + 1 : i \in 1 .. n \/ i = n + 1
    OBVIOUS
  <2>3. {qs[i] : i \in 1 .. n + 1} = {rs[i] : i \in 1 .. n} \union {c}
    BY <1>4, <2>1, <2>2
  <2>4. QED BY <1>3, <1>4, <2>3 DEF CallSet
<1>11. QED BY <1>1, <1>9, <1>10

\* The call for the rest is made.
LEMMA CallGoesOn ==
    ASSUME NEW ws, NEW rs, NEW ps, CallsInv(ws, rs, ps), rs # <<>>
    PROVE  /\ CallsInv(Append(ws, Head(rs)), Tail(rs), ps)
           /\ CallSet(Append(ws, Head(rs)), Tail(rs)) = CallSet(ws, rs)
<1>1. PICK vs, qs, c : vs = Append(ws, c) /\ qs = Tail(rs) /\ c = Head(rs)
  OBVIOUS
<1>2. ws \in Seq(Call) /\ rs \in Seq(Call) /\ ps \in Seq(Packets)
  BY DEF CallsInv
<1>3. /\ qs \in Seq(Call) /\ Len(rs) \in Nat /\ Len(rs) >= 1 /\ Len(qs) = Len(rs) - 1
      /\ c = rs[1] /\ c \in Call /\ 1 \in 1 .. Len(rs)
      /\ \A i \in 1 .. Len(qs) : qs[i] = rs[i + 1] /\ i + 1 \in 1 .. Len(rs)
      /\ \A i \in 1 .. Len(rs) : i # 1 => i - 1 \in 1 .. Len(qs) /\ rs[i] = qs[i - 1]
  BY ONLY <1>1, <1>2, rs # <<>>, OneLess
<1>4. ASSUME NEW i \in 1 .. Len(qs)
      PROVE  \E j \in 1 .. Len(rs) : j = i + 1 /\ j # 1 /\ qs[i] = rs[j]
  <2>1. PICK j \in 1 .. Len(rs) : j = i + 1
    BY <1>3
  <2>2. qs[i] = rs[j] /\ j # 1
    BY <1>3, <2>1
  <2>3. QED BY <2>1, <2>2
<1>5. PICK n \in Nat : n = Len(ws)
  BY <1>2, LenProperties
<1>6. /\ vs \in Seq(Call) /\ Len(vs) = n + 1 /\ vs[n + 1] = c
      /\ \A i \in 1 .. n : vs[i] = ws[i]
  BY <1>1, <1>2, <1>3, <1>5, OneMore
<1>7. Valid(c, ps) /\ Started(c, ps)
  BY <1>3 DEF CallsInv
<1>8. ~Fresh(c, ps)
  <2>1. Len(c.bytes) \in Nat
    BY <1>3, LenProperties DEF Call
  <2>2. QED BY <1>7, <2>1 DEF Fresh, Started
<1>9. ASSUME NEW i \in 1 .. Len(vs)
      PROVE  Valid(vs[i], ps) /\ (Fresh(vs[i], ps) \/ Started(vs[i], ps))
  <2>1. CASE i \in 1 .. n
    BY <1>5, <1>6, <2>1 DEF CallsInv
  <2>2. CASE i = n + 1
    BY <1>6, <1>7, <2>2
  <2>3. QED BY <1>6, <2>1, <2>2
<1>10. \A j \in 1 .. Len(qs) : Valid(qs[j], ps) /\ Started(qs[j], ps)
  BY <1>4 DEF CallsInv
<1>11. Distinct(vs, qs)
  <2>1. ASSUME NEW i \in 1 .. Len(vs), NEW j \in 1 .. Len(vs), vs[i].writer = vs[j].writer
        PROVE  i = j
    <3>0. \A k \in 1 .. n : ws[k].writer # c.writer
      BY <1>3, <1>5 DEF CallsInv, Distinct
    <3>1. CASE i \in 1 .. n /\ j \in 1 .. n
      BY <1>5, <1>6, <2>1, <3>1 DEF CallsInv, Distinct
    <3>2. CASE i = n + 1 /\ j \in 1 .. n
      BY <1>6, <2>1, <3>0, <3>2
    <3>3. CASE i \in 1 .. n /\ j = n + 1
      BY <1>6, <2>1, <3>0, <3>3
    <3>4. QED BY <1>6, <2>1, <3>1, <3>2, <3>3
  <2>2. ASSUME NEW i \in 1 .. Len(vs), NEW j \in 1 .. Len(qs)
        PROVE  vs[i].writer # qs[j].writer
    <3>0. PICK k \in 1 .. Len(rs) : k # 1 /\ qs[j] = rs[k]
      BY <1>4
    <3>1. CASE i \in 1 .. n
      BY <1>5, <1>6, <3>0, <3>1 DEF CallsInv, Distinct
    <3>2. CASE i = n + 1
      BY <1>3, <1>6, <3>0, <3>2 DEF CallsInv, Distinct
    <3>3. QED BY <1>6, <3>1, <3>2
  <2>3. ASSUME NEW i \in 1 .. Len(qs), NEW j \in 1 .. Len(qs), qs[i].writer = qs[j].writer
        PROVE  i = j
    <3>1. PICK k \in 1 .. Len(rs) : k = i + 1 /\ qs[i] = rs[k]
      BY <1>4
    <3>2. PICK l \in 1 .. Len(rs) : l = j + 1 /\ qs[j] = rs[l]
      BY <1>4
    <3>3. k = l
      BY <2>3, <3>1, <3>2 DEF CallsInv, Distinct
    <3>4. QED BY <3>1, <3>2, <3>3
  <2>4. QED BY <2>1, <2>2, <2>3 DEF Distinct
<1>12. InOrder(vs, ps)
  <2>1. SUFFICES ASSUME NEW i \in 1 .. Len(vs), NEW j \in 1 .. Len(vs), Fresh(vs[i], ps),
                        j < i \/ ~Fresh(vs[j], ps)
                 PROVE  vs[j].writer < vs[i].writer
    BY DEF InOrder
  <2>2. i \in 1 .. n
    BY <1>6, <1>8, <2>1
  <2>3. CASE j \in 1 .. n
    BY <1>5, <1>6, <2>1, <2>2, <2>3 DEF CallsInv, InOrder
  <2>4. CASE j = n + 1
    BY <1>3, <1>5, <1>6, <2>1, <2>2, <2>4 DEF CallsInv, BehindFresh
  <2>5. QED BY <1>6, <2>3, <2>4
<1>13. BehindFresh(vs, qs, ps)
  <2>1. SUFFICES ASSUME NEW i \in 1 .. Len(vs), NEW j \in 1 .. Len(qs), Fresh(vs[i], ps)
                 PROVE  qs[j].writer < vs[i].writer
    BY DEF BehindFresh
  <2>2. i \in 1 .. n
    BY <1>6, <1>8, <2>1
  <2>3. PICK k \in 1 .. Len(rs) : qs[j] = rs[k]
    BY <1>4
  <2>4. QED BY <1>5, <1>6, <2>1, <2>2, <2>3 DEF CallsInv, BehindFresh
<1>14. CallsInv(vs, qs, ps)
  BY <1>2, <1>3, <1>6, <1>9, <1>10, <1>11, <1>12, <1>13 DEF CallsInv
<1>15. ASSUME NEW d PROVE d \in CallSet(vs, qs) <=> d \in CallSet(ws, rs)
  <2>1. ASSUME NEW i \in 1 .. Len(vs), d = vs[i] PROVE d \in CallSet(ws, rs)
    BY <1>3, <1>5, <1>6, <2>1 DEF CallSet
  <2>2. ASSUME NEW i \in 1 .. Len(qs), d = qs[i] PROVE d \in CallSet(ws, rs)
    BY <1>4, <2>2 DEF CallSet
  <2>3. ASSUME NEW i \in 1 .. Len(ws), d = ws[i] PROVE d \in CallSet(vs, qs)
    <3>1. i \in 1 .. Len(vs) /\ vs[i] = ws[i]
      BY <1>5, <1>6
    <3>2. QED BY <2>3, <3>1 DEF CallSet
  <2>4. ASSUME NEW i \in 1 .. Len(rs), d = rs[i] PROVE d \in CallSet(vs, qs)
    <3>1. CASE i = 1
      <4>1. n + 1 \in 1 .. Len(vs) /\ vs[n + 1] = rs[1]
        BY <1>3, <1>6
      <4>2. QED BY <2>4, <3>1, <4>1 DEF CallSet
    <3>2. CASE i # 1
      <4>1. i - 1 \in 1 .. Len(qs) /\ rs[i] = qs[i - 1]
        BY <1>3, <3>2
      <4>2. QED BY <2>4, <4>1 DEF CallSet
    <3>3. QED BY <3>1, <3>2
  <2>5. QED BY <2>1, <2>2, <2>3, <2>4 DEF CallSet
<1>16. CallSet(vs, qs) = CallSet(ws, rs)
  BY <1>15
<1>17. QED BY <1>1, <1>14, <1>16
\* The value of a length is a number whatever the bytes are.
LEMMA ValueType ==
    ASSUME NEW b \in Seq(Byte), NEW n \in Used(b)
    PROVE  Value(b, n) \in Nat
<1>1. n \in Nat /\ n <= Len(b) /\ Len(b) \in Nat
  BY LenProperties, DigitsAssumption DEF Used
<1>2. PICK s : s = SubSeq(b, 1, n)
  OBVIOUS
<1>3. s \in Seq(Byte) /\ Len(s) = n
  BY <1>1, <1>2, CatCut
<1>4. PICK h : ReadsAs(h, s) /\ Value(b, n) = h[0]
  <2>1. SubSeq(b, 1, n) \in Seq(Byte)
    BY <1>2, <1>3
  <2>2. \E h : ReadsAs(h, SubSeq(b, 1, n)) /\ Value(b, n) = h[0]
    BY ONLY <2>1, ValueRead
  <2>3. QED BY <1>2, <2>2
<1> DEFINE K == {d \in Nat : d <= n => h[n - d] \in Nat}
<1>5. 0 \in K
  BY <1>1, <1>3, <1>4 DEF ReadsAs
<1>6. ASSUME NEW d \in Nat, d \in K PROVE d + 1 \in K
  <2>1. SUFFICES ASSUME d + 1 <= n PROVE h[n - (d + 1)] \in Nat
    OBVIOUS
  <2>2. PICK i \in Nat : i = n - d
    BY <1>1, <2>1, n - d \in Nat
  <2>3. i \in 1 .. n /\ n - (d + 1) = i - 1 /\ d <= n
    BY <1>1, <2>1, <2>2
  <2>4. h[i] \in Nat
    BY <1>6, <2>2, <2>3
  <2>5. h[i - 1] = Valued(s[i], h[i])
    BY <1>3, <1>4, <2>3 DEF ReadsAs
  <2>6. s[i] \in Nat
    BY <1>3, <2>3, ElementOfSeq, ByteProperties
  <2>7. s[i] % Base \in Nat
    <3>1. PICK t \in Nat : t = s[i]
      BY <2>6
    <3>2. t % Base \in 0 .. Base - 1 /\ Base \in Nat
      BY ONLY <3>1, BaseDivision
    <3>3. t % Base \in Nat
      BY <3>2
    <3>4. QED BY <3>1, <3>3
  <2>8. Base * h[i] \in Nat
    BY <2>4, BaseDivision, Multiplication
  <2>9. Valued(s[i], h[i]) \in Nat
    BY <2>7, <2>8 DEF Valued
  <2>10. QED BY <2>3, <2>5, <2>9
<1>7. Nat \subseteq K
  <2> HIDE DEF K
  <2>1. QED BY <1>5, <1>6, SetInduction
<1>8. h[n - n] \in Nat
  <2>a. n \in K
    <3> HIDE DEF K
    <3>1. QED BY <1>1, <1>7
  <2>1. n \in K /\ n <= n
    BY <1>1, <2>a
  <2>2. QED BY ONLY <2>1
<1>9. QED BY <1>1, <1>4, <1>8

-----------------------------------------------------------------------------
(* The invariant *)

TypeInv ==
    /\ open \in BOOLEAN /\ odd \in BOOLEAN /\ stale \in BOOLEAN /\ torn \in BOOLEAN
    /\ wire \in Seq(Byte) /\ buffer \in Seq(Byte)
    /\ reader \in {"idle", "header", "body", "failed"}
    /\ first \in Byte /\ remaining \in Nat
    /\ out \in Seq(ToSet(out))

\* A packet that cannot be understood is the last one sent.
SentInv == \A i \in 1 .. Len(sent) : Odd(sent[i]) => odd /\ i = Len(sent)

\* On a closed socket nothing is under way.
ClosedInv ==
    ~open => /\ wire = <<>> /\ writes = <<>> /\ resumes = <<>> /\ reader = "idle"
             /\ stale \/ buffer = <<>>

\* What follows the packets that were sent.
Ending == IF odd /\ \A i \in 1 .. Len(sent) : ~Odd(sent[i]) THEN Endless ELSE <<>>

\* What is sent and not read yet, and what the reader has of it.
Rest == Cat(wire, UnwrittenOf(writes, resumes, Len(sent)))
InHand == IF reader = "body" THEN Cat(<<first>>, Digits[remaining]) ELSE <<>>

\* What was read, what is in hand, on its way and not written yet is what was sent.
StreamIs ==
    Cat(EncodeAll(SubSeq(sent, 1, Len(out))), Cat(InHand, Cat(buffer, Rest)))
        = Cat(EncodeAll(sent), Ending)

\* What the reader knows of the packets that were sent.
ReaderIs ==
    /\ Len(out) <= Len(sent)
    /\ \A i \in 1 .. Len(out) : out[i] = sent[i] \/ Odd(sent[i])
    /\ reader = "body" =>
        /\ Len(out) < Len(sent)
        /\ first = sent[Len(out) + 1].first /\ remaining = Len(Body(sent[Len(out) + 1]))
    /\ reader = "failed" => odd

ReadInv == open /\ ~stale /\ ~torn => ReaderIs /\ (reader # "failed" => StreamIs)

IInv == TypeInv /\ CallsInv(writes, resumes, sent) /\ SentInv /\ ClosedInv /\ ReadInv

-----------------------------------------------------------------------------
(* The parts of the stream are sequences of bytes *)

\* The packets sent and the calls.
LEMMA Lengths ==
    ASSUME IInv
    PROVE  /\ sent \in Seq(Packets) /\ writes \in Seq(Call) /\ resumes \in Seq(Call)
           /\ Len(sent) \in Nat /\ Len(out) \in Nat
           /\ Distinct(writes, resumes)
<1>1. sent \in Seq(Packets) /\ writes \in Seq(Call) /\ resumes \in Seq(Call)
  BY DEF IInv, CallsInv
<1>2. Distinct(writes, resumes) /\ out \in Seq(ToSet(out))
  BY DEF IInv, CallsInv, TypeInv
<1>3. QED BY <1>1, <1>2, LenProperties

\* The parts of the stream.
LEMMA PartsAreBytes ==
    ASSUME IInv
    PROVE  /\ UnwrittenOf(writes, resumes, Len(sent)) \in Seq(Byte)
           /\ Rest \in Seq(Byte) /\ InHand \in Seq(Byte) /\ Ending \in Seq(Byte)
           /\ EncodeAll(sent) \in Seq(Byte)
           /\ \A k \in Nat : k <= Len(sent) =>
                /\ SubSeq(sent, 1, k) \in Seq(Packets) /\ EncodeAll(SubSeq(sent, 1, k)) \in Seq(Byte)
<1>1. UnwrittenOf(writes, resumes, Len(sent)) \in Seq(Byte)
  BY Lengths, LeftsType
<1>2. wire \in Seq(Byte) /\ first \in Byte /\ remaining \in Nat
  BY DEF IInv, TypeInv
<1>3. Rest \in Seq(Byte)
  BY <1>1, <1>2, CatType DEF Rest
<1>4. <<>> \in Seq(Byte)
  BY EmptySeq
<1>5. InHand \in Seq(Byte)
  <2>1. <<first>> \in Seq(Byte) /\ Digits[remaining] \in Seq(Byte)
    BY <1>2, ByteProperties, DigitsStep
  <2>2. Cat(<<first>>, Digits[remaining]) \in Seq(Byte)
    BY <2>1, CatType
  <2>3. QED BY <1>4, <2>2 DEF InHand
<1>6. Ending \in Seq(Byte)
  BY <1>4, EndlessType DEF Ending
<1>7. EncodeAll(sent) \in Seq(Byte)
  BY Lengths, EncodingsType
<1>8. ASSUME NEW k \in Nat, k <= Len(sent)
      PROVE  SubSeq(sent, 1, k) \in Seq(Packets) /\ EncodeAll(SubSeq(sent, 1, k)) \in Seq(Byte)
  <2>1. SubSeq(sent, 1, k) \in Seq(Packets)
    BY <1>8, Lengths, CatCut
  <2>2. QED BY <2>1, EncodingsType
<1>9. QED BY <1>1, <1>3, <1>5, <1>6, <1>7, <1>8

\* The invariant holds at first.
LEMMA InitInv == Init => IInv
<1> SUFFICES ASSUME Init PROVE IInv
  OBVIOUS
<1>0. <<>> \in Seq(Byte) /\ <<>> \in Seq(Packets) /\ <<>> \in Seq(ToSet(<<>>)) /\ Len(<<>>) = 0
  BY EmptySeq
<1>1. TypeInv
  BY <1>0, EndlessType DEF Init, TypeInv
<1>2. CallsInv(writes, resumes, sent)
  BY <1>0, NothingCalled DEF Init
<1>3. SentInv /\ ClosedInv
  BY <1>0 DEF Init, SentInv, ClosedInv
<1>4. ReaderIs
  BY <1>0 DEF Init, ReaderIs
<1>5. StreamIs
  <2>1. Rest = <<>>
    <3>1. UnwrittenOf(writes, resumes, Len(sent)) = <<>>
      BY <1>0, UnwrittenNothing DEF Init
    <3>2. Cat(<<>>, <<>>) = <<>>
      BY <1>0, CatEmpty
    <3>3. QED BY <3>1, <3>2 DEF Init, Rest
  <2>2. InHand = <<>> /\ Ending = <<>>
    BY DEF Init, InHand, Ending
  <2>3. SubSeq(sent, 1, Len(out)) = <<>>
    BY <1>0, SubSeqEmpty DEF Init
  <2>4. Cat(<<>>, <<>>) = <<>>
    BY <1>0, CatEmpty
  <2>5. sent = <<>> /\ buffer = <<>>
    BY DEF Init
  <2>6. QED BY <2>1, <2>2, <2>3, <2>4, <2>5, EncodeNothing DEF StreamIs
<1>6. QED BY <1>1, <1>2, <1>3, <1>4, <1>5 DEF IInv, ReadInv
-----------------------------------------------------------------------------
(* The actions: connection, reading some bytes, starting *)

\* What comes last in the stream, and what the stream is with it.
LEMMA StreamGrows ==
    ASSUME NEW S, NEW a \in Seq(S), NEW h \in Seq(S), NEW b \in Seq(S), NEW r \in Seq(S),
           NEW x \in Seq(S)
    PROVE  Cat(a, Cat(h, Cat(b, Cat(r, x)))) = Cat(Cat(a, Cat(h, Cat(b, r))), x)
<1>1. Cat(b, Cat(r, x)) = Cat(Cat(b, r), x)
  BY CatAssociative
<1>2. PICK c \in Seq(S) : c = Cat(b, r)
  BY CatType
<1>3. Cat(h, Cat(c, x)) = Cat(Cat(h, c), x)
  BY CatAssociative
<1>4. PICK d \in Seq(S) : d = Cat(h, c)
  BY CatType
<1>5. Cat(a, Cat(d, x)) = Cat(Cat(a, d), x)
  BY CatAssociative
<1>6. QED BY <1>1, <1>2, <1>3, <1>4, <1>5

\* Waiting for a header takes nothing.
LEMMA StartReadingInv == IInv /\ StartReading => IInv'
<1> SUFFICES ASSUME IInv, StartReading PROVE IInv'
  OBVIOUS
<1> USE DEF StartReading, writing
<1>1. TypeInv'
  BY DEF IInv, TypeInv
<1>2. CallsInv(writes, resumes, sent)'
  BY DEF IInv
<1>3. SentInv' /\ ClosedInv'
  BY DEF IInv, SentInv, ClosedInv
<1>4. ReadInv'
  <2>1. SUFFICES ASSUME open, ~stale, ~torn PROVE ReaderIs' /\ StreamIs'
    BY DEF ReadInv
  <2>2. ReaderIs /\ StreamIs
    BY <2>1 DEF IInv, ReadInv
  <2>3. ReaderIs'
    BY <2>2 DEF ReaderIs
  <2>4. InHand' = InHand /\ Rest' = Rest /\ Ending' = Ending
    BY DEF InHand, Rest, Ending
  <2>5. QED BY <2>2, <2>3, <2>4 DEF StreamIs
<1>5. QED BY <1>1, <1>2, <1>3, <1>4 DEF IInv

\* Bytes move from the wire to the end of the buffer.
LEMMA ReadSomeInv == IInv /\ ReadSome => IInv'
<1> SUFFICES ASSUME IInv, ReadSome PROVE IInv'
  OBVIOUS
<1>1. PICK n \in 1 .. Len(wire) : /\ buffer' = buffer \o SubSeq(wire, 1, n)
                                  /\ wire' = SubSeq(wire, n + 1, Len(wire))
  BY DEF ReadSome
<1>2. /\ UNCHANGED <<open, writing, reader, first, remaining, out, stale, connection>>
      /\ UNCHANGED <<open, writes, resumes, sent, odd, torn, reader, first, remaining, out, stale>>
      /\ reader # "idle" /\ reader # "failed"
  BY DEF ReadSome, writing, Waiting, Needs
<1>3. wire \in Seq(Byte) /\ buffer \in Seq(Byte)
  BY DEF IInv, TypeInv
<1>4. n \in Nat /\ n <= Len(wire)
  BY <1>3, LenProperties
<1>5. PICK a, c \in Seq(Byte) : a = SubSeq(wire, 1, n) /\ c = SubSeq(wire, n + 1, Len(wire)) /\ wire = Cat(a, c)
  <2>1. /\ SubSeq(wire, 1, n) \in Seq(Byte) /\ SubSeq(wire, n + 1, Len(wire)) \in Seq(Byte)
        /\ wire = Cat(SubSeq(wire, 1, n), SubSeq(wire, n + 1, Len(wire)))
    BY ONLY <1>3, <1>4, CatCut
  <2>2. PICK a, c : a = SubSeq(wire, 1, n) /\ c = SubSeq(wire, n + 1, Len(wire))
    OBVIOUS
  <2>3. a \in Seq(Byte) /\ c \in Seq(Byte) /\ wire = Cat(a, c)
    BY <2>1, <2>2
  <2>4. QED BY <2>2, <2>3
<1>6. buffer' = Cat(buffer, a) /\ wire' = c
  BY <1>1, <1>5 DEF Cat
<1>7. buffer' \in Seq(Byte) /\ wire' \in Seq(Byte)
  BY <1>3, <1>6, CatType
<1>8. TypeInv'
  BY <1>2, <1>7 DEF IInv, TypeInv
<1>9. CallsInv(writes, resumes, sent)'
  BY <1>2 DEF IInv
<1>10. SentInv' /\ ClosedInv'
  BY <1>2 DEF IInv, SentInv, ClosedInv
<1>11. ReadInv'
  <2>1. SUFFICES ASSUME open, ~stale, ~torn PROVE ReaderIs' /\ StreamIs'
    BY <1>2 DEF ReadInv
  <2>2. ReaderIs /\ StreamIs
    BY <1>2, <2>1 DEF IInv, ReadInv
  <2>3. ReaderIs'
    BY <1>2, <2>2 DEF ReaderIs
  <2>4. InHand' = InHand /\ Ending' = Ending
    BY <1>2 DEF InHand, Ending
  <2>5. PICK u \in Seq(Byte) : u = UnwrittenOf(writes, resumes, Len(sent))
    BY PartsAreBytes
  <2>6. Rest = Cat(Cat(a, c), u) /\ Rest' = Cat(c, u)
    BY <1>2, <1>5, <1>6, <2>5 DEF Rest
  <2>7. Cat(buffer, Rest) = Cat(buffer', Rest')
    <3>1. Rest = Cat(a, Cat(c, u))
      BY <2>6, CatAssociative
    <3>2. Cat(c, u) \in Seq(Byte)
      BY CatType
    <3>3. Cat(Cat(buffer, a), Cat(c, u)) = Cat(buffer, Cat(a, Cat(c, u)))
      BY <1>3, <3>2, CatAssociative
    <3>4. QED BY <1>6, <2>6, <3>1, <3>3
  <2>8. QED BY <1>2, <2>2, <2>3, <2>4, <2>7 DEF StreamIs
<1>12. QED BY <1>8, <1>9, <1>10, <1>11 DEF IInv

\* A closed socket has no stream.
LEMMA CloseInv == IInv /\ Close => IInv'
<1> SUFFICES ASSUME IInv, Close PROVE IInv'
  OBVIOUS
<1>1. /\ ~open' /\ reader' = "idle" /\ wire' = <<>> /\ writes' = <<>> /\ resumes' = <<>>
      /\ stale' = (stale \/ buffer # <<>>)
      /\ UNCHANGED <<buffer, first, remaining, out, sent, odd, torn>>
  BY DEF Close
<1>2. TypeInv'
  <2>1. <<>> \in Seq(Byte)
    BY EmptySeq
  <2>2. stale' \in BOOLEAN /\ open' \in BOOLEAN
    BY <1>1 DEF IInv, TypeInv, Close
  <2>3. QED BY <1>1, <2>1, <2>2 DEF IInv, TypeInv
<1>3. CallsInv(writes, resumes, sent)'
  BY <1>1, Lengths, NothingCalled
<1>4. SentInv'
  BY <1>1 DEF IInv, SentInv
<1>5. ClosedInv'
  BY <1>1 DEF ClosedInv
<1>6. ReadInv'
  BY <1>1 DEF ReadInv
<1>7. QED BY <1>2, <1>3, <1>4, <1>5, <1>6 DEF IInv

\* The stream of a new connection is empty, unless the buffer is not.
LEMMA ReopenInv == IInv /\ Reopen => IInv'
<1> SUFFICES ASSUME IInv, Reopen PROVE IInv'
  OBVIOUS
<1>0. <<>> \in Seq(Byte) /\ <<>> \in Seq(Packets) /\ <<>> \in Seq(ToSet(<<>>)) /\ Len(<<>>) = 0
  BY EmptySeq
<1>1. /\ open' /\ open' \in BOOLEAN /\ out' = <<>> /\ sent' = <<>> /\ odd' = FALSE /\ torn' = FALSE
      /\ UNCHANGED <<writes, resumes, wire, buffer, reader, first, remaining, stale>>
      /\ wire = <<>> /\ writes = <<>> /\ resumes = <<>> /\ reader = "idle" /\ (stale \/ buffer = <<>>)
  BY DEF Reopen, IInv, ClosedInv
<1>2. TypeInv'
  BY <1>0, <1>1 DEF IInv, TypeInv
<1>3. CallsInv(writes, resumes, sent)'
  BY <1>0, <1>1, NothingCalled
<1>4. SentInv' /\ ClosedInv'
  BY <1>0, <1>1 DEF SentInv, ClosedInv
<1>5. ReadInv'
  <2>1. SUFFICES ASSUME ~stale PROVE ReaderIs' /\ StreamIs'
    BY <1>1 DEF ReadInv
  <2>2. ReaderIs'
    BY <1>0, <1>1 DEF ReaderIs
  <2>3. Cat(<<>>, <<>>) = <<>>
    BY <1>0, CatEmpty
  <2>4. Rest' = <<>>
    BY <1>0, <1>1, <2>3, UnwrittenNothing DEF Rest
  <2>5. InHand' = <<>> /\ Ending' = <<>>
    BY <1>1 DEF InHand, Ending
  <2>6. SubSeq(sent', 1, Len(out')) = <<>>
    BY <1>0, <1>1, SubSeqEmpty
  <2>7. sent' = <<>> /\ buffer' = <<>>
    BY <1>1, <2>1
  <2>8. QED BY <2>2, <2>3, <2>4, <2>5, <2>6, <2>7, EncodeNothing DEF StreamIs
<1>6. QED BY <1>2, <1>3, <1>4, <1>5 DEF IInv

\* A packet more to be written, after all the others.
LEMMA StartWritingInv == ASSUME NEW p \in Packets PROVE IInv /\ StartWriting(p) => IInv'
<1> SUFFICES ASSUME IInv, StartWriting(p) PROVE IInv'
  OBVIOUS
<1>1. /\ open /\ ~odd /\ sent' = Append(sent, p) /\ odd' = Odd(p)
      /\ writes' = Append(writes, [writer |-> Len(sent'), bytes |-> Encode(p)])
      /\ UNCHANGED <<open, resumes, torn, wire, buffer, reader, first, remaining, out, stale>>
  BY DEF StartWriting, reading
<1>2. /\ sent \in Seq(Packets) /\ writes \in Seq(Call) /\ resumes \in Seq(Call)
      /\ Len(sent) \in Nat /\ Len(out) \in Nat /\ Distinct(writes, resumes)
  BY Lengths
<1>3. PICK n \in Nat : n = Len(sent)
  BY <1>2
<1>4. /\ sent' \in Seq(Packets) /\ Len(sent') = n + 1 /\ sent'[n + 1] = p
      /\ \A i \in 1 .. n : sent'[i] = sent[i]
  BY <1>1, <1>2, <1>3, OneMore
<1>5. PICK c : c = [writer |-> Len(sent) + 1, bytes |-> Encode(p)]
  OBVIOUS
<1>6. writes' = Append(writes, c)
  BY <1>1, <1>3, <1>4, <1>5
<1>7. CallsInv(writes, resumes, sent)
  BY DEF IInv
<1>8. /\ CallsInv(Append(writes, c), resumes, Append(sent, p))
      /\ CallSet(Append(writes, c), resumes) = CallSet(writes, resumes) \union {c}
      /\ c \in Call /\ c.writer = Len(sent) + 1 /\ c.bytes = Encode(p)
      /\ \A d \in CallSet(writes, resumes) : d.writer <= Len(sent)
  BY <1>5, <1>7, CallStarts
<1>9. CallsInv(writes, resumes, sent)'
  BY <1>1, <1>6, <1>8
<1>10. TypeInv'
  BY <1>1 DEF IInv, TypeInv, Odd
<1>11. \A i \in 1 .. n : ~Odd(sent[i])
  BY <1>1, <1>3 DEF IInv, SentInv
<1>12. SentInv'
  <2>1. ASSUME NEW i \in 1 .. n + 1, Odd(sent'[i]) PROVE odd' /\ i = n + 1
    <3>1. i = n + 1
      BY <1>4, <1>11, <2>1
    <3>2. QED BY <1>1, <1>4, <2>1, <3>1
  <2>2. QED BY <1>4, <2>1 DEF SentInv
<1>13. ClosedInv'
  BY <1>1 DEF ClosedInv
<1>14. ReadInv'
  <2>1. SUFFICES ASSUME ~stale, ~torn PROVE ReaderIs' /\ StreamIs'
    BY <1>1 DEF ReadInv
  <2>2. ReaderIs /\ StreamIs
    BY <1>1, <2>1 DEF IInv, ReadInv, ReaderIs
  <2>3. PICK k \in Nat : k = Len(out) /\ k <= n
    BY <1>2, <1>3, <2>2 DEF ReaderIs
  <2>4. ReaderIs'
    <3>1. Len(out') <= Len(sent')
      BY <1>1, <1>4, <2>3
    <3>2. \A i \in 1 .. Len(out') : out'[i] = sent'[i] \/ Odd(sent'[i])
      <4>1. \A i \in 1 .. k : i \in 1 .. n /\ (out[i] = sent[i] \/ Odd(sent[i]))
        BY <2>2, <2>3 DEF ReaderIs
      <4>2. QED BY <1>1, <1>4, <2>3, <4>1
    <3>3. reader' = "body" => /\ Len(out') < Len(sent')
                              /\ first' = sent'[Len(out') + 1].first
                              /\ remaining' = Len(Body(sent'[Len(out') + 1]))
      <4>1. SUFFICES ASSUME reader = "body"
                     PROVE  /\ Len(out') < Len(sent')
                            /\ first' = sent'[Len(out') + 1].first
                            /\ remaining' = Len(Body(sent'[Len(out') + 1]))
        BY <1>1
      <4>2. /\ k < n /\ first = sent[k + 1].first /\ remaining = Len(Body(sent[k + 1]))
        BY <1>3, <2>2, <2>3, <4>1 DEF ReaderIs
      <4>3. k + 1 \in 1 .. n
        BY <4>2
      <4>4. sent'[k + 1] = sent[k + 1]
        BY <1>4, <4>3
      <4>5. QED BY <1>1, <1>4, <2>3, <4>2, <4>4
    <3>4. reader' # "failed"
      BY <1>1, <2>2 DEF ReaderIs
    <3>5. QED BY <3>1, <3>2, <3>3, <3>4 DEF ReaderIs
  <2>5. PICK x \in Seq(Byte) : x = Encode(p)
    BY PacketBytes
  <2>6. PICK u \in Seq(Byte) : u = UnwrittenOf(writes, resumes, Len(sent))
    BY PartsAreBytes
  <2>7. UnwrittenOf(writes', resumes', Len(sent')) = Cat(u, x)
    <3>1. writes' \in Seq(Call) /\ Distinct(writes', resumes)
      BY <1>1, <1>9 DEF CallsInv
    <3>2. CallSet(writes', resumes) = CallSet(writes, resumes) \union {c}
      BY <1>6, <1>8
    <3>3. UnwrittenOf(writes', resumes, n + 1) = Cat(UnwrittenOf(writes, resumes, n), c.bytes)
      <4>1. PICK vs : vs = writes'
        OBVIOUS
      <4>2. /\ vs \in Seq(Call) /\ Distinct(vs, resumes)
            /\ CallSet(vs, resumes) = CallSet(writes, resumes) \union {c}
        BY <3>1, <3>2, <4>1
      <4>3. c \in Call /\ c.writer = n + 1 /\ \A d \in CallSet(writes, resumes) : d.writer <= n
        BY <1>3, <1>8
      <4>4. writes \in Seq(Call) /\ resumes \in Seq(Call) /\ Distinct(writes, resumes) /\ n \in Nat
        BY <1>2
      <4>5. UnwrittenOf(vs, resumes, n + 1) = Cat(UnwrittenOf(writes, resumes, n), c.bytes)
        BY ONLY <4>2, <4>3, <4>4, UnwrittenMore
      <4>6. QED BY <4>1, <4>5
    <3>4. QED BY <1>1, <1>3, <1>4, <1>8, <2>5, <2>6, <3>3
  <2>8. PICK r, h, b, e \in Seq(Byte) : r = Rest /\ h = InHand /\ b = buffer /\ e = EncodeAll(sent)
    BY PartsAreBytes DEF IInv, TypeInv
  <2>9. PICK a \in Seq(Byte) : a = EncodeAll(SubSeq(sent, 1, k))
    BY <1>3, <2>3, PartsAreBytes
  <2>10. Rest' = Cat(r, x)
    <3>1. wire \in Seq(Byte)
      BY DEF IInv, TypeInv
    <3>2. Cat(wire, Cat(u, x)) = Cat(Cat(wire, u), x)
      BY <3>1, CatAssociative
    <3>3. QED BY <1>1, <2>6, <2>7, <2>8, <3>2 DEF Rest
  <2>11. InHand' = h /\ Ending = <<>> /\ buffer' = b
    BY <1>1, <2>8 DEF InHand, Ending
  <2>12. Ending' = <<>>
    <3>1. odd' => \E i \in 1 .. Len(sent') : Odd(sent'[i])
      <4>1. n + 1 \in 1 .. Len(sent')
        BY <1>4
      <4>2. QED BY <1>1, <1>4, <4>1
    <3>2. QED BY <3>1 DEF Ending
  <2>13. SubSeq(sent', 1, Len(out')) = SubSeq(sent, 1, k)
    <3>1. PICK s, t : s = SubSeq(sent, 1, k) /\ t = SubSeq(sent', 1, k)
      OBVIOUS
    <3>2. s \in Seq(Packets) /\ Len(s) = k /\ \A i \in 1 .. k : s[i] = sent[i]
      <4>1. \A i \in 1 .. k : sent[i] \in Packets
        BY <1>2, <1>3, <2>3, ElementOfSeq
      <4>2. QED BY <2>3, <3>1, <4>1, SubSeqProperties
    <3>3. t \in Seq(Packets) /\ Len(t) = k /\ \A i \in 1 .. k : t[i] = sent'[i]
      <4>1. \A i \in 1 .. k : sent'[i] \in Packets
        BY <1>4, <2>3, ElementOfSeq
      <4>2. QED BY <2>3, <3>1, <4>1, SubSeqProperties
    <3>4. \A i \in 1 .. k : t[i] = s[i]
      BY <1>4, <2>3, <3>2, <3>3
    <3>5. s = t
      BY <3>2, <3>3, <3>4, SeqEqual
    <3>6. QED BY <1>1, <2>3, <3>1, <3>5
  <2>14. EncodeAll(sent') = Cat(e, x)
    BY <1>1, <1>2, <2>5, <2>8, EncodeAppend
  <2>15. Cat(a, Cat(h, Cat(b, r))) = Cat(e, <<>>)
    BY <2>2, <2>3, <2>8, <2>9, <2>11 DEF StreamIs
  <2>16. Cat(a, Cat(h, Cat(b, Cat(r, x)))) = Cat(Cat(e, x), <<>>)
    <3>1. Cat(e, <<>>) = e /\ Cat(e, x) \in Seq(Byte)
      BY CatEmpty, CatType
    <3>2. Cat(Cat(e, x), <<>>) = Cat(e, x)
      BY <3>1, CatEmpty
    <3>3. Cat(a, Cat(h, Cat(b, Cat(r, x)))) = Cat(Cat(a, Cat(h, Cat(b, r))), x)
      BY StreamGrows
    <3>4. QED BY <2>15, <3>1, <3>2, <3>3
  <2>17. StreamIs'
    BY <2>9, <2>10, <2>11, <2>12, <2>13, <2>14, <2>16 DEF StreamIs
  <2>18. QED BY <2>4, <2>17
<1>15. QED BY <1>9, <1>10, <1>12, <1>13, <1>14 DEF IInv
-----------------------------------------------------------------------------
(* The actions: writing *)

\* The length that does not end comes last.
LEMMA SendEndlessInv == IInv /\ SendEndlessLength => IInv'
<1> SUFFICES ASSUME IInv, SendEndlessLength PROVE IInv'
  OBVIOUS
<1>1. /\ open /\ ~odd /\ writes = <<>> /\ resumes = <<>> /\ odd' = TRUE
      /\ wire' = wire \o <<0>> \o [i \in 1 .. MaxDigits |-> Base]
      /\ UNCHANGED <<open, writes, resumes, sent, torn, buffer, reader, first, remaining, out, stale>>
  BY DEF SendEndlessLength, reading
<1>2. wire \in Seq(Byte)
  BY DEF IInv, TypeInv
<1>3. wire' = Cat(wire, Endless) /\ wire' \in Seq(Byte)
  <2>1. PICK a, b : a = <<0>> /\ b = Highs
    OBVIOUS
  <2>2. a \in Seq(Byte) /\ b \in Seq(Byte) /\ Endless = Cat(a, b)
    BY <2>1, EndlessType DEF Endless
  <2>3. wire' = Cat(Cat(wire, a), b)
    BY <1>1, <2>1 DEF Cat, Highs
  <2>4. Cat(Cat(wire, a), b) = Cat(wire, Cat(a, b))
    BY <1>2, <2>2, CatAssociative
  <2>5. Cat(wire, Endless) \in Seq(Byte)
    BY <1>2, EndlessType, CatType
  <2>6. QED BY <2>2, <2>3, <2>4, <2>5
<1>4. TypeInv'
  BY <1>1, <1>3 DEF IInv, TypeInv
<1>5. CallsInv(writes, resumes, sent)'
  BY <1>1 DEF IInv
<1>6. \A i \in 1 .. Len(sent) : ~Odd(sent[i])
  BY <1>1 DEF IInv, SentInv
<1>7. SentInv' /\ ClosedInv'
  BY <1>1, <1>6 DEF SentInv, ClosedInv
<1>8. ReadInv'
  <2>1. SUFFICES ASSUME ~stale, ~torn PROVE ReaderIs' /\ StreamIs'
    BY <1>1 DEF ReadInv
  <2>2. ReaderIs /\ StreamIs
    BY <1>1, <2>1 DEF IInv, ReadInv, ReaderIs
  <2>3. ReaderIs'
    BY <1>1, <2>2 DEF ReaderIs
  <2>4. InHand' = InHand /\ Ending = <<>> /\ Ending' = Endless
    BY <1>1, <1>6 DEF InHand, Ending
  <2>5. Rest' = Cat(Rest, Endless)
    <3>1. UnwrittenOf(writes, resumes, Len(sent)) = <<>>
      BY <1>1, Lengths, UnwrittenNothing
    <3>2. Cat(wire, <<>>) = wire /\ Cat(wire', <<>>) = wire'
      BY <1>2, <1>3, CatEmpty
    <3>3. UnwrittenOf(writes', resumes', Len(sent')) = <<>>
      BY <1>1, <3>1
    <3>4. QED BY <1>3, <3>1, <3>2, <3>3 DEF Rest
  <2>6. PICK r, h, b, e, x \in Seq(Byte) :
          r = Rest /\ h = InHand /\ b = buffer /\ e = EncodeAll(sent) /\ x = Endless
    BY PartsAreBytes, EndlessType DEF IInv, TypeInv
  <2>7. PICK a \in Seq(Byte) : a = EncodeAll(SubSeq(sent, 1, Len(out)))
    BY <2>2, Lengths, PartsAreBytes DEF ReaderIs
  <2>8. Cat(a, Cat(h, Cat(b, r))) = Cat(e, <<>>)
    BY <2>2, <2>4, <2>6, <2>7 DEF StreamIs
  <2>9. Cat(a, Cat(h, Cat(b, Cat(r, x)))) = Cat(e, x)
    <3>1. Cat(e, <<>>) = e
      BY CatEmpty
    <3>2. Cat(a, Cat(h, Cat(b, Cat(r, x)))) = Cat(Cat(a, Cat(h, Cat(b, r))), x)
      BY StreamGrows
    <3>3. QED BY <2>8, <3>1, <3>2
  <2>10. StreamIs'
    BY <1>1, <2>4, <2>5, <2>6, <2>7, <2>9 DEF StreamIs
  <2>11. QED BY <2>3, <2>10
<1>9. QED BY <1>4, <1>5, <1>7, <1>8 DEF IInv

\* The call for the rest of a packet takes the place of the one before.
LEMMA WriteRestInv == IInv /\ WriteRest => IInv'
<1> SUFFICES ASSUME IInv, WriteRest PROVE IInv'
  OBVIOUS
<1>1. /\ resumes # <<>> /\ writes' = Append(writes, Head(resumes)) /\ resumes' = Tail(resumes)
      /\ UNCHANGED <<open, sent, odd, torn, wire, buffer, reader, first, remaining, out, stale>>
  BY DEF WriteRest, reading
<1>2. PICK vs, qs : vs = writes' /\ qs = resumes'
  OBVIOUS
<1>3. CallsInv(vs, qs, sent) /\ CallSet(vs, qs) = CallSet(writes, resumes)
  <2>1. CallsInv(writes, resumes, sent)
    BY DEF IInv
  <2>2. QED BY <1>1, <1>2, <2>1, CallGoesOn
<1>4. TypeInv'
  BY <1>1 DEF IInv, TypeInv
<1>5. CallsInv(writes, resumes, sent)'
  BY <1>1, <1>2, <1>3
<1>6. SentInv' /\ ClosedInv'
  BY <1>1 DEF IInv, SentInv, ClosedInv
<1>7. Rest' = Rest
  <2>1. vs \in Seq(Call) /\ qs \in Seq(Call) /\ Distinct(vs, qs)
    BY <1>3 DEF CallsInv
  <2>2. PICK n \in Nat : n = Len(sent)
    BY Lengths
  <2>3. writes \in Seq(Call) /\ resumes \in Seq(Call) /\ Distinct(writes, resumes)
    BY Lengths
  <2>4. UnwrittenOf(vs, qs, n) = UnwrittenOf(writes, resumes, n)
    BY ONLY <1>3, <2>1, <2>3, n \in Nat, UnwrittenSame
  <2>5. QED BY <1>1, <1>2, <2>2, <2>4 DEF Rest
<1>8. ReadInv'
  <2>1. SUFFICES ASSUME open, ~stale, ~torn PROVE ReaderIs' /\ (reader # "failed" => StreamIs')
    BY <1>1 DEF ReadInv
  <2>2. ReaderIs /\ (reader # "failed" => StreamIs)
    BY <2>1 DEF IInv, ReadInv
  <2>3. ReaderIs'
    BY <1>1, <2>2 DEF ReaderIs
  <2>4. InHand' = InHand /\ Ending' = Ending
    BY <1>1 DEF InHand, Ending
  <2>5. QED BY <1>1, <1>7, <2>2, <2>3, <2>4 DEF StreamIs
<1>9. QED BY <1>4, <1>5, <1>6, <1>8 DEF IInv

\* The writers before that of the oldest call have nothing left, unless there is
\* one in the middle of a packet.
LEMMA NothingBefore ==
    ASSUME NEW ws, NEW rs, NEW ps, CallsInv(ws, rs, ps), ws # <<>>,
           NEW w \in 1 .. Len(ps), w < ws[1].writer,
           LeftOf(ws, rs, w) = <<>> \/ LeftOf(ws, rs, w) = Encode(ps[w])
    PROVE  LeftOf(ws, rs, w) = <<>>
<1>1. SUFFICES ASSUME LeftOf(ws, rs, w) # <<>> PROVE FALSE
  OBVIOUS
<1>2. ws \in Seq(Call) /\ rs \in Seq(Call) /\ Distinct(ws, rs)
  BY DEF CallsInv
<1>3. PICK d \in CallSet(ws, rs) : d.writer = w
  BY <1>1, <1>2, LeftNone
<1>4. LeftOf(ws, rs, w) = d.bytes /\ d \in Call
  BY <1>2, <1>3, LeftOne
<1>5. Fresh(d, ps)
  BY <1>1, <1>3, <1>4 DEF Fresh
<1>6. Len(d.bytes) \in Nat
  BY <1>4, LenProperties DEF Call
<1>7. 1 \in 1 .. Len(ws) /\ ws[1] \in Call
  BY <1>2, OneLess
<1>8. CASE \E i \in 1 .. Len(ws) : d = ws[i]
  <2>1. PICK i \in 1 .. Len(ws) : d = ws[i]
    BY <1>8
  <2>2. i # 1
    BY <1>3, <1>7, <2>1 DEF Call
  <2>3. 1 < i
    BY <1>7, <2>2
  <2>4. ws[1].writer < ws[i].writer
    BY <1>5, <1>7, <2>1, <2>3 DEF CallsInv, InOrder
  <2>5. QED BY <1>3, <1>7, <2>1, <2>4 DEF Call
<1>9. CASE \E j \in 1 .. Len(rs) : d = rs[j]
  <2>1. Started(d, ps)
    BY <1>9 DEF CallsInv
  <2>2. QED BY <1>5, <1>6, <2>1 DEF Fresh, Started
<1>10. QED BY <1>8, <1>9 DEF CallSet

\* What goes on the wire is what comes next, or a packet is torn.
LEMMA WriteSomeInv == IInv /\ WriteSome => IInv'
<1> SUFFICES ASSUME IInv, WriteSome PROVE IInv'
  OBVIOUS
<1>1. /\ writes # <<>>
      /\ UNCHANGED <<open, sent, odd, buffer, reader, first, remaining, out, stale>>
  BY DEF WriteSome, reading
<1>2. PICK n \in 1 .. Len(Head(writes).bytes) :
        /\ wire' = wire \o SubSeq(Head(writes).bytes, 1, n)
        /\ writes' = Tail(writes)
        /\ \/ n = Len(Head(writes).bytes) /\ resumes' = resumes
           \/ /\ n < Len(Head(writes).bytes)
              /\ resumes' = Append(resumes, [Head(writes) EXCEPT !.bytes =
                                SubSeq(Head(writes).bytes, n + 1, Len(Head(writes).bytes))])
        /\ torn' = (torn \/ \E w \in DOMAIN sent : w # Head(writes).writer /\ InTheMiddle(w))
  BY DEF WriteSome
<1>3. /\ sent \in Seq(Packets) /\ writes \in Seq(Call) /\ resumes \in Seq(Call)
      /\ Len(sent) \in Nat /\ Distinct(writes, resumes)
  BY Lengths
<1>4. PICK ws, rs, ps : ws = writes /\ rs = resumes /\ ps = sent
  OBVIOUS
<1>5. CallsInv(ws, rs, ps) /\ ws # <<>>
  BY <1>1, <1>4 DEF IInv
<1>6. PICK c, vs : c = ws[1] /\ vs = Tail(ws)
  OBVIOUS
<1>7. /\ CallsInv(vs, rs, ps)
      /\ c \in CallSet(ws, rs) /\ c \in Call /\ Head(ws) = c
      /\ Valid(c, ps) /\ (Fresh(c, ps) \/ Started(c, ps))
      /\ \A d \in CallSet(ws, rs) : d.writer # c.writer => d \in CallSet(vs, rs)
      /\ \A d \in CallSet(vs, rs) : d.writer # c.writer /\ d \in CallSet(ws, rs)
      /\ \A i \in 1 .. Len(vs) : Fresh(vs[i], ps) => c.writer < vs[i].writer
  BY ONLY <1>5, <1>6, CallEnds
<1>8. c.writer \in 1 .. Len(ps) /\ c.bytes \in Seq(Byte)
  <2>1. c.writer \in Nat \ {0} /\ c.bytes \in Seq(Byte)
    BY <1>7 DEF Call
  <2>2. QED BY <1>3, <1>4, <1>7, <2>1 DEF Valid
<1>9. PICK x \in Seq(Byte) : x = c.bytes
  BY <1>8
<1>10. n \in Nat /\ n >= 1 /\ n <= Len(x) /\ Len(x) \in Nat
  BY <1>2, <1>4, <1>7, <1>9, LenProperties
<1>11. /\ SubSeq(x, 1, n) \in Seq(Byte) /\ SubSeq(x, n + 1, Len(x)) \in Seq(Byte)
       /\ Len(SubSeq(x, n + 1, Len(x))) = Len(x) - n
       /\ x = Cat(SubSeq(x, 1, n), SubSeq(x, n + 1, Len(x)))
  BY ONLY <1>10, x \in Seq(Byte), CatCut
<1>12. PICK y, z : y = SubSeq(x, 1, n) /\ z = SubSeq(x, n + 1, Len(x))
  OBVIOUS
<1>13. y \in Seq(Byte) /\ z \in Seq(Byte) /\ Len(z) = Len(x) - n /\ x = Cat(y, z)
  BY <1>11, <1>12
<1>14. /\ wire' = Cat(wire, y) /\ writes' = vs
       /\ \/ n = Len(x) /\ resumes' = rs
          \/ n < Len(x) /\ resumes' = Append(rs, [c EXCEPT !.bytes = z])
       /\ torn' = (torn \/ \E w \in DOMAIN sent : w # c.writer /\ InTheMiddle(w))
  BY <1>2, <1>4, <1>6, <1>7, <1>9, <1>12 DEF Cat
<1>15. wire \in Seq(Byte) /\ wire' \in Seq(Byte)
  BY <1>13, <1>14, CatType DEF IInv, TypeInv
<1>16. PICK qs : qs = resumes'
  OBVIOUS
<1>17. /\ CallsInv(vs, qs, ps)
       /\ \A d \in CallSet(ws, rs) : d.writer # c.writer => d \in CallSet(vs, qs)
       /\ \A d \in CallSet(vs, qs) : d.writer # c.writer => d \in CallSet(ws, rs)
       /\ LeftOf(vs, qs, c.writer) = z
  <2>0. vs \in Seq(Call) /\ rs \in Seq(Call)
    BY <1>7 DEF CallsInv
  <2>1. CASE n = Len(x) /\ resumes' = rs
    <3>1. qs = rs
      BY <1>16, <2>1
    <3>2. LeftOf(vs, rs, c.writer) = <<>>
      BY <1>7, <2>0, LeftNone
    <3>3. z = <<>>
      BY <1>10, <1>13, <2>1, EmptySeq
    <3>4. QED BY <1>7, <3>1, <3>2, <3>3
  <2>2. CASE n < Len(x) /\ resumes' = Append(rs, [c EXCEPT !.bytes = z])
    <3>1. PICK d : d = [c EXCEPT !.bytes = z]
      OBVIOUS
    <3>2. d \in Call /\ d.writer = c.writer /\ d.bytes = z
      BY <1>7, <1>13, <3>1 DEF Call
    <3>3. Len(z) \in Nat /\ Len(z) > 0 /\ Len(z) < Len(x)
      BY <1>10, <1>13, <2>2
    <3>4. z # <<>>
      BY <3>3
    <3>5. Valid(d, ps)
      BY <1>7, <3>2, <3>4 DEF Valid
    <3>6. Started(d, ps)
      <4>1. ps[c.writer] \in Packets
        BY <1>3, <1>4, <1>8, ElementOfSeq
      <4>2. Encode(ps[c.writer]) \in Seq(Byte)
        BY <4>1, PacketBytes
      <4>3. Len(Encode(ps[c.writer])) \in Nat
        BY <4>2, LenProperties
      <4>4. Len(x) <= Len(Encode(ps[c.writer]))
        BY <1>7, <1>9, <1>10, <4>3 DEF Fresh, Started
      <4>5. QED BY <1>10, <3>2, <3>3, <4>3, <4>4 DEF Started
    <3>7. \A e \in CallSet(vs, rs) : e.writer # d.writer
      BY <1>7, <3>2
    <3>8. \A i \in 1 .. Len(vs) : Fresh(vs[i], ps) => d.writer < vs[i].writer
      BY <1>7, <3>2
    <3>9. CallsInv(vs, rs, ps)
      BY <1>7
    <3>10. CallsInv(vs, Append(rs, d), ps) /\ CallSet(vs, Append(rs, d)) = CallSet(vs, rs) \union {d}
      BY ONLY <3>2, <3>5, <3>6, <3>7, <3>8, <3>9, CallResumes
    <3>11. qs = Append(rs, d)
      BY <1>16, <2>2, <3>1
    <3>12. CallsInv(vs, qs, ps) /\ CallSet(vs, qs) = CallSet(vs, rs) \union {d}
      BY <3>10, <3>11
    <3>13. LeftOf(vs, qs, d.writer) = d.bytes
      <4>1. vs \in Seq(Call) /\ qs \in Seq(Call) /\ Distinct(vs, qs) /\ d \in CallSet(vs, qs)
        BY <3>12 DEF CallsInv
      <4>2. QED BY ONLY <4>1, LeftOne
    <3>14. QED BY <1>7, <3>2, <3>12, <3>13
  <2>3. QED BY <1>14, <2>1, <2>2
<1>18. TypeInv'
  <2>1. torn' \in BOOLEAN
    BY <1>14 DEF IInv, TypeInv
  <2>2. QED BY <1>1, <1>15, <2>1 DEF IInv, TypeInv
<1>19. CallsInv(writes, resumes, sent)'
  BY <1>1, <1>4, <1>14, <1>16, <1>17
<1>20. SentInv' /\ ClosedInv'
  BY <1>1 DEF IInv, SentInv, ClosedInv
<1>21. ReadInv'
  <2>1. SUFFICES ASSUME open, ~stale, ~torn'
                 PROVE  ReaderIs' /\ (reader # "failed" => StreamIs')
    BY <1>1 DEF ReadInv
  <2>2. ~torn /\ \A w \in DOMAIN sent : w # c.writer => ~InTheMiddle(w)
    BY <1>14, <2>1
  <2>3. ReaderIs /\ (reader # "failed" => StreamIs)
    BY <2>1, <2>2 DEF IInv, ReadInv
  <2>4. ReaderIs'
    BY <1>1, <2>3 DEF ReaderIs
  <2>5. InHand' = InHand /\ Ending' = Ending
    BY <1>1 DEF InHand, Ending
  <2>6. ASSUME NEW w \in 1 .. Len(ps), w < c.writer PROVE LeftOf(ws, rs, w) = <<>>
    <3>1. w \in DOMAIN sent /\ w # c.writer
      BY <1>3, <1>4, <1>8, <2>6, LenProperties
    <3>2. Left(w) = <<>> \/ Left(w) = Encode(ps[w])
      BY <1>4, <2>2, <3>1 DEF InTheMiddle
    <3>3. Left(w) = LeftOf(ws, rs, w)
      BY <1>4 DEF Left, LeftOf, PartsOf, Cat
    <3>4. QED BY <1>5, <1>6, <2>6, <3>2, <3>3, NothingBefore
  <2>7. Rest' = Rest
    <3>1. PICK m \in Nat : m = Len(ps)
      BY <1>3, <1>4
    <3>2. PICK u \in Seq(Byte) : /\ UnwrittenOf(ws, rs, m) = Cat(c.bytes, u)
                                 /\ UnwrittenOf(vs, qs, m) = Cat(LeftOf(vs, qs, c.writer), u)
      <4>1. /\ ws \in Seq(Call) /\ rs \in Seq(Call) /\ Distinct(ws, rs)
            /\ vs \in Seq(Call) /\ qs \in Seq(Call) /\ Distinct(vs, qs)
        BY <1>5, <1>17 DEF CallsInv
      <4>2. c \in CallSet(ws, rs) /\ c.writer <= m
        BY <1>7, <1>8, <3>1
      <4>3. \A w \in 1 .. m : w < c.writer => LeftOf(ws, rs, w) = <<>>
        BY <2>6, <3>1
      <4>4. /\ \A d \in CallSet(ws, rs) : d.writer # c.writer => d \in CallSet(vs, qs)
            /\ \A d \in CallSet(vs, qs) : d.writer # c.writer => d \in CallSet(ws, rs)
        BY <1>17
      <4>5. NextOf(ws, rs, vs, qs, m, c)
        BY <4>1, <4>2, <4>3, <4>4 DEF NextOf
      <4>6. QED BY ONLY <4>5, UnwrittenNext
    <3>3. Rest = Cat(wire, Cat(Cat(y, z), u))
      BY <1>4, <1>9, <1>13, <3>1, <3>2 DEF Rest
    <3>4. Rest' = Cat(Cat(wire, y), Cat(z, u))
      BY <1>1, <1>4, <1>14, <1>16, <1>17, <3>1, <3>2 DEF Rest
    <3>5. Cat(Cat(y, z), u) = Cat(y, Cat(z, u)) /\ Cat(z, u) \in Seq(Byte)
      BY <1>13, CatAssociative, CatType
    <3>6. Cat(Cat(wire, y), Cat(z, u)) = Cat(wire, Cat(y, Cat(z, u)))
      BY <1>13, <1>15, <3>5, CatAssociative
    <3>7. QED BY <3>3, <3>4, <3>5, <3>6
  <2>8. QED BY <1>1, <2>3, <2>4, <2>5, <2>7 DEF StreamIs
<1>22. QED BY <1>18, <1>19, <1>20, <1>21 DEF IInv
-----------------------------------------------------------------------------
(* What the reader finds *)

\* While there is a packet that was not read, the stream goes on with it.
LEMMA NextPacket ==
    ASSUME IInv, StreamIs, NEW k \in Nat, k = Len(out), k < Len(sent)
    PROVE  /\ sent[k + 1] \in Packets
           /\ \E v \in Seq(Byte) : Cat(InHand, Cat(buffer, Rest)) = Cat(Encode(sent[k + 1]), v)
<1>1. sent \in Seq(Packets) /\ Len(sent) \in Nat
  BY Lengths
<1>2. PICK a \in Seq(Byte) : a = EncodeAll(SubSeq(sent, 1, k))
  BY PartsAreBytes
<1>3. PICK m \in Nat : m = k + 1
  OBVIOUS
<1>4. /\ sent[m] \in Packets
      /\ \E y \in Seq(Byte) : EncodeAll(sent) = Cat(EncodeAll(SubSeq(sent, 1, k)), Cat(Encode(sent[m]), y))
  BY <1>1, <1>3, EncodePrefix
<1>5. PICK y \in Seq(Byte) : EncodeAll(sent) = Cat(a, Cat(Encode(sent[m]), y))
  BY <1>2, <1>4
<1>6. PICK x \in Seq(Byte) : x = Encode(sent[m])
  BY <1>4, PacketBytes
<1>7. PICK z, g \in Seq(Byte) : z = Cat(InHand, Cat(buffer, Rest)) /\ g = Ending
  <2>1. buffer \in Seq(Byte)
    BY DEF IInv, TypeInv
  <2>2. Cat(buffer, Rest) \in Seq(Byte)
    BY <2>1, PartsAreBytes, CatType
  <2>3. Cat(InHand, Cat(buffer, Rest)) \in Seq(Byte)
    BY <2>2, PartsAreBytes, CatType
  <2>4. QED BY <2>3, PartsAreBytes
<1>8. Cat(a, z) = Cat(Cat(a, Cat(x, y)), g)
  BY <1>2, <1>5, <1>6, <1>7 DEF StreamIs
<1>9. Cat(x, y) \in Seq(Byte) /\ Cat(y, g) \in Seq(Byte) /\ Cat(Cat(x, y), g) = Cat(x, Cat(y, g))
  BY CatType, CatAssociative
<1>10. Cat(Cat(a, Cat(x, y)), g) = Cat(a, Cat(Cat(x, y), g)) /\ Cat(Cat(x, y), g) \in Seq(Byte)
  BY <1>9, CatType, CatAssociative
<1>11. z = Cat(Cat(x, y), g)
  BY <1>8, <1>10, CatCancel
<1>12. QED BY <1>3, <1>4, <1>6, <1>7, <1>9, <1>11

\* When all were read, only what follows them is left.
LEMMA NoPacket ==
    ASSUME IInv, StreamIs, Len(out) = Len(sent)
    PROVE  Cat(InHand, Cat(buffer, Rest)) = Ending
<1>1. sent \in Seq(Packets) /\ Len(sent) \in Nat
  BY Lengths
<1>2. SubSeq(sent, 1, Len(out)) = sent
  BY <1>1, SubSeqFull
<1>3. PICK e \in Seq(Byte) : e = EncodeAll(sent)
  BY PartsAreBytes
<1>4. PICK z, g \in Seq(Byte) : z = Cat(InHand, Cat(buffer, Rest)) /\ g = Ending
  <2>1. buffer \in Seq(Byte)
    BY DEF IInv, TypeInv
  <2>2. Cat(buffer, Rest) \in Seq(Byte)
    BY <2>1, PartsAreBytes, CatType
  <2>3. Cat(InHand, Cat(buffer, Rest)) \in Seq(Byte)
    BY <2>2, PartsAreBytes, CatType
  <2>4. QED BY <2>3, PartsAreBytes
<1>5. Cat(e, z) = Cat(e, g)
  BY <1>2, <1>3, <1>4 DEF StreamIs
<1>6. z = g
  BY <1>5, CatCancel
<1>7. QED BY <1>4, <1>6

\* A header that is there is that of the packet.
LEMMA HeaderMoves ==
    ASSUME NEW p \in Packets, NEW b \in Seq(Byte), b # <<>>, NEW r \in Seq(Byte),
           NEW v \in Seq(Byte), Cat(b, r) = Cat(Encode(p), v), CanDeserialize(Tail(b)),
           NEW d, d = Digits[Len(Body(p))]
    PROVE  /\ b[1] = p.first /\ Used(Tail(b)) = {Len(d)} /\ Value(Tail(b), Len(d)) = Len(Body(p))
           /\ SubSeq(b, Len(d) + 2, Len(b)) \in Seq(Byte)
           /\ b = Cat(Cat(<<p.first>>, d), SubSeq(b, Len(d) + 2, Len(b)))
<1>1. PICK f \in Byte, c \in Seq(Byte) : f = p.first /\ c = Body(p)
  BY PacketTypes
<1>2. PICK a : a = <<f>>
  OBVIOUS
<1>3. /\ a \in Seq(Byte) /\ Ends(d) /\ Len(d) <= MaxDigits /\ d \in Seq(Byte)
      /\ Encode(p) = Cat(a, Cat(d, c)) /\ Cat(a, d) \in Seq(Byte)
  BY <1>1, <1>2, PacketBytes
<1>4. Len(c) \in Nat /\ d = Digits[Len(c)]
  BY <1>1, LenProperties
<1>5. Cat(d, c) \in Seq(Byte) /\ Cat(c, v) \in Seq(Byte) /\ Cat(Cat(d, c), v) = Cat(d, Cat(c, v))
  <2>1. d \in Seq(Byte) /\ c \in Seq(Byte) /\ v \in Seq(Byte)
    BY <1>1, <1>3
  <2>2. Cat(d, c) \in Seq(Byte)
    BY ONLY <2>1, CatType
  <2>3. Cat(c, v) \in Seq(Byte)
    BY ONLY <2>1, CatType
  <2>4. Cat(Cat(d, c), v) = Cat(d, Cat(c, v))
    BY ONLY <2>1, CatAssociative
  <2>5. QED BY <2>2, <2>3, <2>4
<1>6. Cat(Encode(p), v) = Cat(a, Cat(d, Cat(c, v)))
  <2>1. Cat(Cat(a, Cat(d, c)), v) = Cat(a, Cat(Cat(d, c), v))
    BY <1>3, <1>5, CatAssociative
  <2>2. QED BY <1>3, <1>5, <2>1
<1>7. Cat(d, Cat(c, v)) \in Seq(Byte)
  BY <1>3, <1>5, CatType
<1>8. /\ b[1] = f /\ Tail(b) \in Seq(Byte)
      /\ b = Cat(a, Tail(b)) /\ Cat(Tail(b), r) = Cat(d, Cat(c, v))
  <2>1. PICK y \in Seq(Byte) : y = Cat(d, Cat(c, v))
    BY <1>7
  <2>2. Cat(b, r) = Cat(<<f>>, y)
    BY <1>2, <1>6, <2>1
  <2>3. b[1] = f /\ Tail(b) \in Seq(Byte) /\ b = Cat(<<f>>, Tail(b)) /\ Cat(Tail(b), r) = y
    BY <2>2, TailGoesOn
  <2>4. QED BY <1>2, <2>1, <2>3
<1>9. PICK t \in Seq(Byte) : t = Tail(b)
  BY <1>8
<1>10. PICK e \in Seq(Byte) : t = Cat(d, e)
  <2>1. Cat(t, r) = Cat(d, Cat(c, v)) /\ CanDeserialize(t)
    BY <1>8, <1>9
  <2>2. \E e \in Seq(Byte) : t = Cat(d, e) /\ Cat(c, v) = Cat(e, r)
    BY <1>3, <1>5, <2>1, LengthComes
  <2>3. QED BY <2>2
<1>11. Used(Cat(d, e)) = {Len(d)}
  BY <1>3, LengthIsThere
<1>12. Value(Cat(d, e), Len(d)) = Len(c)
  BY <1>4, LengthSays
<1>13. b = Cat(Cat(a, d), e)
  <2>1. b = Cat(a, Cat(d, e))
    BY <1>8, <1>9, <1>10
  <2>2. a \in Seq(Byte) /\ d \in Seq(Byte) /\ e \in Seq(Byte)
    BY <1>3
  <2>3. Cat(Cat(a, d), e) = Cat(a, Cat(d, e))
    BY ONLY <2>2, CatAssociative
  <2>4. QED BY <2>1, <2>3
<1>14. PICK h \in Seq(Byte) : h = Cat(a, d)
  BY <1>3
<1>15. Len(h) = Len(d) + 1 /\ Len(d) \in Nat
  <2>1. f \in Byte /\ d \in Seq(Byte)
    BY <1>3
  <2>2. Len(Cat(<<f>>, d)) = Len(d) + 1 /\ Len(d) \in Nat
    BY ONLY <2>1, CatFirst
  <2>3. QED BY <1>2, <1>14, <2>2
<1>16. SubSeq(Cat(h, e), Len(h) + 1, Len(Cat(h, e))) = e
  BY CatPrefix
<1>17. SubSeq(b, Len(d) + 2, Len(b)) = e
  <2>1. Len(h) + 1 = Len(d) + 2
    BY <1>15
  <2>2. QED BY <1>13, <1>14, <1>16, <2>1
<1>18. QED BY <1>1, <1>2, <1>8, <1>9, <1>10, <1>11, <1>12, <1>13, <1>17

\* A body that is there is that of the packet.
LEMMA BodyMoves ==
    ASSUME NEW p \in Packets, NEW b \in Seq(Byte), NEW r \in Seq(Byte), NEW v \in Seq(Byte),
           Cat(Cat(<<p.first>>, Digits[Len(Body(p))]), Cat(b, r)) = Cat(Encode(p), v)
    PROVE  /\ Cat(b, r) = Cat(Body(p), v)
           /\ Len(Body(p)) <= Len(b) =>
                /\ SubSeq(b, 1, Len(Body(p))) = Body(p)
                /\ SubSeq(b, Len(Body(p)) + 1, Len(b)) \in Seq(Byte)
                /\ b = Cat(Body(p), SubSeq(b, Len(Body(p)) + 1, Len(b)))
<1>1. PICK h, c \in Seq(Byte) : h = Cat(<<p.first>>, Digits[Len(Body(p))]) /\ c = Body(p)
  BY PacketTypes, PacketBytes
<1>2. Encode(p) = Cat(h, c)
  BY <1>1, PacketBytes
<1>3. Cat(Cat(h, c), v) = Cat(h, Cat(c, v)) /\ Cat(c, v) \in Seq(Byte) /\ Cat(b, r) \in Seq(Byte)
  BY CatAssociative, CatType
<1>4. Cat(h, Cat(b, r)) = Cat(h, Cat(c, v))
  BY <1>1, <1>2, <1>3
<1>5. Cat(b, r) = Cat(c, v)
  BY <1>3, <1>4, CatCancel
<1>6. ASSUME Len(c) <= Len(b)
      PROVE  /\ SubSeq(b, 1, Len(c)) = c
             /\ SubSeq(b, Len(c) + 1, Len(b)) \in Seq(Byte)
             /\ b = Cat(c, SubSeq(b, Len(c) + 1, Len(b)))
  <2>1. PICK e \in Seq(Byte) : b = Cat(c, e)
    <3>1. Cat(c, v) = Cat(b, r)
      BY <1>5
    <3>2. \E e \in Seq(Byte) : b = Cat(c, e) /\ v = Cat(e, r)
      BY <1>6, <3>1, CatSplit
    <3>3. QED BY <3>2
  <2>2. SubSeq(Cat(c, e), 1, Len(c)) = c /\ SubSeq(Cat(c, e), Len(c) + 1, Len(Cat(c, e))) = e
    BY CatPrefix
  <2>3. QED BY <2>1, <2>2
<1>7. QED BY <1>1, <1>5, <1>6
-----------------------------------------------------------------------------
(* The actions: reading a header *)

\* A header is read when it is there; the types stay.
LEMMA HeaderRead ==
    ASSUME IInv, ReadHeader
    PROVE  /\ buffer \in Seq(Byte) /\ buffer # <<>> /\ Tail(buffer) \in Seq(Byte)
           /\ Len(buffer) \in Nat /\ CanDeserialize(Tail(buffer))
           /\ TypeInv'
<1>1. buffer \in Seq(Byte) /\ Len(buffer) \in Nat
  BY LenProperties DEF IInv, TypeInv
<1>2. Len(buffer) >= 2 /\ CanDeserialize(Tail(buffer))
  <2>1. HeaderNeeds = 0
    BY DEF ReadHeader
  <2>2. PICK k \in Nat : k = Len(buffer)
    BY <1>1
  <2>3. k >= 2
    <3>1. SUFFICES ASSUME k < 2 PROVE FALSE
      BY <2>2
    <3>2. 2 - k = 0
      BY <2>1, <2>2, <3>1 DEF HeaderNeeds
    <3>3. QED BY <2>2, <3>1, <3>2
  <2>4. CanDeserialize(Tail(buffer))
    BY <2>1, <2>2, <2>3 DEF HeaderNeeds
  <2>5. QED BY <2>2, <2>3, <2>4
<1>3. buffer # <<>>
  BY <1>2
<1>4. buffer[1] \in Byte /\ Tail(buffer) \in Seq(Byte) /\ Len(Tail(buffer)) = Len(buffer) - 1
  BY <1>1, <1>3, FirstAndTail
<1>5. PICK t \in Seq(Byte) : t = Tail(buffer)
  BY <1>4
<1>6. ASSUME NEW n \in Used(t)
      PROVE  Value(t, n) \in Nat /\ SubSeq(buffer, n + 2, Len(buffer)) \in Seq(Byte)
  <2>1. Value(t, n) \in Nat
    BY <1>6, ValueType
  <2>2. n \in Nat /\ n <= Len(t)
    BY <1>6, DigitsAssumption DEF Used
  <2>3. PICK m \in Nat : m = n + 1
    BY <2>2
  <2>4. m <= Len(buffer)
    BY <1>1, <1>4, <1>5, <2>2, <2>3
  <2>5. SubSeq(buffer, m + 1, Len(buffer)) \in Seq(Byte)
    BY ONLY <1>1, <2>4, m \in Nat, CatCut
  <2>6. m + 1 = n + 2
    BY <2>2, <2>3
  <2>7. QED BY <2>1, <2>5, <2>6
<1>7. /\ first' \in Byte
      /\ \/ remaining' \in Nat /\ buffer' \in Seq(Byte) /\ reader' = "body"
         \/ buffer' = Tail(buffer) /\ reader' = "failed" /\ remaining' = remaining
      /\ UNCHANGED <<open, odd, stale, torn, wire, out>>
  <2>1. \/ \E n \in Used(t) : /\ remaining' = Value(t, n)
                              /\ buffer' = SubSeq(buffer, n + 2, Len(buffer)) /\ reader' = "body"
        \/ buffer' = Tail(buffer) /\ reader' = "failed" /\ remaining' = remaining
    BY <1>5 DEF ReadHeader
  <2>2. first' = buffer[1] /\ UNCHANGED <<open, odd, stale, torn, wire, out>>
    BY DEF ReadHeader, writing
  <2>3. QED BY <1>4, <1>6, <2>1, <2>2
<1>8. TypeInv'
  BY <1>4, <1>7 DEF IInv, TypeInv
<1>9. QED BY <1>1, <1>2, <1>3, <1>4, <1>8


\* The header is that of the next packet, or the length does not end.
LEMMA ReadHeaderInv == IInv /\ ReadHeader => IInv'
<1> SUFFICES ASSUME IInv, ReadHeader PROVE IInv'
  OBVIOUS
<1>1. /\ reader = "header"
      /\ first' = buffer[1]
      /\ \/ \E n \in Used(Tail(buffer)) :
              /\ remaining' = Value(Tail(buffer), n)
              /\ buffer' = SubSeq(buffer, n + 2, Len(buffer))
              /\ reader' = "body"
         \/ /\ Used(Tail(buffer)) = {}
            /\ buffer' = Tail(buffer)
            /\ reader' = "failed"
      /\ UNCHANGED <<open, writes, resumes, sent, odd, torn, wire, out, stale>>
  BY DEF ReadHeader, writing
<1>2. /\ buffer \in Seq(Byte) /\ buffer # <<>> /\ Tail(buffer) \in Seq(Byte)
      /\ Len(buffer) \in Nat /\ CanDeserialize(Tail(buffer)) /\ TypeInv'
  BY HeaderRead
<1>3. CallsInv(writes, resumes, sent)'
  BY <1>1 DEF IInv
<1>4. SentInv'
  BY <1>1 DEF IInv, SentInv
<1>5. ClosedInv'
  BY <1>1 DEF IInv, ClosedInv
<1>6. ReadInv'
  <2>1. SUFFICES ASSUME open, ~stale, ~torn PROVE ReaderIs' /\ (reader' # "failed" => StreamIs')
    BY <1>1 DEF ReadInv
  <2>2. ReaderIs /\ StreamIs
    BY <1>1, <2>1 DEF IInv, ReadInv
  <2>3. PICK b, r \in Seq(Byte) : b = buffer /\ r = Rest
    BY <1>2, PartsAreBytes
  <2>4. Cat(InHand, Cat(buffer, Rest)) = Cat(b, r) /\ Cat(b, r) \in Seq(Byte)
    <3>1. Cat(b, r) \in Seq(Byte)
      BY CatType
    <3>2. Cat(<<>>, Cat(b, r)) = Cat(b, r)
      BY <3>1, CatEmpty
    <3>3. QED BY <1>1, <2>3, <3>1, <3>2 DEF InHand
  <2>5. PICK k \in Nat : k = Len(out) /\ k <= Len(sent)
    BY <2>2, Lengths DEF ReaderIs
  <2>6. Len(sent) \in Nat
    BY Lengths
  <2>7. CASE k < Len(sent)
    <3>1. sent[k + 1] \in Packets /\ \E v \in Seq(Byte) : Cat(b, r) = Cat(Encode(sent[k + 1]), v)
      BY <2>2, <2>4, <2>5, <2>7, NextPacket
    <3>2. PICK p \in Packets : p = sent[k + 1]
      BY <3>1
    <3>3. PICK v \in Seq(Byte) : Cat(b, r) = Cat(Encode(p), v)
      BY <3>1, <3>2
    <3>4. PICK d : d = Digits[Len(Body(p))]
      OBVIOUS
    <3>5. b # <<>> /\ CanDeserialize(Tail(b))
      BY <1>2, <2>3
    <3>6. /\ b[1] = p.first /\ Used(Tail(b)) = {Len(d)} /\ Value(Tail(b), Len(d)) = Len(Body(p))
          /\ SubSeq(b, Len(d) + 2, Len(b)) \in Seq(Byte)
          /\ b = Cat(Cat(<<p.first>>, d), SubSeq(b, Len(d) + 2, Len(b)))
      BY <3>3, <3>4, <3>5, HeaderMoves
    <3>7. /\ first' = p.first /\ remaining' = Len(Body(p)) /\ reader' = "body"
          /\ buffer' = SubSeq(b, Len(d) + 2, Len(b))
      BY <1>1, <2>3, <3>6
    <3>8. /\ InHand' = Cat(<<p.first>>, d) /\ b = Cat(InHand', buffer')
          /\ InHand' \in Seq(Byte) /\ buffer' \in Seq(Byte)
      <4>1. InHand' = Cat(<<p.first>>, d)
        BY <3>4, <3>7 DEF InHand
      <4>2. QED BY <3>4, <3>6, <3>7, <4>1, PacketBytes
    <3>9. Rest' = r
      BY <1>1, <2>3 DEF Rest
    <3>10. Cat(InHand', Cat(buffer', Rest')) = Cat(b, r)
      <4>1. PICK h, c \in Seq(Byte) : h = InHand' /\ c = buffer'
        BY <3>8
      <4>2. b = Cat(h, c)
        BY <3>8, <4>1
      <4>3. Cat(Cat(h, c), r) = Cat(h, Cat(c, r))
        BY CatAssociative
      <4>4. QED BY <3>9, <4>1, <4>2, <4>3
    <3>11. StreamIs'
      <4>1. Ending' = Ending
        BY <1>1 DEF Ending
      <4>2. QED BY <1>1, <2>2, <2>4, <3>10, <4>1 DEF StreamIs
    <3>12. ReaderIs'
      BY <1>1, <2>2, <2>5, <2>7, <3>2, <3>7 DEF ReaderIs
    <3>13. QED BY <3>11, <3>12
  <2>8. CASE k = Len(sent)
    <3>1. Cat(b, r) = Ending
      BY <2>2, <2>4, <2>5, <2>8, NoPacket
    <3>2. odd /\ Ending = Endless
      <4>1. Ending # <<>>
        <5>1. SUFFICES ASSUME Cat(b, r) = <<>> PROVE FALSE
          BY <3>1
        <5>2. b = <<>>
          BY <5>1, CatNothing
        <5>3. QED BY <1>2, <2>3, <5>2
      <4>2. QED BY <4>1 DEF Ending
    <3>3. Cat(b, r) = Cat(<<0>>, Highs)
      BY <3>1, <3>2 DEF Endless
    <3>4. Tail(b) \in Seq(Byte) /\ Cat(Tail(b), r) = Highs
      BY <1>2, <2>3, <3>3, EndlessType, TailGoesOn
    <3>5. Used(Tail(b)) = {}
      BY <3>4, EndlessUses
    <3>6. reader' = "failed"
      BY <1>1, <2>3, <3>5
    <3>7. ReaderIs'
      BY <1>1, <2>2, <3>2, <3>6 DEF ReaderIs
    <3>8. QED BY <3>6, <3>7
  <2>9. QED BY <2>5, <2>6, <2>7, <2>8
<1>7. QED BY <1>2, <1>3, <1>4, <1>5, <1>6 DEF IInv
-----------------------------------------------------------------------------
(* The actions: reading a body *)

\* What comes out goes after what came out before.
LEMMA GrowingSeq ==
    ASSUME NEW s, s \in Seq(ToSet(s)), NEW x
    PROVE  /\ Append(s, x) \in Seq(ToSet(Append(s, x))) /\ Len(s) \in Nat
           /\ Len(Append(s, x)) = Len(s) + 1 /\ Append(s, x)[Len(s) + 1] = x
           /\ \A i \in 1 .. Len(s) : Append(s, x)[i] = s[i]
<1>1. PICK T : T = ToSet(s)
  OBVIOUS
<1>2. PICK U : U = T \cup {x}
  OBVIOUS
<1>3. s \in Seq(U) /\ x \in U
  <2>1. T \subseteq U /\ s \in Seq(T)
    BY <1>1, <1>2
  <2>2. s \in Seq(U)
    BY ONLY <2>1, SeqMonotonic
  <2>3. QED BY <1>2, <2>2
<1>4. Append(s, x) \in Seq(U) /\ ToSet(Append(s, x)) = ToSet(s) \cup {x}
  BY <1>3, ToSetProperties
<1>5. QED BY <1>1, <1>2, <1>3, <1>4, OneMore

\* A packet out of hand and buffer.
LEMMA ReadOn ==
    ASSUME NEW S, NEW a \in Seq(S), NEW h \in Seq(S), NEW c \in Seq(S), NEW b \in Seq(S),
           NEW r \in Seq(S)
    PROVE  Cat(Cat(a, Cat(h, c)), Cat(b, r)) = Cat(a, Cat(h, Cat(Cat(c, b), r)))
<1>1. PICK t \in Seq(S) : t = Cat(b, r)
  BY CatType
<1>2. Cat(Cat(c, b), r) = Cat(c, t)
  BY <1>1, CatAssociative
<1>3. PICK m \in Seq(S) : m = Cat(h, c)
  BY CatType
<1>4. Cat(h, Cat(c, t)) = Cat(m, t)
  BY <1>3, CatAssociative
<1>5. Cat(Cat(a, m), t) = Cat(a, Cat(m, t))
  BY CatAssociative
<1>6. QED BY <1>1, <1>2, <1>3, <1>4, <1>5

\* What reading a body does: it comes out, or the reader fails.
ComesOut ==
    LET kinds == IF first \in KnownTypes THEN Layouts[first] ELSE <<>>
        body == Deserialize(kinds, SubSeq(buffer, 1, remaining)) IN
    /\ first \in KnownTypes /\ ~body.throws
    /\ out' = Append(out, [first |-> first, fields |-> body.fields])
    /\ buffer' = SubSeq(buffer, remaining + 1, Len(buffer))
    /\ reader' = "idle"

FailsOn ==
    LET kinds == IF first \in KnownTypes THEN Layouts[first] ELSE <<>>
        body == Deserialize(kinds, SubSeq(buffer, 1, remaining)) IN
    /\ first \notin KnownTypes \/ body.throws
    /\ reader' = "failed"
    /\ buffer' = buffer /\ out' = out

\* A body is read when it is there; the types stay.
LEMMA BodyIsRead ==
    ASSUME IInv, ReadBody
    PROVE  /\ ComesOut \/ FailsOn
           /\ reader = "body" /\ buffer \in Seq(Byte) /\ remaining \in Nat
           /\ Len(buffer) \in Nat /\ remaining <= Len(buffer)
           /\ Len(out) \in Nat /\ out \in Seq(ToSet(out))
           /\ TypeInv'
           /\ UNCHANGED <<open, writes, resumes, sent, odd, torn, wire, first, remaining, stale>>
<1>1. buffer \in Seq(Byte) /\ Len(buffer) \in Nat /\ remaining \in Nat /\ out \in Seq(ToSet(out))
  BY LenProperties DEF IInv, TypeInv
<1>2. ComesOut \/ FailsOn
  BY DEF ReadBody, Consume, ComesOut, FailsOn
<1>3. /\ reader = "body" /\ BodyNeeds = 0
      /\ UNCHANGED <<open, writes, resumes, sent, odd, torn, wire, first, remaining, stale>>
  BY DEF ReadBody, writing
<1>4. remaining <= Len(buffer)
  <2>1. PICK k, m \in Nat : k = Len(buffer) /\ m = remaining
    BY <1>1
  <2>2. k < m => m - k = 0
    BY <1>3, <2>1 DEF BodyNeeds
  <2>3. m <= k
    BY <2>2
  <2>4. QED BY <2>1, <2>3
<1>5. TypeInv'
  <2>1. CASE ComesOut
    <3>1. buffer' \in Seq(Byte)
      <4>1. SubSeq(buffer, remaining + 1, Len(buffer)) \in Seq(Byte)
        BY ONLY <1>1, <1>4, CatCut
      <4>2. QED BY <2>1, <4>1 DEF ComesOut
    <3>2. \E x : out' = Append(out, x)
      BY <2>1 DEF ComesOut
    <3>3. out' \in Seq(ToSet(out'))
      BY <1>1, <3>2, GrowingSeq
    <3>4. reader' = "idle"
      BY <2>1 DEF ComesOut
    <3>5. QED BY <1>3, <3>1, <3>3, <3>4 DEF IInv, TypeInv
  <2>2. CASE FailsOn
    <3>1. buffer' = buffer /\ out' = out /\ reader' = "failed"
      BY <2>2 DEF FailsOn
    <3>2. QED BY <1>3, <3>1 DEF IInv, TypeInv
  <2>3. QED BY <1>2, <2>1, <2>2
<1>6. Len(out) \in Nat
  BY Lengths
<1>7. QED BY <1>1, <1>2, <1>3, <1>4, <1>5, <1>6

\* The packet that comes out is the next one, or one that cannot be understood.
LEMMA ReadBodyInv == IInv /\ ReadBody => IInv'
<1> SUFFICES ASSUME IInv, ReadBody PROVE IInv'
  OBVIOUS
<1>1. /\ ComesOut \/ FailsOn
      /\ reader = "body" /\ buffer \in Seq(Byte) /\ remaining \in Nat
      /\ Len(buffer) \in Nat /\ remaining <= Len(buffer)
      /\ Len(out) \in Nat /\ out \in Seq(ToSet(out))
      /\ TypeInv'
      /\ UNCHANGED <<open, writes, resumes, sent, odd, torn, wire, first, remaining, stale>>
  BY BodyIsRead
<1>2. CallsInv(writes, resumes, sent)'
  BY <1>1 DEF IInv
<1>3. SentInv'
  BY <1>1 DEF IInv, SentInv
<1>4. ClosedInv'
  BY <1>1 DEF IInv, ClosedInv
<1>5. ReadInv'
  <2>1. SUFFICES ASSUME open, ~stale, ~torn PROVE ReaderIs' /\ (reader' # "failed" => StreamIs')
    BY <1>1 DEF ReadInv
  <2>2. ReaderIs /\ StreamIs
    BY <1>1, <2>1 DEF IInv, ReadInv
  <2>3. PICK k \in Nat : k = Len(out) /\ k < Len(sent)
    BY <1>1, <2>2 DEF ReaderIs
  <2>4. Len(sent) \in Nat /\ sent \in Seq(Packets)
    BY Lengths
  <2>5. sent[k + 1] \in Packets /\ \E v \in Seq(Byte) : Cat(InHand, Cat(buffer, Rest)) = Cat(Encode(sent[k + 1]), v)
    BY <2>2, <2>3, NextPacket
  <2>6. PICK p \in Packets : p = sent[k + 1]
    BY <2>5
  <2>7. first = p.first /\ remaining = Len(Body(p))
    BY <1>1, <2>2, <2>3, <2>6 DEF ReaderIs
  <2>8. InHand = Cat(<<p.first>>, Digits[Len(Body(p))]) /\ Encode(p) = Cat(InHand, Body(p)) /\ InHand \in Seq(Byte)
    BY <1>1, <2>7, PacketBytes DEF InHand
  <2>9. PICK b, r \in Seq(Byte) : b = buffer /\ r = Rest
    BY <1>1, PartsAreBytes
  <2>10. PICK v \in Seq(Byte) : Cat(Cat(<<p.first>>, Digits[Len(Body(p))]), Cat(b, r)) = Cat(Encode(p), v)
    BY <2>5, <2>6, <2>8, <2>9
  <2>11. /\ SubSeq(b, 1, Len(Body(p))) = Body(p)
         /\ SubSeq(b, Len(Body(p)) + 1, Len(b)) \in Seq(Byte)
         /\ b = Cat(Body(p), SubSeq(b, Len(Body(p)) + 1, Len(b)))
    <3>1. Len(Body(p)) <= Len(b)
      BY <1>1, <2>7, <2>9
    <3>2. QED BY <2>10, <3>1, BodyMoves
  <2>12. SubSeq(buffer, 1, remaining) = Body(p)
    BY <2>7, <2>9, <2>11
  <2>13. Odd(p) => odd
    <3>1. k + 1 \in 1 .. Len(sent)
      BY <2>3, <2>4
    <3>2. QED BY <2>6, <3>1 DEF IInv, SentInv
  <2>14. CASE ComesOut
    <3>1. PICK x : /\ out' = Append(out, x)
                   /\ x = [first |-> p.first, fields |-> Deserialize(Layouts[p.first], Body(p)).fields]
      BY <2>7, <2>12, <2>14 DEF ComesOut
    <3>2. reader' = "idle" /\ buffer' = SubSeq(b, Len(Body(p)) + 1, Len(b))
      BY <2>7, <2>9, <2>14 DEF ComesOut
    <3>3. x = p \/ Odd(p)
      BY <3>1, PacketTypes, PacketReadsBack
    <3>4. Len(out') = k + 1 /\ out'[k + 1] = x /\ \A i \in 1 .. k : out'[i] = out[i]
      BY <1>1, <2>3, <3>1, GrowingSeq
    <3>5. ReaderIs'
      <4>1. ASSUME NEW i \in 1 .. k + 1 PROVE out'[i] = sent[i] \/ Odd(sent[i])
        <5>1. CASE i = k + 1
          BY <2>6, <3>3, <3>4, <5>1
        <5>2. CASE i \in 1 .. k
          BY <2>2, <2>3, <3>4, <5>2 DEF ReaderIs
        <5>3. QED BY <5>1, <5>2
      <4>2. k + 1 <= Len(sent)
        BY <2>3, <2>4
      <4>3. QED BY <1>1, <3>2, <3>4, <4>1, <4>2 DEF ReaderIs
    <3>6. StreamIs'
      <4>1. /\ EncodeAll(SubSeq(sent, 1, k + 1)) = Cat(EncodeAll(SubSeq(sent, 1, k)), Encode(p))
            /\ SubSeq(sent, 1, k) \in Seq(Packets)
        BY <2>3, <2>4, <2>6, EncodePrefix
      <4>2. PICK a \in Seq(Byte) : a = EncodeAll(SubSeq(sent, 1, k))
        BY <4>1, EncodingsType
      <4>3. PICK h, c, t \in Seq(Byte) : h = InHand /\ c = Body(p) /\ t = buffer'
        BY <2>8, <2>11, <3>2, PacketTypes
      <4>4. b = Cat(c, t) /\ Encode(p) = Cat(h, c)
        BY <2>8, <2>11, <3>2, <4>3
      <4>5. Cat(a, Cat(h, Cat(Cat(c, t), r))) = Cat(EncodeAll(sent), Ending)
        BY <2>2, <2>3, <2>9, <4>2, <4>3, <4>4 DEF StreamIs
      <4>6. Cat(Cat(a, Cat(h, c)), Cat(t, r)) = Cat(EncodeAll(sent), Ending)
        BY <4>5, ReadOn
      <4>7. InHand' = <<>> /\ Rest' = r /\ Ending' = Ending
        BY <1>1, <2>9, <3>2 DEF InHand, Rest, Ending
      <4>8. Cat(<<>>, Cat(t, r)) = Cat(t, r)
        BY CatType, CatEmpty
      <4>9. EncodeAll(SubSeq(sent', 1, Len(out'))) = Cat(a, Cat(h, c))
        BY <1>1, <3>4, <4>1, <4>2, <4>4
      <4>10. QED BY <1>1, <4>3, <4>6, <4>7, <4>8, <4>9 DEF StreamIs
    <3>7. QED BY <3>5, <3>6
  <2>15. CASE FailsOn
    <3>1. reader' = "failed" /\ out' = out
      BY <2>15 DEF FailsOn
    <3>2. Odd(p)
      <4>1. p.first \notin KnownTypes \/ Deserialize(Layouts[p.first], Body(p)).throws
        BY <2>7, <2>12, <2>15 DEF FailsOn
      <4>2. QED BY <4>1, PacketReadsBack
    <3>3. ReaderIs'
      BY <1>1, <2>2, <2>13, <3>1, <3>2 DEF ReaderIs
    <3>4. QED BY <3>1, <3>3
  <2>16. QED BY <1>1, <2>14, <2>15
<1>6. QED BY <1>1, <1>2, <1>3, <1>4, <1>5 DEF IInv
-----------------------------------------------------------------------------
(* The theorems *)

\* The invariant of the stream: types; calls in order; a packet that cannot be
\* understood sent last; nothing under way on a closed socket; and what was read,
\* what is in hand, buffered, on the wire and unwritten is what was sent.  It holds
\* in every state, however write_some and read_some cut the stream.
THEOREM FramingInductive == Spec => []IInv
<1>1. Init => IInv
  BY InitInv
<1>2. IInv /\ [Next]_vars => IInv'
  <2>1. SUFFICES ASSUME IInv, [Next]_vars PROVE IInv'
    OBVIOUS
  <2>2. CASE StartReading
    BY <2>1, <2>2, StartReadingInv
  <2>3. CASE ReadSome
    BY <2>1, <2>3, ReadSomeInv
  <2>4. CASE ReadHeader
    BY <2>1, <2>4, ReadHeaderInv
  <2>5. CASE ReadBody
    BY <2>1, <2>5, ReadBodyInv
  <2>6. CASE \E packet \in Packets : StartWriting(packet)
    BY <2>1, <2>6, StartWritingInv
  <2>7. CASE SendEndlessLength
    BY <2>1, <2>7, SendEndlessInv
  <2>8. CASE WriteSome
    BY <2>1, <2>8, WriteSomeInv
  <2>9. CASE WriteRest
    BY <2>1, <2>9, WriteRestInv
  <2>10. CASE Close
    BY <2>1, <2>10, CloseInv
  <2>11. CASE Reopen
    BY <2>1, <2>11, ReopenInv
  <2>12. CASE UNCHANGED vars
    <3>1. UNCHANGED <<open, writes, resumes, wire, buffer, reader, first, remaining, out, sent, odd, torn, stale>>
      BY <2>12 DEF vars, writing, reading
    <3>2. TypeInv' /\ CallsInv(writes, resumes, sent)' /\ SentInv' /\ ClosedInv'
      BY <2>1, <3>1 DEF IInv, TypeInv, SentInv, ClosedInv
    <3>3. InHand' = InHand /\ Rest' = Rest /\ Ending' = Ending
      BY <3>1 DEF InHand, Rest, Ending
    <3>4. ReaderIs' = ReaderIs /\ StreamIs' = StreamIs
      BY <3>1, <3>3 DEF ReaderIs, StreamIs
    <3>5. ReadInv'
      BY <2>1, <3>1, <3>4 DEF IInv, ReadInv
    <3>6. QED BY <3>2, <3>5 DEF IInv
  <2>13. QED BY <2>1, <2>2, <2>3, <2>4, <2>5, <2>6, <2>7, <2>8, <2>9, <2>10, <2>11, <2>12 DEF Next
<1>3. QED BY <1>1, <1>2, PTL DEF Spec

\* Two sequences that begin alike.
LEMMA SamePrefix ==
    ASSUME NEW S, NEW s \in Seq(S), NEW T, NEW t \in Seq(T), NEW n \in Nat, n <= Len(s), n <= Len(t),
           \A i \in 1 .. n : s[i] = t[i]
    PROVE  SubSeq(s, 1, n) = SubSeq(t, 1, n) /\ IsPrefix(SubSeq(s, 1, n), t)
<1>1. PICK U : U = S \cup T
  OBVIOUS
<1>2. s \in Seq(U) /\ t \in Seq(U)
  <2>1. S \subseteq U /\ T \subseteq U
    BY <1>1
  <2>2. s \in Seq(U)
    BY ONLY <2>1, s \in Seq(S), SeqMonotonic
  <2>3. t \in Seq(U)
    BY ONLY <2>1, t \in Seq(T), SeqMonotonic
  <2>4. QED BY <2>2, <2>3
<1>3. /\ \A i \in 1 .. n : s[i] \in U /\ t[i] \in U
      /\ Len(s) \in Nat /\ Len(t) \in Nat
  <2>1. Len(s) \in Nat /\ Len(t) \in Nat
    BY <1>2, LenProperties
  <2>2. \A i \in 1 .. n : i \in 1 .. Len(s) /\ i \in 1 .. Len(t)
    BY <2>1
  <2>3. QED BY <1>2, <2>1, <2>2, ElementOfSeq
<1>4. PICK a, b : a = SubSeq(s, 1, n) /\ b = SubSeq(t, 1, n)
  OBVIOUS
<1>5. /\ a \in Seq(U) /\ b \in Seq(U) /\ Len(a) = n /\ Len(b) = n
      /\ \A i \in 1 .. n : a[i] = s[i] /\ b[i] = t[i]
  BY <1>2, <1>3, <1>4, SubSeqProperties
<1>6. a = b
  <2>1. Len(a) = Len(b) /\ \A i \in 1 .. Len(a) : a[i] = b[i]
    BY <1>5
  <2>2. QED BY <1>5, <2>1, SeqEqual
<1>7. SubSeq(a, 1, n) = a
  BY <1>5, SubSeqFull
<1>8. IsPrefix(a, t)
  BY <1>4, <1>5, <1>6, <1>7 DEF IsPrefix
<1>9. QED BY <1>4, <1>6, <1>8

\* What was read, as far as it could be understood.
LEMMA ReadIsSent ==
    ASSUME IInv, ReaderIs
    PROVE  /\ (\A i \in 1 .. Len(out) : ~Odd(sent[i])) =>
                out = SubSeq(sent, 1, Len(out)) /\ IsPrefix(out, sent)
           /\ IsPrefix(out, sent) \/ (odd /\ IsPrefix(Front(out), sent))
<1>1. /\ sent \in Seq(Packets) /\ Len(sent) \in Nat /\ Len(out) \in Nat /\ Len(out) <= Len(sent)
      /\ out \in Seq(ToSet(out))
  BY Lengths DEF IInv, TypeInv, ReaderIs
<1>2. ASSUME \A i \in 1 .. Len(out) : ~Odd(sent[i])
      PROVE  out = SubSeq(sent, 1, Len(out)) /\ IsPrefix(out, sent)
  <2>1. \A i \in 1 .. Len(out) : out[i] = sent[i]
    BY <1>2 DEF ReaderIs
  <2>2. Len(out) <= Len(out)
    BY <1>1
  <2>3. SubSeq(out, 1, Len(out)) = SubSeq(sent, 1, Len(out)) /\ IsPrefix(SubSeq(out, 1, Len(out)), sent)
    BY ONLY <1>1, <2>1, <2>2, SamePrefix
  <2>4. SubSeq(out, 1, Len(out)) = out
    BY <1>1, SubSeqFull
  <2>5. QED BY <2>3, <2>4
<1>3. ASSUME NEW i \in 1 .. Len(out), Odd(sent[i])
      PROVE  odd /\ IsPrefix(Front(out), sent)
  <2>1. i \in 1 .. Len(sent)
    BY <1>1, <1>3
  <2>2. odd /\ i = Len(sent)
    BY <1>3, <2>1 DEF IInv, SentInv
  <2>3. PICK n \in Nat : n = Len(out) - 1
    BY <1>1, <1>3
  <2>4. n <= Len(out) /\ n <= Len(sent) /\ Len(out) = Len(sent)
    BY <1>1, <1>3, <2>2, <2>3
  <2>5. ASSUME NEW j \in 1 .. n PROVE out[j] = sent[j]
    <3>1. j \in 1 .. Len(sent) /\ j \in 1 .. Len(out) /\ j # Len(sent)
      BY <1>1, <2>3, <2>4
    <3>2. ~Odd(sent[j])
      BY <3>1 DEF IInv, SentInv
    <3>3. QED BY <3>1, <3>2 DEF ReaderIs
  <2>6. IsPrefix(SubSeq(out, 1, n), sent)
    BY ONLY <1>1, n \in Nat, <2>4, <2>5, SamePrefix
  <2>7. QED BY <2>2, <2>3, <2>6 DEF Front
<1>4. QED BY <1>2, <1>3

\* The module says what is left as the proofs do.
LEMMA LeftIs == ASSUME NEW w PROVE Left(w) = LeftOf(writes, resumes, w)
BY DEF Left, LeftOf, PartsOf, Cat

\* And what is unwritten.
LEMMA UnwrittenIs ==
    ASSUME IInv
    PROVE  Unwritten = UnwrittenOf(writes, resumes, Len(sent))
<1>1. DOMAIN sent = 1 .. Len(sent)
  BY Lengths, LenProperties
<1>2. [w \in DOMAIN sent |-> Left(w)] = LeftsOf(writes, resumes, Len(sent))
  BY <1>1, LeftIs DEF LeftsOf
<1>3. QED BY <1>2 DEF Unwritten, UnwrittenOf

\* Five parts, put together from either end.
LEMMA FromTheRight ==
    ASSUME NEW S, NEW a \in Seq(S), NEW h \in Seq(S), NEW b \in Seq(S), NEW w \in Seq(S), NEW u \in Seq(S)
    PROVE  Cat(Cat(Cat(Cat(a, h), b), w), u) = Cat(a, Cat(h, Cat(b, Cat(w, u))))
<1>1. PICK t \in Seq(S) : t = Cat(w, u)
  BY CatType
<1>2. PICK z \in Seq(S) : z = Cat(b, t)
  BY CatType
<1>3. PICK x \in Seq(S) : x = Cat(a, h)
  BY CatType
<1>4. PICK y \in Seq(S) : y = Cat(x, b)
  BY CatType
<1>5. Cat(a, Cat(h, z)) = Cat(x, z)
  BY <1>3, CatAssociative
<1>6. Cat(x, z) = Cat(y, t)
  BY <1>2, <1>4, CatAssociative
<1>7. Cat(y, t) = Cat(Cat(y, w), u)
  BY <1>1, CatAssociative
<1>8. QED BY <1>1, <1>2, <1>3, <1>4, <1>5, <1>6, <1>7

\* NoByteLost: on a connection with a buffer that was empty at first and no packet
\* torn, connection's reader and its writers lose, repeat and misplace no byte.
THEOREM BytesCorrect == Spec => []NoByteLost
<1>1. IInv => NoByteLost
  <2>1. SUFFICES ASSUME IInv, open, ~odd, ~stale, ~torn
                 PROVE  EncodeAll(out) \o HeaderInHand \o buffer \o wire \o Unwritten = EncodeAll(sent)
    BY DEF NoByteLost
  <2>2. ReaderIs /\ StreamIs
    BY <2>1 DEF IInv, ReadInv, ReaderIs
  <2>3. Len(out) \in Nat /\ Len(sent) \in Nat /\ Len(out) <= Len(sent)
    BY <2>1, <2>2, Lengths DEF ReaderIs
  <2>4. \A i \in 1 .. Len(out) : ~Odd(sent[i])
    <3>1. \A i \in 1 .. Len(out) : i \in 1 .. Len(sent)
      BY <2>3
    <3>2. QED BY <2>1, <3>1 DEF IInv, SentInv
  <2>5. out = SubSeq(sent, 1, Len(out))
    BY <2>1, <2>2, <2>4, ReadIsSent
  <2>6. Ending = <<>>
    BY <2>1 DEF Ending
  <2>7. HeaderInHand = InHand
    BY DEF HeaderInHand, InHand, Cat
  <2>8. PICK a, h, b, w, u, e \in Seq(Byte) :
          /\ a = EncodeAll(SubSeq(sent, 1, Len(out))) /\ h = InHand /\ b = buffer /\ w = wire
          /\ u = UnwrittenOf(writes, resumes, Len(sent)) /\ e = EncodeAll(sent)
    <3>1. buffer \in Seq(Byte) /\ wire \in Seq(Byte)
      BY <2>1 DEF IInv, TypeInv
    <3>2. QED BY <2>1, <2>3, <3>1, PartsAreBytes
  <2>9. Cat(a, Cat(h, Cat(b, Cat(w, u)))) = Cat(e, <<>>)
    BY <2>2, <2>6, <2>8 DEF StreamIs, Rest
  <2>10. Cat(e, <<>>) = e
    BY CatEmpty
  <2>11. a \o h \o b \o w \o u = e
    <3>1. a \in Seq(Byte) /\ h \in Seq(Byte) /\ b \in Seq(Byte) /\ w \in Seq(Byte) /\ u \in Seq(Byte)
      OBVIOUS
    <3>2. Cat(Cat(Cat(Cat(a, h), b), w), u) = Cat(a, Cat(h, Cat(b, Cat(w, u))))
      BY ONLY <3>1, FromTheRight
    <3>3. a \o h \o b \o w \o u = Cat(Cat(Cat(Cat(a, h), b), w), u)
      BY DEF Cat
    <3>4. QED BY <2>9, <2>10, <3>2, <3>3
  <2>12. EncodeAll(out) = a
    BY <2>5, <2>8
  <2>13. QED BY <2>1, <2>7, <2>8, <2>11, <2>12, UnwrittenIs
<1>2. QED BY <1>1, FramingInductive, PTL

\* A whole packet in the buffer is more than a header needs.
LEMMA WholeIsEnough ==
    ASSUME NEW p \in Packets, NEW v \in Seq(Byte), NEW b \in Seq(Byte), b = Cat(Encode(p), v)
    PROVE  Len(b) \in Nat /\ Len(b) >= 2 /\ CanDeserialize(Tail(b))
<1>1. PICK f \in Byte, c \in Seq(Byte) : f = p.first /\ c = Body(p)
  BY PacketTypes
<1>2. PICK d \in Seq(Byte) : d = Digits[Len(Body(p))]
  BY PacketBytes
<1>3. Ends(d) /\ Len(d) <= MaxDigits /\ Encode(p) = Cat(<<f>>, Cat(d, c)) /\ <<f>> \in Seq(Byte)
  BY <1>1, <1>2, PacketBytes
<1>4. PICK e \in Seq(Byte) : e = Cat(c, v)
  BY CatType
<1>5. PICK t \in Seq(Byte) : t = Cat(d, e)
  BY CatType
<1>6. b = Cat(<<f>>, t)
  <2>1. PICK a \in Seq(Byte) : a = <<f>>
    BY <1>3
  <2>2. PICK m \in Seq(Byte) : m = Cat(d, c)
    BY CatType
  <2>3. Cat(Cat(a, m), v) = Cat(a, Cat(m, v))
    BY CatAssociative
  <2>4. Cat(Cat(d, c), v) = Cat(d, Cat(c, v))
    BY CatAssociative
  <2>5. QED BY <1>3, <1>4, <1>5, <2>1, <2>2, <2>3, <2>4
<1>7. Len(b) = Len(t) + 1 /\ Len(t) \in Nat
  BY <1>6, CatFirst
<1>8. Len(t) = Len(d) + Len(e) /\ Len(d) \in Nat /\ Len(e) \in Nat
  BY <1>5, CatLen
<1>9. Len(d) >= 1
  BY <1>3, <1>8 DEF Ends
<1>10. b # <<>>
  BY <1>7, Len(<<>>) = 0
<1>11. Tail(b) = t
  <2>1. <<>> \in Seq(Byte) /\ Cat(b, <<>>) = b
    BY EmptySeq, CatEmpty
  <2>2. Cat(b, <<>>) = Cat(<<f>>, t)
    BY <1>6, <2>1
  <2>3. Tail(b) \in Seq(Byte) /\ Cat(Tail(b), <<>>) = t
    <3>1. b \in Seq(Byte) /\ t \in Seq(Byte) /\ f \in Byte
      OBVIOUS
    <3>2. PICK r : r = <<>>
      OBVIOUS
    <3>3. r \in Seq(Byte) /\ Cat(b, r) = Cat(<<f>>, t)
      BY <2>1, <2>2, <3>2
    <3>4. Tail(b) \in Seq(Byte) /\ Cat(Tail(b), r) = t
      BY ONLY <1>10, <3>1, <3>3, TailGoesOn
    <3>5. QED BY <3>2, <3>4
  <2>4. QED BY <2>3, CatEmpty
<1>12. CanDeserialize(t)
  <2>1. Ends(d) /\ Len(d) <= MaxDigits /\ e \in Seq(Byte)
    BY <1>3
  <2>2. CanDeserialize(Cat(d, e)) /\ Used(Cat(d, e)) = {Len(d)}
    BY <2>1, LengthIsThere
  <2>3. QED BY <1>5, <2>2
<1>13. Len(b) \in Nat /\ Len(b) >= 2
  BY ONLY <1>7, <1>8, <1>9
<1>14. CanDeserialize(Tail(b))
  BY ONLY <1>11, <1>12
<1>15. QED BY <1>13, <1>14

\* NothingHeldBack: the reader, header::inplace_deserializer and then
\* control_packet::inplace_deserializer, does not wait while a whole packet is there,
\* gives up on nothing that could be understood, and packets come out as sent.
THEOREM NothingHeldBackCorrect == Spec => []NothingHeldBack
<1>1. IInv => NothingHeldBack
  <2>1. SUFFICES ASSUME IInv, open, ~stale, ~torn
                 PROVE  /\ wire = <<>> /\ Unwritten = <<>> /\ Waiting /\ ~odd => out = sent /\ buffer = <<>>
                        /\ reader = "failed" => odd
                        /\ IsPrefix(out, sent) \/ (odd /\ IsPrefix(Front(out), sent))
    BY DEF NothingHeldBack
  <2>2. ReaderIs /\ (reader # "failed" => StreamIs)
    BY <2>1 DEF IInv, ReadInv
  <2>3. reader = "failed" => odd
    BY <2>2 DEF ReaderIs
  <2>4. IsPrefix(out, sent) \/ (odd /\ IsPrefix(Front(out), sent))
    BY <2>1, <2>2, ReadIsSent
  <2>5. ASSUME wire = <<>>, Unwritten = <<>>, Waiting, ~odd PROVE out = sent /\ buffer = <<>>
    <3>1. /\ sent \in Seq(Packets) /\ Len(sent) \in Nat /\ Len(out) \in Nat /\ Len(out) <= Len(sent)
          /\ buffer \in Seq(Byte) /\ Len(buffer) \in Nat /\ remaining \in Nat
      BY <2>1, <2>2, Lengths, LenProperties DEF ReaderIs, IInv, TypeInv
    <3>2. reader \in {"header", "body"} /\ StreamIs
      BY <2>2, <2>5 DEF Waiting, Needs
    <3>3. Rest = <<>>
      <4>1. UnwrittenOf(writes, resumes, Len(sent)) = <<>>
        BY <2>1, <2>5, UnwrittenIs
      <4>2. Cat(<<>>, <<>>) = <<>>
        BY EmptySeq, CatEmpty
      <4>3. QED BY <2>5, <4>1, <4>2 DEF Rest
    <3>4. Cat(buffer, Rest) = buffer
      BY <3>1, <3>3, CatEmpty
    <3>5. Ending = <<>>
      BY <2>5 DEF Ending
    <3>6. PICK k \in Nat : k = Len(out)
      BY <3>1
    <3>7. CASE k < Len(sent)
      <4>1. sent[k + 1] \in Packets /\ \E v \in Seq(Byte) : Cat(InHand, buffer) = Cat(Encode(sent[k + 1]), v)
        BY <2>1, <3>2, <3>4, <3>6, <3>7, NextPacket
      <4>2. PICK p \in Packets : p = sent[k + 1]
        BY <4>1
      <4>3. PICK v \in Seq(Byte) : Cat(InHand, buffer) = Cat(Encode(p), v)
        BY <4>1, <4>2
      <4>4. CASE reader = "header"
        <5>1. InHand = <<>>
          BY <4>4 DEF InHand
        <5>2. buffer = Cat(Encode(p), v)
          BY <3>1, <4>3, <5>1, CatEmpty
        <5>3. Len(buffer) >= 2 /\ CanDeserialize(Tail(buffer))
          BY <3>1, <5>2, WholeIsEnough
        <5>4. HeaderNeeds = 0
          BY <3>1, <5>3 DEF HeaderNeeds
        <5>5. QED BY <2>5, <4>4, <5>4 DEF Waiting, Needs
      <4>5. CASE reader = "body"
        <5>1. first = p.first /\ remaining = Len(Body(p))
          BY <2>2, <3>6, <4>2, <4>5 DEF ReaderIs
        <5>2. InHand = Cat(<<p.first>>, Digits[Len(Body(p))])
          BY <4>5, <5>1 DEF InHand
        <5>3. PICK b \in Seq(Byte) : b = buffer
          BY <3>1
        <5>4. <<>> \in Seq(Byte) /\ Cat(b, <<>>) = b
          BY EmptySeq, CatEmpty
        <5>5. Cat(Cat(<<p.first>>, Digits[Len(Body(p))]), Cat(b, <<>>)) = Cat(Encode(p), v)
          BY <4>3, <5>2, <5>3, <5>4
        <5>6. Cat(b, <<>>) = Cat(Body(p), v)
          <6>1. p \in Packets /\ b \in Seq(Byte) /\ v \in Seq(Byte) /\ <<>> \in Seq(Byte)
            BY <5>4
          <6>2. PICK r : r = <<>>
            OBVIOUS
          <6>3. r \in Seq(Byte) /\ Cat(Cat(<<p.first>>, Digits[Len(Body(p))]), Cat(b, r)) = Cat(Encode(p), v)
            BY <5>5, <6>1, <6>2
          <6>4. Cat(b, r) = Cat(Body(p), v)
            BY ONLY <6>1, <6>3, BodyMoves
          <6>5. QED BY <6>2, <6>4
        <5>7. Len(b) = Len(Body(p)) + Len(v) /\ Len(Body(p)) \in Nat /\ Len(v) \in Nat
          BY <5>4, <5>6, PacketTypes, CatLen
        <5>8. BodyNeeds = 0
          BY <3>1, <5>1, <5>3, <5>7 DEF BodyNeeds
        <5>9. QED BY <2>5, <4>5, <5>8 DEF Waiting, Needs
      <4>6. QED BY <3>2, <4>4, <4>5
    <3>8. CASE k = Len(sent)
      <4>1. reader = "header"
        BY <2>2, <3>1, <3>2, <3>6, <3>8 DEF ReaderIs
      <4>2. InHand = <<>>
        BY <4>1 DEF InHand
      <4>3. Cat(InHand, buffer) = Ending
        BY <2>1, <3>2, <3>4, <3>6, <3>8, NoPacket
      <4>4. buffer = <<>>
        BY <3>1, <3>5, <4>2, <4>3, CatEmpty
      <4>5. \A i \in 1 .. Len(out) : ~Odd(sent[i])
        BY <2>1, <2>5, <3>6, <3>8 DEF IInv, SentInv
      <4>6. out = SubSeq(sent, 1, Len(out))
        BY <2>1, <2>2, <4>5, ReadIsSent
      <4>7. SubSeq(sent, 1, Len(sent)) = sent
        BY <3>1, SubSeqFull
      <4>8. QED BY <3>6, <3>8, <4>4, <4>6, <4>7
    <3>9. QED BY <3>1, <3>6, <3>7, <3>8
  <2>6. QED BY <2>3, <2>4, <2>5
<1>2. QED BY <1>1, FramingInductive, PTL
=============================================================================
