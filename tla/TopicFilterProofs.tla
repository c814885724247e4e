------------------------- MODULE TopicFilterProofs -------------------------
(***************************************************************************)
(* Proofs about TopicFilter, for texts of any length over any letters.     *)
(*                                                                         *)
(* Both folds of the module, Parse over the characters of a text and Text  *)
(* over its levels, are unrolled: a function of the number of steps is     *)
(* shown to exist, by induction over the natural numbers, and the fold is  *)
(* its last value.  What one character more does to a text follows, and    *)
(* the rest is an invariant of a text that grows.                          *)
(***************************************************************************)
EXTENDS TopicFilter, SequenceLemmas, WellFoundedInduction, TLAPS

-----------------------------------------------------------------------------
(* Parsing, character by character *)

\* The function that the fold over a text defines.
FoldsOver(text, n, F) ==
    F = [T \in SUBSET (1 .. n) |->
            IF T = {} THEN << <<>> >> ELSE Split(F[T \ {Max(T)}], text[Max(T)])]

LEMMA FoldExists == \A text : \A n \in Nat : \E F : FoldsOver(text, n, F)
<1> SUFFICES ASSUME NEW text PROVE \A n \in Nat : \E F : FoldsOver(text, n, F)
  OBVIOUS
<1> DEFINE S == {n \in Nat : \E F : FoldsOver(text, n, F)}
<1>1. 0 \in S
  <2> DEFINE F == [T \in SUBSET (1 .. 0) |-> << <<>> >>]
  <2>1. FoldsOver(text, 0, F)
    BY DEF FoldsOver
  <2>2. QED BY <2>1
<1>2. ASSUME NEW n \in Nat, n \in S PROVE n + 1 \in S
  <2>1. PICK F : FoldsOver(text, n, F)
    BY <1>2
  <2> DEFINE H(T) == IF n + 1 \in T THEN Split(F[T \ {n + 1}], text[n + 1]) ELSE F[T]
             G == [T \in SUBSET (1 .. n + 1) |-> H(T)]
             Next1(T) == IF T = {} THEN << <<>> >> ELSE Split(G[T \ {Max(T)}], text[Max(T)])
  <2>2. \A T \in SUBSET (1 .. n + 1) : n + 1 \notin T => T \in SUBSET (1 .. n)
    OBVIOUS
  <2>3. \A T \in SUBSET (1 .. n) : n + 1 \notin T /\ T \in SUBSET (1 .. n + 1) /\ G[T] = F[T]
    OBVIOUS
  <2>4. \A T \in SUBSET (1 .. n) :
          F[T] = IF T = {} THEN << <<>> >> ELSE Split(F[T \ {Max(T)}], text[Max(T)])
    BY <2>1 DEF FoldsOver
  <2>5. ASSUME NEW T \in SUBSET (1 .. n + 1) PROVE H(T) = Next1(T)
    <3>1. CASE n + 1 \in T
      <4>1. Max(T) = n + 1 /\ T # {}
        BY <3>1, TopOf
      <4>2. T \ {n + 1} \in SUBSET (1 .. n)
        OBVIOUS
      <4>3. G[T \ {n + 1}] = F[T \ {n + 1}]
        BY <2>3, <4>2
      <4> HIDE DEF G
      <4>4. QED BY <3>1, <4>1, <4>3
    <3>2. CASE n + 1 \notin T
      <4>1. T \in SUBSET (1 .. n) /\ T \ {Max(T)} \in SUBSET (1 .. n)
        BY <2>2, <3>2
      <4>2. G[T \ {Max(T)}] = F[T \ {Max(T)}]
        BY <2>3, <4>1
      <4> HIDE DEF G
      <4>3. QED BY <2>4, <3>2, <4>1, <4>2
    <3>3. QED BY <3>1, <3>2
  <2>6. G = [T \in SUBSET (1 .. n + 1) |-> Next1(T)]
    <3> HIDE DEF H, Next1
    <3>1. QED BY <2>5
  <2>7. FoldsOver(text, n + 1, G)
    <3> HIDE DEF G
    <3>1. QED BY <2>6 DEF FoldsOver
  <2>8. QED BY <2>7
<1>3. Nat \subseteq S
  <2> HIDE DEF S
  <2>1. QED BY <1>1, <1>2, SetInduction
<1>4. QED BY <1>3

\* What is parsed of a text after each of its characters.
Reads(h, text) ==
    /\ h[0] = << <<>> >>
    /\ \A i \in 1 .. Len(text) : h[i] = Split(h[i - 1], text[i])

LEMMA Reading ==
    ASSUME NEW S, NEW text \in Seq(S)
    PROVE  \E h : Reads(h, text) /\ FoldLeft(Split, << <<>> >>, text) = h[Len(text)]
<1>1. DOMAIN text = 1 .. Len(text) /\ Len(text) \in Nat
  BY LenProperties
<1>2. PICK F : FoldsOver(text, Len(text), F)
  BY <1>1, FoldExists
<1> DEFINE G == CHOOSE F1 : FoldsOver(text, Len(text), F1)
<1>3. FoldsOver(text, Len(text), G)
  BY <1>2
<1>4. FoldLeft(Split, << <<>> >>, text) = G[1 .. Len(text)]
  <2> DEFINE Eq(F1) == F1 = [T \in SUBSET DOMAIN text |->
                IF T = {} THEN << <<>> >> ELSE Split(F1[T \ {Max(T)}], text[Max(T)])]
  <2>1. FoldLeft(Split, << <<>> >>, text) = (CHOOSE F1 : Eq(F1))[DOMAIN text]
    BY DEF FoldLeft, MapThenFoldSet
  <2>2. \A F1 : Eq(F1) <=> FoldsOver(text, Len(text), F1)
    BY <1>1 DEF FoldsOver
  <2>3. (CHOOSE F1 : Eq(F1)) = G
    <3> HIDE DEF Eq
    <3>1. QED BY <2>2
  <2>4. QED BY <1>1, <2>1, <2>3
<1> HIDE DEF G
<1> DEFINE h == [i \in 0 .. Len(text) |-> G[1 .. i]]
<1>5. \A T \in SUBSET (1 .. Len(text)) :
        G[T] = IF T = {} THEN << <<>> >> ELSE Split(G[T \ {Max(T)}], text[Max(T)])
  BY <1>3 DEF FoldsOver
<1>6. h[0] = << <<>> >>
  <2>1. 0 \in 0 .. Len(text) /\ 1 .. 0 = {} /\ {} \in SUBSET (1 .. Len(text))
    BY <1>1
  <2>2. QED BY <1>5, <2>1
<1>7. ASSUME NEW i \in 1 .. Len(text) PROVE h[i] = Split(h[i - 1], text[i])
  <2>1. /\ i \in 0 .. Len(text) /\ i - 1 \in 0 .. Len(text) /\ i - 1 \in Nat /\ i = (i - 1) + 1
        /\ 1 .. i \in SUBSET (1 .. Len(text)) /\ i \in 1 .. i /\ 1 .. i # {}
        /\ (1 .. i) \ {i} = 1 .. i - 1
    <3>1. i \in Nat /\ i <= Len(text) /\ 1 <= i
      BY <1>1
    <3>2. \A x \in 1 .. i : x \in 1 .. Len(text)
      BY <1>1, <3>1
    <3>3. \A x : x \in (1 .. i) \ {i} <=> x \in 1 .. i - 1
      BY <3>1
    <3>4. (1 .. i) \ {i} = 1 .. i - 1 /\ 1 .. i \in SUBSET (1 .. Len(text))
      BY <3>2, <3>3
    <3>5. i \in 1 .. i
      BY <3>1
    <3>6. /\ i \in 0 .. Len(text) /\ i - 1 \in 0 .. Len(text) /\ i - 1 \in Nat /\ i = (i - 1) + 1
      BY <1>1, <3>1
    <3>7. 1 .. i # {}
      BY <3>5
    <3>8. QED BY ONLY <3>4, <3>5, <3>6, <3>7
  <2>2. Max(1 .. i) = i
    BY <2>1, TopOf
  <2>3. G[1 .. i] = Split(G[1 .. i - 1], text[i])
    BY <1>5, <2>1, <2>2
  <2>4. QED BY <2>1, <2>3
<1>8. h[Len(text)] = G[1 .. Len(text)]
  BY <1>1
<1>9. QED BY <1>4, <1>6, <1>7, <1>8 DEF Reads

\* Two texts that begin alike are parsed alike so far.
LEMMA ReadsAlike ==
    ASSUME NEW S, NEW s \in Seq(S), NEW t \in Seq(S), NEW g, NEW h, Reads(g, s), Reads(h, t),
           Len(s) <= Len(t), \A i \in 1 .. Len(s) : s[i] = t[i]
    PROVE  g[Len(s)] = h[Len(s)]
<1>1. Len(s) \in Nat /\ Len(t) \in Nat
  BY LenProperties
<1> DEFINE K == {k \in Nat : k <= Len(s) => g[k] = h[k]}
<1>2. 0 \in K
  BY DEF Reads
<1>3. ASSUME NEW k \in Nat, k \in K PROVE k + 1 \in K
  <2>1. SUFFICES ASSUME k + 1 <= Len(s) PROVE g[k + 1] = h[k + 1]
    OBVIOUS
  <2>2. k + 1 \in 1 .. Len(s) /\ k + 1 \in 1 .. Len(t) /\ k + 1 - 1 = k /\ k <= Len(s)
    BY <1>1, <2>1
  <2>3. g[k + 1] = Split(g[k + 1 - 1], s[k + 1]) /\ h[k + 1] = Split(h[k + 1 - 1], t[k + 1])
    BY <2>2 DEF Reads
  <2>4. QED BY <1>3, <2>2, <2>3
<1>4. Nat \subseteq K
  <2> HIDE DEF K
  <2>1. QED BY <1>2, <1>3, SetInduction
<1>5. QED BY <1>1, <1>4

\* What one character more does.
LEMMA ParseAppend ==
    ASSUME NEW S, NEW text \in Seq(S), NEW ch \in S
    PROVE  Parse(Append(text, ch)) = Split(IF text = <<>> THEN << <<>> >> ELSE Parse(text), ch)
<1> DEFINE t == Append(text, ch)
<1>1. /\ t \in Seq(S) /\ t # <<>> /\ Len(t) = Len(text) + 1 /\ t[Len(text) + 1] = ch
      /\ Len(text) \in Nat /\ \A i \in 1 .. Len(text) : text[i] = t[i]
  BY AppendProperties, LenProperties
<1> HIDE DEF t
<1>2. PICK g : Reads(g, text) /\ FoldLeft(Split, << <<>> >>, text) = g[Len(text)]
  BY Reading
<1>3. PICK h : Reads(h, t) /\ FoldLeft(Split, << <<>> >>, t) = h[Len(t)]
  BY <1>1, Reading
<1>4. Parse(t) = h[Len(text) + 1]
  BY <1>1, <1>3 DEF Parse
<1>5. h[Len(text) + 1] = Split(h[Len(text)], ch)
  <2>1. Len(text) + 1 \in 1 .. Len(t) /\ Len(text) + 1 - 1 = Len(text)
    BY <1>1
  <2>2. h[Len(text) + 1] = Split(h[Len(text) + 1 - 1], t[Len(text) + 1])
    BY <1>3, <2>1 DEF Reads
  <2>3. QED BY <1>1, <2>1, <2>2
<1>6. g[Len(text)] = h[Len(text)]
  BY <1>1, <1>2, <1>3, ReadsAlike
<1>7. CASE text = <<>>
  <2>1. Len(text) = 0 /\ g[0] = << <<>> >>
    BY <1>2, <1>7, EmptySeq DEF Reads
  <2>2. QED BY <1>4, <1>5, <1>6, <1>7, <2>1 DEF t
<1>8. CASE text # <<>>
  <2>1. Parse(text) = g[Len(text)]
    BY <1>2, <1>8 DEF Parse
  <2>2. QED BY <1>4, <1>5, <1>6, <1>8, <2>1 DEF t
<1>9. QED BY <1>7, <1>8
-----------------------------------------------------------------------------
(* Printing, level by level *)

Line == Seq(FilterChars)

\* The text after each of its pieces.
Then(a, b) == a \o b
Prints(g, s) ==
    /\ g[1] = s[1]
    /\ \A i \in 2 .. Len(s) : g[i] = Then(g[i - 1], s[i])

LEMMA Printing ==
    ASSUME NEW s \in Seq(Line), s # <<>>
    PROVE  \E g : /\ Prints(g, s) /\ FlattenSeq(s) = g[Len(s)]
                 /\ \A i \in 1 .. Len(s) : g[i] \in Line
<1>1. Len(s) \in Nat /\ Len(s) # 0 /\ \A i \in 1 .. Len(s) : s[i] \in Line
  BY LenProperties, EmptySeq, ElementOfSeq
<1> DEFINE G == CHOOSE F : FlattensTo(s, Len(s), F)
<1>2. FlattensTo(s, Len(s), G)
  BY <1>1, FlatExists
<1>3. FlattenSeq(s) = G[Len(s)]
  BY <1>1 DEF FlattenSeq, FlattensTo
<1> HIDE DEF G
<1>4. \A i \in 1 .. Len(s) : G[i] = IF i = 1 THEN s[i] ELSE Then(G[i - 1], s[i])
  BY <1>2 DEF FlattensTo, Then
<1>5. 1 \in 1 .. Len(s) /\ \A i \in 2 .. Len(s) : i \in 1 .. Len(s) /\ i # 1
  BY <1>1
<1>6. Prints(G, s)
  BY <1>4, <1>5 DEF Prints
<1> DEFINE K == {k \in Nat : k + 1 <= Len(s) => G[k + 1] \in Line}
<1>7. 0 \in K
  BY <1>1, <1>4, <1>5
<1>8. ASSUME NEW k \in Nat, k \in K PROVE k + 1 \in K
  <2>1. SUFFICES ASSUME k + 1 + 1 <= Len(s) PROVE G[k + 1 + 1] \in Line
    OBVIOUS
  <2>2. k + 1 + 1 \in 1 .. Len(s) /\ k + 1 + 1 # 1 /\ k + 1 + 1 - 1 = k + 1 /\ k + 1 <= Len(s)
    BY <1>1, <2>1
  <2>3. G[k + 1 + 1] = Then(G[k + 1], s[k + 1 + 1])
    BY <1>4, <2>2
  <2>4. G[k + 1] \in Line /\ s[k + 1 + 1] \in Line
    BY <1>1, <1>8, <2>2
  <2>5. QED BY <2>3, <2>4, ConcatProperties DEF Line, Then
<1>9. Nat \subseteq K
  <2> HIDE DEF K
  <2>1. QED BY <1>7, <1>8, SetInduction
<1>10. \A i \in 1 .. Len(s) : G[i] \in Line
  <2>1. SUFFICES ASSUME NEW i \in 1 .. Len(s) PROVE G[i] \in Line
    OBVIOUS
  <2>2. i - 1 \in Nat /\ i - 1 + 1 = i /\ i <= Len(s)
    BY <1>1
  <2>3. QED BY <1>9, <2>2
<1>11. QED BY <1>3, <1>6, <1>10

\* Two sequences of pieces that begin alike are printed alike so far.
LEMMA PrintsAlike ==
    ASSUME NEW s, NEW t, NEW g, NEW h, Prints(g, s), Prints(h, t), Len(s) \in Nat, Len(t) \in Nat,
           NEW n \in 1 .. Len(s), n <= Len(t), \A i \in 1 .. n : s[i] = t[i]
    PROVE  g[n] = h[n]
<1> DEFINE K == {k \in Nat : k + 1 <= n => g[k + 1] = h[k + 1]}
<1>1. 0 \in K
  <2>1. 1 \in 1 .. n
    OBVIOUS
  <2>2. QED BY <2>1 DEF Prints
<1>2. ASSUME NEW k \in Nat, k \in K PROVE k + 1 \in K
  <2>1. SUFFICES ASSUME k + 1 + 1 <= n PROVE g[k + 1 + 1] = h[k + 1 + 1]
    OBVIOUS
  <2>2. /\ k + 1 + 1 \in 2 .. Len(s) /\ k + 1 + 1 \in 2 .. Len(t) /\ k + 1 + 1 \in 1 .. n
        /\ k + 1 + 1 - 1 = k + 1 /\ k + 1 <= n
    BY <2>1
  <2>3. g[k + 1 + 1] = Then(g[k + 1], s[k + 1 + 1]) /\ h[k + 1 + 1] = Then(h[k + 1], t[k + 1 + 1])
    BY <2>2 DEF Prints
  <2>4. g[k + 1] = h[k + 1] /\ s[k + 1 + 1] = t[k + 1 + 1]
    BY <1>2, <2>2
  <2>5. QED BY <2>3, <2>4
<1>3. Nat \subseteq K
  <2> HIDE DEF K
  <2>1. QED BY <1>1, <1>2, SetInduction
<1>4. n - 1 \in Nat /\ n - 1 + 1 = n /\ n <= n
  OBVIOUS
<1>5. n - 1 + 1 <= n => g[n - 1 + 1] = h[n - 1 + 1]
  BY <1>3, <1>4
<1>6. QED BY <1>4, <1>5

LEMMA CatAppend ==
    ASSUME NEW a \in Line, NEW b \in Line, NEW ch \in FilterChars
    PROVE  a \o Append(b, ch) = Append(a \o b, ch)
<1>1. a \o b \in Line /\ <<ch>> \in Line /\ Append(b, ch) = b \o <<ch>>
  BY ConcatProperties, AppendIsConcat DEF Line
<1>2. Append(a \o b, ch) = (a \o b) \o <<ch>>
  BY <1>1, AppendIsConcat DEF Line
<1>3. (a \o b) \o <<ch>> = a \o (b \o <<ch>>)
  BY <1>1, ConcatAssociative DEF Line
<1>4. QED BY <1>1, <1>2, <1>3

\* One piece more, and one character more in the last piece.
LEMMA FlattenGrows ==
    ASSUME NEW s \in Seq(Line), s # <<>>
    PROVE  /\ FlattenSeq(s) \in Line
           /\ \A x \in Line : FlattenSeq(Append(s, x)) = FlattenSeq(s) \o x
           /\ \A ch \in FilterChars :
                FlattenSeq([s EXCEPT ![Len(s)] = Append(@, ch)]) = Append(FlattenSeq(s), ch)
<1>1. Len(s) \in Nat /\ Len(s) # 0 /\ \A i \in 1 .. Len(s) : s[i] \in Line
  BY LenProperties, EmptySeq, ElementOfSeq
<1>2. PICK g : /\ Prints(g, s) /\ FlattenSeq(s) = g[Len(s)]
               /\ \A i \in 1 .. Len(s) : g[i] \in Line
  BY Printing
<1>3. Len(s) \in 1 .. Len(s)
  BY <1>1
<1>4. ASSUME NEW x \in Line PROVE FlattenSeq(Append(s, x)) = FlattenSeq(s) \o x
  <2> DEFINE t == Append(s, x)
  <2>1. /\ t \in Seq(Line) /\ t # <<>> /\ Len(t) = Len(s) + 1 /\ t[Len(s) + 1] = x
        /\ \A i \in 1 .. Len(s) : t[i] = s[i]
    BY AppendProperties
  <2> HIDE DEF t
  <2>2. PICK h : Prints(h, t) /\ FlattenSeq(t) = h[Len(t)]
    BY <2>1, Printing
  <2>3. g[Len(s)] = h[Len(s)]
    <3>1. Len(s) <= Len(t) /\ Len(t) \in Nat /\ \A i \in 1 .. Len(s) : s[i] = t[i]
      BY <1>1, <2>1
    <3>2. QED BY <1>1, <1>2, <1>3, <2>2, <3>1, PrintsAlike
  <2>4. h[Len(s) + 1] = Then(h[Len(s)], x)
    <3>1. Len(s) + 1 \in 2 .. Len(t) /\ Len(s) + 1 - 1 = Len(s)
      BY <1>1, <2>1
    <3>2. QED BY <2>1, <2>2, <3>1 DEF Prints
  <2>5. QED BY <1>2, <1>3, <2>1, <2>2, <2>3, <2>4 DEF t, Then
<1>5. ASSUME NEW ch \in FilterChars
      PROVE  FlattenSeq([s EXCEPT ![Len(s)] = Append(@, ch)]) = Append(FlattenSeq(s), ch)
  <2> DEFINE x == Append(s[Len(s)], ch)
             t == [s EXCEPT ![Len(s)] = Append(@, ch)]
  <2>1. x \in Line /\ s[Len(s)] \in Line
    BY <1>1, <1>3, AppendProperties DEF Line
  <2>2. /\ t \in Seq(Line) /\ Len(t) = Len(s) /\ t[Len(s)] = x
        /\ \A i \in 1 .. Len(s) : i # Len(s) => t[i] = s[i]
    <3>1. t = [s EXCEPT ![Len(s)] = x]
      OBVIOUS
    <3>2. s \in Seq(Line) /\ Len(s) \in 1 .. Len(s)
      BY <1>3
    <3> HIDE DEF t, x
    <3>3. [s EXCEPT ![Len(s)] = x] \in Seq(Line) /\ t = [s EXCEPT ![Len(s)] = x]
      BY ONLY <2>1, <3>1, <3>2, ExceptSeq
    <3>4. QED BY ONLY <2>1, <3>1, <3>2, <3>3, ExceptSeq
  <2>3. t # <<>>
    <3> HIDE DEF t
    <3>1. QED BY <1>1, <2>2, EmptySeq
  <2> HIDE DEF t
  <2>4. PICK h : Prints(h, t) /\ FlattenSeq(t) = h[Len(t)]
    BY <2>2, <2>3, Printing
  <2>5. CASE Len(s) = 1
    <3>1. g[1] = s[1] /\ h[1] = x
      BY <1>2, <2>2, <2>4, <2>5 DEF Prints
    <3>2. QED BY <1>2, <2>2, <2>4, <2>5, <3>1 DEF t
  <2>6. CASE Len(s) # 1
    <3>1. /\ Len(s) - 1 \in 1 .. Len(s) /\ Len(s) - 1 <= Len(t) /\ Len(s) \in 2 .. Len(s)
          /\ Len(t) \in Nat /\ \A i \in 1 .. Len(s) - 1 : s[i] = t[i]
      BY <1>1, <2>2, <2>6
    <3>2. g[Len(s) - 1] = h[Len(s) - 1]
      BY <1>1, <1>2, <2>4, <3>1, PrintsAlike
    <3>3. g[Len(s)] = Then(g[Len(s) - 1], s[Len(s)]) /\ h[Len(s)] = Then(h[Len(s) - 1], x)
      BY <1>2, <2>2, <2>4, <3>1 DEF Prints
    <3>4. g[Len(s) - 1] \in Line
      BY <1>2, <3>1
    <3>5. \A a, b \in Line : a \o Append(b, ch) = Append(a \o b, ch)
      BY CatAppend
    <3>6. Then(g[Len(s) - 1], x) = Append(g[Len(s)], ch)
      BY <2>1, <3>3, <3>4, <3>5 DEF Then
    <3>7. QED BY <1>2, <2>2, <2>4, <3>2, <3>3, <3>6 DEF t
  <2>7. QED BY <2>5, <2>6
<1>6. QED BY <1>2, <1>3, <1>4, <1>5
-----------------------------------------------------------------------------
(* A text that grows *)

Levels == Seq(Line)

Pieces(levels) == [i \in DOMAIN levels |-> IF i = 1 THEN levels[i] ELSE <<"/">> \o levels[i]]

\* The character ch is the first of the text with these levels.
BeginsWith(levels, ch) ==
    IF ch = "/" THEN Len(levels) > 1 /\ levels[1] = <<>>
    ELSE levels[1] # <<>> /\ levels[1][1] = ch

LEMMA Characters ==
    /\ "/" \in FilterChars /\ NameChars \subseteq FilterChars
    /\ <<>> \in Line /\ <<"/">> \in Line /\ AnyLevel \in Line /\ AnyLevels \in Line
<1>1. {"/", "+", "#", "$"} \subseteq FilterChars /\ NameChars \subseteq FilterChars
  BY DEF FilterChars, NameChars
<1>2. QED BY <1>1 DEF Line, AnyLevel, AnyLevels

LEMMA PieceKinds ==
    ASSUME NEW levels \in Levels, levels # <<>>
    PROVE  /\ Pieces(levels) \in Seq(Line) /\ Pieces(levels) # <<>>
           /\ Len(Pieces(levels)) = Len(levels) /\ Len(levels) \in Nat \ {0}
           /\ \A i \in 1 .. Len(levels) :
                /\ levels[i] \in Line
                /\ Pieces(levels)[i] = IF i = 1 THEN levels[i] ELSE <<"/">> \o levels[i]
<1>1. /\ Len(levels) \in Nat \ {0} /\ DOMAIN levels = 1 .. Len(levels)
      /\ \A i \in 1 .. Len(levels) : levels[i] \in Line
  BY LenProperties, EmptySeq, ElementOfSeq DEF Levels
<1>2. \A i \in 1 .. Len(levels) : <<"/">> \o levels[i] \in Line
  BY <1>1, Characters, ConcatProperties DEF Line
<1>3. Pieces(levels) \in [1 .. Len(levels) -> Line]
  BY <1>1, <1>2 DEF Pieces
<1>4. Pieces(levels) \in Seq(Line) /\ Len(Pieces(levels)) = Len(levels)
  BY <1>1, <1>3
<1>5. Pieces(levels) # <<>>
  BY <1>1, <1>4, EmptySeq
<1>6. QED BY <1>1, <1>4, <1>5 DEF Pieces

\* One character more in the levels is one more in what they print as.
LEMMA SplitPrints ==
    ASSUME NEW levels \in Levels, levels # <<>>, NEW ch \in FilterChars
    PROVE  /\ Split(levels, ch) \in Levels /\ Split(levels, ch) # <<>>
           /\ Text(Split(levels, ch)) = Append(Text(levels), ch)
           /\ \A c : BeginsWith(levels, c) => BeginsWith(Split(levels, ch), c)
<1>1. /\ Pieces(levels) \in Seq(Line) /\ Pieces(levels) # <<>>
      /\ Len(Pieces(levels)) = Len(levels) /\ Len(levels) \in Nat \ {0}
      /\ \A i \in 1 .. Len(levels) :
           /\ levels[i] \in Line
           /\ Pieces(levels)[i] = IF i = 1 THEN levels[i] ELSE <<"/">> \o levels[i]
  BY PieceKinds
<1>2. \A l : Text(l) = FlattenSeq(Pieces(l))
  BY DEF Text, Pieces
<1>3. /\ FlattenSeq(Pieces(levels)) \in Line
      /\ FlattenSeq(Append(Pieces(levels), <<"/">>)) = FlattenSeq(Pieces(levels)) \o <<"/">>
      /\ FlattenSeq([Pieces(levels) EXCEPT ![Len(levels)] = Append(@, ch)])
           = Append(FlattenSeq(Pieces(levels)), ch)
  BY <1>1, FlattenGrows, Characters
<1>4. CASE ch = "/"
  <2> DEFINE t == Append(levels, <<>>)
  <2>1. Split(levels, ch) = t
    BY <1>4 DEF Split
  <2>2. /\ t \in Seq(Line) /\ t # <<>> /\ Len(t) = Len(levels) + 1 /\ t[Len(levels) + 1] = <<>>
        /\ \A i \in 1 .. Len(levels) : t[i] = levels[i]
    BY Characters, AppendProperties DEF Levels
  <2> HIDE DEF t
  <2>3. /\ Pieces(t) \in Seq(Line) /\ Len(Pieces(t)) = Len(t)
        /\ \A i \in 1 .. Len(t) : Pieces(t)[i] = IF i = 1 THEN t[i] ELSE <<"/">> \o t[i]
    BY <2>2, PieceKinds DEF Levels
  <2> DEFINE u == Append(Pieces(levels), <<"/">>)
  <2>4. /\ u \in Seq(Line) /\ Len(u) = Len(levels) + 1 /\ u[Len(levels) + 1] = <<"/">>
        /\ \A i \in 1 .. Len(levels) : u[i] = Pieces(levels)[i]
    BY <1>1, Characters, AppendProperties
  <2> HIDE DEF u
  <2>5. <<"/">> \o <<>> = <<"/">>
    BY Characters, ConcatEmptySeq DEF Line
  <2>6. ASSUME NEW i \in 1 .. Len(t) PROVE Pieces(t)[i] = u[i]
    <3>1. CASE i \in 1 .. Len(levels)
      <4>1. Pieces(levels)[i] = IF i = 1 THEN levels[i] ELSE <<"/">> \o levels[i]
        BY <1>1, <3>1
      <4>2. Pieces(t)[i] = IF i = 1 THEN t[i] ELSE <<"/">> \o t[i]
        BY <2>3
      <4>3. t[i] = levels[i] /\ u[i] = Pieces(levels)[i]
        BY <2>2, <2>4, <3>1
      <4>4. QED BY ONLY <4>1, <4>2, <4>3, Zenon
    <3>2. CASE i = Len(levels) + 1
      <4>1. i # 1
        BY <1>1, <3>2
      <4>2. QED BY <2>2, <2>3, <2>4, <2>5, <3>2, <4>1
    <3>3. QED BY <1>1, <2>2, <3>1, <3>2
  <2>7. Pieces(t) = u
    BY <2>2, <2>3, <2>4, <2>6, SeqEqual
  <2>8. Text(t) = Append(Text(levels), ch)
    <3>1. Text(t) = FlattenSeq(Pieces(levels)) \o <<"/">>
      BY <1>2, <1>3, <2>7 DEF u
    <3>2. Append(FlattenSeq(Pieces(levels)), "/") = FlattenSeq(Pieces(levels)) \o <<"/">>
      BY <1>3, Characters, AppendIsConcat DEF Line
    <3>3. QED BY <1>2, <1>4, <3>1, <3>2
  <2>9. \A c : BeginsWith(levels, c) => BeginsWith(t, c)
    <3>1. t[1] = levels[1] /\ (Len(levels) > 1 => Len(t) > 1)
      BY <1>1, <2>2
    <3>2. QED BY <3>1 DEF BeginsWith
  <2>10. QED BY <2>1, <2>2, <2>8, <2>9 DEF Levels
<1>5. CASE ch # "/"
  <2> DEFINE n == Len(levels)
             x == Append(levels[n], ch)
             t == [levels EXCEPT ![n] = Append(@, ch)]
  <2>1. Split(levels, ch) = t
    BY <1>5 DEF Split
  <2>2. n \in Nat \ {0} /\ n \in 1 .. n /\ levels[n] \in Line /\ x \in Line /\ x # <<>>
    <3>1. n \in Nat \ {0} /\ n \in 1 .. n
      BY <1>1
    <3>2. levels[n] \in Line
      BY <1>1, <3>1
    <3>3. QED BY <3>1, <3>2, AppendProperties DEF Line
  <2>3. /\ t \in Seq(Line) /\ Len(t) = n /\ \A i \in 1 .. n : t[i] = IF i = n THEN x ELSE levels[i]
    <3>1. t = [levels EXCEPT ![n] = x]
      OBVIOUS
    <3>2. levels \in Seq(Line) /\ n \in 1 .. Len(levels)
      BY <2>2 DEF Levels
    <3> HIDE DEF t, x
    <3>3. QED BY <2>2, <3>1, <3>2, ExceptSeq
  <2>4. t # <<>>
    <3> HIDE DEF t
    <3>1. QED BY <2>2, <2>3, EmptySeq
  <2>5. /\ Pieces(t) \in Seq(Line) /\ Len(Pieces(t)) = n
        /\ \A i \in 1 .. n : Pieces(t)[i] = IF i = 1 THEN t[i] ELSE <<"/">> \o t[i]
    <3> HIDE DEF t
    <3>1. QED BY <2>3, <2>4, PieceKinds DEF Levels
  <2> DEFINE y == Append(Pieces(levels)[n], ch)
             u == [Pieces(levels) EXCEPT ![n] = Append(@, ch)]
  <2>6. Pieces(levels)[n] \in Line /\ y \in Line
    <3>1. Pieces(levels)[n] \in Line
      BY <1>1, <2>2, ElementOfSeq
    <3>2. QED BY <3>1, AppendProperties DEF Line
  <2>7. u \in Seq(Line) /\ Len(u) = n /\ \A i \in 1 .. n : u[i] = IF i = n THEN y ELSE Pieces(levels)[i]
    <3>1. u = [Pieces(levels) EXCEPT ![n] = y]
      OBVIOUS
    <3>2. Pieces(levels) \in Seq(Line) /\ n \in 1 .. Len(Pieces(levels)) /\ Len(Pieces(levels)) = n
      BY <1>1, <2>2
    <3> HIDE DEF u, y, n
    <3>3. QED BY <2>6, <3>1, <3>2, ExceptSeq
  <2>8. <<"/">> \o x = Append(<<"/">> \o levels[n], ch)
    BY <2>2, Characters, CatAppend
  <2>9. Pieces(levels)[n] = IF n = 1 THEN levels[n] ELSE <<"/">> \o levels[n]
    BY <1>1, <2>2
  <2>10. \A i \in 1 .. n : Pieces(levels)[i] = IF i = 1 THEN levels[i] ELSE <<"/">> \o levels[i]
    BY <1>1
  <2>11. ASSUME NEW i \in 1 .. n PROVE Pieces(t)[i] = u[i]
    <3>1. CASE i = n /\ n = 1
      <4>1. y = x
        BY <2>9, <3>1
      <4> HIDE DEF t, u, x, y, n
      <4>2. QED BY <2>3, <2>5, <2>7, <3>1, <4>1
    <3>2. CASE i = n /\ n # 1
      <4>1. y = <<"/">> \o x
        BY <2>8, <2>9, <3>2
      <4> HIDE DEF t, u, x, y, n
      <4>2. u[i] = y
        BY <2>7, <3>2
      <4>3. Pieces(t)[i] = <<"/">> \o x
        BY <2>3, <2>5, <3>2
      <4>4. QED BY ONLY <4>1, <4>2, <4>3
    <3>3. CASE i # n
      <4> HIDE DEF t, u, x, y, n
      <4>1. QED BY <2>3, <2>5, <2>7, <2>10, <3>3
    <3>4. QED BY <3>1, <3>2, <3>3
  <2>12. Pieces(t) = u
    <3> HIDE DEF t, u, n
    <3>1. QED BY <2>5, <2>7, <2>11, SeqEqual
  <2>13. Text(t) = Append(Text(levels), ch)
    BY <1>2, <1>3, <2>12
  <2>14. \A c : BeginsWith(levels, c) => BeginsWith(t, c)
    <3>1. SUFFICES ASSUME NEW c, BeginsWith(levels, c) PROVE BeginsWith(t, c)
      OBVIOUS
    <3>2. 1 \in 1 .. n
      BY <2>2
    <3>3. CASE c = "/"
      <4>1. n > 1 /\ levels[1] = <<>>
        BY <3>1, <3>3 DEF BeginsWith
      <4>2. t[1] = levels[1] /\ Len(t) > 1
        <5> HIDE DEF t, x
        <5>1. QED BY <2>3, <3>2, <4>1
      <4> HIDE DEF t
      <4>3. QED BY <3>3, <4>1, <4>2 DEF BeginsWith
    <3>4. CASE c # "/"
      <4>1. levels[1] # <<>> /\ levels[1][1] = c
        BY <3>1, <3>4 DEF BeginsWith
      <4>2. t[1] # <<>> /\ t[1][1] = c
        <5>1. CASE n = 1
          <6>1. levels[1] \in Line /\ t[1] = x /\ x = Append(levels[1], ch)
            BY <2>2, <2>3, <5>1
          <6>2. 1 \in 1 .. Len(levels[1])
            BY <4>1, <6>1, EmptySeq DEF Line
          <6>3. x # <<>> /\ x[1] = levels[1][1]
            BY <6>1, <6>2, AppendProperties DEF Line
          <6>4. QED BY ONLY <4>1, <6>1, <6>3
        <5>2. CASE n # 1
          <6>1. t[1] = levels[1]
            <7> HIDE DEF t, x
            <7>1. QED BY <2>3, <3>2, <5>2
          <6>2. QED BY ONLY <4>1, <6>1
        <5>3. QED BY <5>1, <5>2
      <4> HIDE DEF t
      <4>3. QED BY <3>4, <4>2 DEF BeginsWith
    <3>5. QED BY <3>3, <3>4
  <2>15. QED
    <3> HIDE DEF t
    <3>1. QED BY <2>1, <2>3, <2>4, <2>13, <2>14 DEF Levels
<1>6. QED BY <1>4, <1>5

\* The first character of a text.
LEMMA SplitFirst ==
    ASSUME NEW ch \in FilterChars
    PROVE  /\ << <<>> >> \in Levels /\ << <<>> >> # <<>>
           /\ Text(<< <<>> >>) = <<>>
           /\ BeginsWith(Split(<< <<>> >>, ch), ch)
<1> DEFINE s == << <<>> >>
<1>1. s \in Levels /\ s # <<>> /\ Len(s) = 1 /\ s[1] = <<>>
  BY Characters DEF Levels
<1>2. Text(s) = <<>>
  <2> HIDE DEF s
  <2>1. /\ Pieces(s) \in Seq(Line) /\ Pieces(s) # <<>> /\ Len(Pieces(s)) = 1 /\ Pieces(s)[1] = <<>>
    BY <1>1, PieceKinds
  <2>2. PICK g : Prints(g, Pieces(s)) /\ FlattenSeq(Pieces(s)) = g[Len(Pieces(s))]
    BY <2>1, Printing
  <2>3. QED BY <2>1, <2>2 DEF Prints, Text, Pieces
<1>3. BeginsWith(Split(s, ch), ch)
  <2>1. CASE ch = "/"
    <3>1. Split(s, ch) = Append(s, <<>>)
      BY <2>1 DEF Split
    <3> HIDE DEF s
    <3>2. s \in Seq(Line) /\ <<>> \in Line /\ 1 \in 1 .. Len(s)
      BY <1>1, Characters DEF Levels
    <3>3. Len(Append(s, <<>>)) = Len(s) + 1 /\ Append(s, <<>>)[1] = s[1]
      BY ONLY <3>2, AppendProperties
    <3>4. QED BY <1>1, <2>1, <3>1, <3>3 DEF BeginsWith
  <2>2. CASE ch # "/"
    <3>1. Split(s, ch) = << <<ch>> >>
      BY <2>2 DEF Split
    <3>2. QED BY <2>2, <3>1 DEF BeginsWith
  <2>3. QED BY <2>1, <2>2
<1>4. QED BY <1>1, <1>2, <1>3

\* What is read of a text.
ReadInv(text) ==
    /\ Text(Parse(text)) = text
    /\ text # <<>> =>
        /\ Parse(text) \in Levels /\ Parse(text) # <<>>
        /\ BeginsWith(Parse(text), Head(text))

LEMMA ReadStart == ReadInv(<<>>)
<1>1. Parse(<<>>) = <<>>
  BY DEF Parse
<1>2. Pieces(<<>>) = <<>>
  BY DEF Pieces
<1>3. FlattenSeq(<<>>) = <<>>
  BY DEF FlattenSeq
<1>4. QED BY <1>1, <1>2, <1>3 DEF ReadInv, Text, Pieces

LEMMA ReadStep ==
    ASSUME NEW text \in Line, ReadInv(text), NEW ch \in FilterChars
    PROVE  ReadInv(Append(text, ch))
<1> DEFINE before == IF text = <<>> THEN << <<>> >> ELSE Parse(text)
<1>1. Parse(Append(text, ch)) = Split(before, ch)
  BY ParseAppend DEF Line
<1>2. before \in Levels /\ before # <<>> /\ Text(before) = text
  BY SplitFirst DEF ReadInv
<1>3. /\ Split(before, ch) \in Levels /\ Split(before, ch) # <<>>
      /\ Text(Split(before, ch)) = Append(text, ch)
  <2> HIDE DEF before
  <2>1. QED BY <1>2, SplitPrints
<1>4. Head(Append(text, ch)) = IF text = <<>> THEN ch ELSE Head(text)
  BY HeadTailAppend DEF Line
<1>5. BeginsWith(Split(before, ch), Head(Append(text, ch)))
  <2>1. CASE text = <<>>
    BY <1>4, <2>1, SplitFirst
  <2>2. CASE text # <<>>
    <3>1. BeginsWith(before, Head(text))
      BY <2>2 DEF ReadInv
    <3> HIDE DEF before
    <3>2. QED BY <1>2, <1>4, <2>2, <3>1, SplitPrints
  <2>3. QED BY <2>1, <2>2
<1> HIDE DEF before
<1>6. QED BY <1>1, <1>3, <1>5 DEF ReadInv
-----------------------------------------------------------------------------
(* The filter and the name *)

TextInv ==
    /\ filter \in Line /\ ReadInv(filter)
    /\ name \in Line /\ ReadInv(name)

LEMMA TextStart == Init => TextInv
BY ReadStart, Characters DEF Init, TextInv

LEMMA TextStays == TextInv /\ [Next]_vars => TextInv'
<1> SUFFICES ASSUME TextInv, [Next]_vars PROVE TextInv'
  OBVIOUS
<1>1. \A text \in Line, ch \in FilterChars :
        ReadInv(text) => Append(text, ch) \in Line /\ ReadInv(Append(text, ch))
  BY ReadStep, AppendProperties DEF Line
<1>2. ASSUME NEW ch \in FilterChars, ExtendFilter(ch) PROVE TextInv'
  <2>1. filter' = Append(filter, ch) /\ name' = name
    BY <1>2 DEF ExtendFilter
  <2>2. filter' \in Line /\ ReadInv(filter') /\ name' \in Line /\ ReadInv(name')
    BY <1>1, <2>1 DEF TextInv
  <2>3. QED BY <2>2 DEF TextInv, ReadInv
<1>3. ASSUME NEW ch \in NameChars, ExtendName(ch) PROVE TextInv'
  <2>1. filter' = filter /\ name' = Append(name, ch) /\ ch \in FilterChars
    BY <1>3, Characters DEF ExtendName
  <2>2. filter' \in Line /\ ReadInv(filter') /\ name' \in Line /\ ReadInv(name')
    BY <1>1, <2>1 DEF TextInv
  <2>3. QED BY <2>2 DEF TextInv, ReadInv
<1>4. CASE UNCHANGED vars
  <2>1. filter' = filter /\ name' = name
    BY <1>4 DEF vars
  <2>2. filter' \in Line /\ ReadInv(filter') /\ name' \in Line /\ ReadInv(name')
    BY <2>1 DEF TextInv
  <2>3. QED BY <2>2 DEF TextInv, ReadInv
<1>5. QED BY <1>2, <1>3, <1>4 DEF Next

\* What the theorems below rest on: how a filter and a name of any length are read.
THEOREM TextsRead == Spec => []TextInv
BY TextStart, TextStays, PTL DEF Spec

\* The assertions reject no filter that the rules admit.
LEMMA ValidAccepted ==
    ASSUME NEW text, Valid(text)
    PROVE  Accepted(text)
<1> DEFINE levels == Parse(text)
<1>1. /\ text # <<>>
      /\ \A i \in DOMAIN levels :
           /\ Contains(levels[i], "#") => levels[i] = AnyLevels /\ i = Len(levels)
           /\ Contains(levels[i], "+") => levels[i] = AnyLevel
  BY DEF Valid
<1>2. Contains(AnyLevels, "#") /\ Len(AnyLevel) = 1
  BY DEF Contains, AnyLevel, AnyLevels
<1>3. \A i \in DOMAIN levels : IsValidLevel(levels[i], i = Len(levels))
  <2> HIDE DEF levels
  <2>1. QED BY <1>1, <1>2 DEF IsValidLevel
<1>4. QED BY <1>1, <1>3 DEF Accepted, Asserted

\* Without an empty level at the end they look at all levels, and so admit nothing else.
LEMMA AcceptedValid ==
    ASSUME NEW text, Parse(text) \in Levels, Accepted(text), Last(Parse(text)) # <<>>
    PROVE  Valid(text)
<1> DEFINE levels == Parse(text)
<1>1. /\ text # <<>>
      /\ \A i \in DOMAIN levels : IsValidLevel(levels[i], i = Len(levels))
  BY DEF Accepted, Asserted
<1>2. ASSUME NEW i \in DOMAIN levels, Contains(levels[i], "+") PROVE levels[i] = AnyLevel
  <2>1. levels[i] \in Line
    BY ElementOfSeq DEF Levels
  <2>2. Len(levels[i]) = 1
    BY <1>1, <1>2 DEF IsValidLevel
  <2> HIDE DEF levels
  <2>3. levels[i][1] = "+"
    BY <1>2, <2>1, <2>2 DEF Contains, Line
  <2>4. QED BY <2>1, <2>2, <2>3 DEF AnyLevel, Line
<1> HIDE DEF levels
<1>3. \A i \in DOMAIN levels :
        Contains(levels[i], "#") => levels[i] = AnyLevels /\ i = Len(levels)
  BY <1>1 DEF IsValidLevel
<1>4. QED BY <1>1, <1>2, <1>3 DEF Valid, levels

\* Whatever its length, a filter that keeps the rules is accepted, no other is unless its
\* last level is empty, and a filter is printed as the text it was parsed from,
\* separators at its ends included.
THEOREM ValidKept == Spec => []ValidIsKept
<1>1. ASSUME TextInv PROVE ValidIsKept
  <2>1. Text(Parse(filter)) = filter /\ (filter # <<>> => Parse(filter) \in Levels)
    BY <1>1 DEF TextInv, ReadInv
  <2>2. Accepted(filter) => filter # <<>>
    BY DEF Accepted
  <2>3. Accepted(filter) /\ Last(Parse(filter)) # <<>> => Valid(filter)
    BY <2>1, <2>2, AcceptedValid
  <2>4. QED BY <2>1, <2>3, ValidAccepted DEF ValidIsKept
<1>2. QED BY <1>1, TextsRead, PTL
-----------------------------------------------------------------------------
(* Matching *)

\* The levels stand for those of the name, one for one, as far as m.
Along(levels, other, m) == \A i \in 1 .. m : levels[i] \in {AnyLevel, other[i]}

\* A name that begins with $ is hidden alike by the program and the definition.
LEMMA HiddenAlike ==
    ASSUME NEW first, NEW other, NEW c, BeginsWith(other, c),
           first \in {AnyLevel, AnyLevels, other[1]}
    PROVE  (c = "$" /\ (first = <<>> \/ first[1] # "$"))
           <=> (other[1] # <<>> /\ other[1][1] = "$" /\ first \in {AnyLevel, AnyLevels})
<1>1. c = "$" <=> other[1] # <<>> /\ other[1][1] = "$"
  BY DEF BeginsWith
<1>2. AnyLevel[1] # "$" /\ AnyLevels[1] # "$"
  BY DEF AnyLevel, AnyLevels
<1>3. CASE first \in {AnyLevel, AnyLevels}
  BY <1>1, <1>2, <1>3
<1>4. CASE first \notin {AnyLevel, AnyLevels}
  <2>1. first = other[1]
    BY <1>4
  <2>2. QED BY ONLY <1>1, <1>4, <2>1
<1>5. QED BY <1>3, <1>4

\* The levels that # is replaced by match anything.
LEMMA ExpandedLevels ==
    ASSUME NEW levels \in Levels, NEW n \in Nat \ {0}, n = Len(levels), levels[n] = AnyLevels,
           NEW k \in Nat
    PROVE  /\ Len(Expanded(levels, k)) = n - 1 + k /\ DOMAIN Expanded(levels, k) = 1 .. n - 1 + k
           /\ \A i \in 1 .. n - 1 + k :
                Expanded(levels, k)[i] = IF i < n THEN levels[i] ELSE AnyLevel
<1> DEFINE f == SubSeq(levels, 1, n - 1)
           w == [i \in 1 .. k |-> AnyLevel]
           e == f \o w
<1>1. Expanded(levels, k) = e
  BY DEF Expanded, Last, Front
<1>2. f \in Seq(Line) /\ Len(f) = n - 1 /\ \A i \in 1 .. n - 1 : f[i] = levels[i]
  <2>1. \A i \in 1 .. n - 1 : i \in 1 .. Len(levels) /\ i <= n
    OBVIOUS
  <2>2. \A i \in 1 .. Len(levels) : levels[i] \in Line
    BY ElementOfSeq DEF Levels
  <2>3. f = [i \in 1 .. n - 1 |-> levels[i]]
    BY DEF Levels
  <2> HIDE DEF f
  <2>4. f \in [1 .. n - 1 -> Line] /\ n - 1 \in Nat
    BY <2>1, <2>2, <2>3
  <2>5. QED BY <2>3, <2>4
<1>3. w \in Seq(Line) /\ Len(w) = k /\ \A i \in 1 .. k : w[i] = AnyLevel
  <2>1. w \in [1 .. k -> Line]
    BY Characters
  <2>2. QED BY <2>1
<1> HIDE DEF f, w
<1>4. /\ e \in Seq(Line) /\ Len(e) = n - 1 + k
      /\ \A i \in 1 .. n - 1 + k : e[i] = IF i <= n - 1 THEN f[i] ELSE w[i - (n - 1)]
  BY <1>2, <1>3, ConcatProperties
<1>5. DOMAIN e = 1 .. n - 1 + k
  BY <1>4, LenProperties
<1> HIDE DEF e
<1>6. ASSUME NEW i \in 1 .. n - 1 + k PROVE e[i] = IF i < n THEN levels[i] ELSE AnyLevel
  <2>1. CASE i < n
    <3>1. i \in 1 .. n - 1 /\ i <= n - 1
      BY <2>1
    <3>2. QED BY <1>2, <1>4, <2>1, <3>1
  <2>2. CASE ~(i < n)
    <3>1. i - (n - 1) \in 1 .. k /\ ~(i <= n - 1)
      BY <2>2
    <3>2. QED BY <1>3, <1>4, <2>2, <3>1
  <2>3. QED BY <2>1, <2>2
<1>7. QED BY <1>1, <1>4, <1>5, <1>6

\* A filter whose levels keep the rules matches the names that fit.
LEMMA MatchesIsFits ==
    ASSUME NEW levels \in Levels, levels # <<>>, NEW topic, Parse(topic) \in Levels,
           Parse(topic) # <<>>, BeginsWith(Parse(topic), Head(topic)),
           \A i \in DOMAIN levels : Contains(levels[i], "#") => levels[i] = AnyLevels /\ i = Len(levels)
    PROVE  Matches(levels, topic) <=> Fits(levels, Parse(topic))
<1>0. PICK other, n : other = Parse(topic) /\ n = Len(levels)
  OBVIOUS
<1>1. /\ n = Len(levels) /\ n \in Nat \ {0} /\ DOMAIN levels = 1 .. n
      /\ Len(other) \in Nat \ {0} /\ Head(levels) = levels[1]
  BY <1>0, LenProperties, EmptySeq DEF Levels
<1>2. Contains(AnyLevels, "#")
  BY DEF Contains, AnyLevels
<1>3. \A i \in 1 .. n : levels[i] = AnyLevels => i = n
  BY <1>1, <1>2
<1> DEFINE Hidden1 == Head(topic) = "$" /\ (levels[1] = <<>> \/ levels[1][1] # "$")
           Hidden2 == other[1] # <<>> /\ other[1][1] = "$" /\ levels[1] \in {AnyLevel, AnyLevels}
<1>4. levels[1] \in {AnyLevel, AnyLevels, other[1]} => (Hidden1 <=> Hidden2)
  BY <1>0, HiddenAlike
<1>5. Matches(levels, topic) <=>
        /\ ~Hidden1
        /\ \/ Len(other) < n /\ Len(other) = n - 1 /\ levels[n] = AnyLevels
                 /\ MatchesNLevels(levels, other, Len(other))
           \/ Len(other) > n /\ levels[n] = AnyLevels /\ MatchesNLevels(levels, other, n - 1)
           \/ Len(other) = n /\ MatchesNLevels(levels, other, n)
  BY <1>0, <1>1 DEF Matches, Last
<1>6. Fits(levels, other) <=>
        /\ \E k \in 0 .. Len(other) :
             /\ Len(Expanded(levels, k)) = Len(other)
             /\ \A i \in DOMAIN Expanded(levels, k) : Expanded(levels, k)[i] \in {AnyLevel, other[i]}
        /\ ~Hidden2
  BY <1>1 DEF Fits
<1>7. \A m \in 0 .. n : (m = n => levels[n] # AnyLevels) =>
        (MatchesNLevels(levels, other, m) <=> Along(levels, other, m))
  <2>1. SUFFICES ASSUME NEW m \in 0 .. n, m = n => levels[n] # AnyLevels
                 PROVE  MatchesNLevels(levels, other, m) <=> Along(levels, other, m)
    OBVIOUS
  <2>2. \A i \in 1 .. m : i \in 1 .. n /\ levels[i] # AnyLevels
    <3>1. \A i \in 1 .. m : i \in 1 .. n /\ (i = n => m = n)
      <4>1. ASSUME NEW i \in 1 .. m PROVE i \in 1 .. n /\ (i = n => m = n)
        <5>1. m \in Nat /\ m <= n /\ n \in Nat
          BY ONLY <1>1, m \in 0 .. n
        <5>2. i \in Nat /\ 1 <= i /\ i <= m
          BY ONLY <5>1, i \in 1 .. m
        <5>3. QED BY ONLY <5>1, <5>2
      <4>2. QED BY ONLY <4>1
    <3>2. QED BY ONLY <1>3, <2>1, <3>1
  <2>3. QED BY <2>2, <1>1 DEF MatchesNLevels, LevelMatches, Along
<1> HIDE DEF Hidden1, Hidden2
<1>8. CASE levels[n] # AnyLevels
  <2>1. Matches(levels, topic) <=> ~Hidden1 /\ Len(other) = n /\ Along(levels, other, n)
    <3>1. n \in 0 .. n /\ (MatchesNLevels(levels, other, n) <=> Along(levels, other, n))
      BY ONLY <1>1, <1>7, <1>8
    <3>2. Len(other) > n /\ Len(other) < n <=> FALSE
      BY ONLY <1>1
    <3>3. QED BY ONLY <1>5, <1>8, <3>1
  <2>2. \A k : Expanded(levels, k) = levels
    BY <1>1, <1>8 DEF Expanded, Last
  <2>3. Fits(levels, other) <=> Len(other) = n /\ Along(levels, other, n) /\ ~Hidden2
    <3>1. 0 \in 0 .. Len(other)
      BY <1>1
    <3>2. QED BY <1>1, <1>6, <2>2, <3>1 DEF Along
  <2>4. Along(levels, other, n) => levels[1] \in {AnyLevel, other[1]}
    BY <1>1 DEF Along
  <2>5. QED BY <1>0, <1>4, <2>1, <2>3, <2>4
<1>9. CASE levels[n] = AnyLevels
  <2>1. Matches(levels, topic) <=> ~Hidden1 /\ Len(other) >= n - 1 /\ Along(levels, other, n - 1)
    <3>1. MatchesNLevels(levels, other, n) <=> MatchesNLevels(levels, other, n - 1)
      <4>1. \A i \in 1 .. n : i = n \/ i \in 1 .. n - 1
        BY ONLY <1>1
      <4>2. \A i \in 1 .. n - 1 : i \in 1 .. n
        BY <1>1
      <4>3. LevelMatches(levels, n, other[n])
        BY <1>1, <1>9 DEF LevelMatches
      <4>4. QED BY <4>1, <4>2, <4>3 DEF MatchesNLevels
    <3>2. MatchesNLevels(levels, other, n - 1) <=> Along(levels, other, n - 1)
      <4>1. n - 1 \in 0 .. n /\ n - 1 # n
        BY ONLY <1>1
      <4>2. QED BY ONLY <1>7, <4>1
    <3>3. Len(other) >= n - 1 <=> \/ Len(other) < n /\ Len(other) = n - 1
                                 \/ Len(other) > n \/ Len(other) = n
      BY ONLY <1>1
    <3>4. Len(other) = n - 1 => (MatchesNLevels(levels, other, Len(other)) <=> Along(levels, other, n - 1))
      BY ONLY <3>2
    <3>5. QED BY ONLY <1>5, <1>9, <3>1, <3>2, <3>3, <3>4
  <2>2. ASSUME NEW k \in 0 .. Len(other)
        PROVE  (/\ Len(Expanded(levels, k)) = Len(other)
                /\ \A i \in DOMAIN Expanded(levels, k) : Expanded(levels, k)[i] \in {AnyLevel, other[i]})
               <=> n - 1 + k = Len(other) /\ Along(levels, other, n - 1)
    <3>1. /\ Len(Expanded(levels, k)) = n - 1 + k /\ DOMAIN Expanded(levels, k) = 1 .. n - 1 + k
          /\ \A i \in 1 .. n - 1 + k :
               Expanded(levels, k)[i] = IF i < n THEN levels[i] ELSE AnyLevel
      <4>1. k \in Nat /\ n = Len(levels)
        BY <1>1
      <4>2. levels \in Levels /\ n \in Nat \ {0} /\ levels[n] = AnyLevels
        BY <1>1, <1>9
      <4>3. QED BY ONLY <4>1, <4>2, ExpandedLevels, Zenon
    <3>2. \A i \in 1 .. n - 1 : i \in 1 .. n - 1 + k /\ i < n
      BY <1>1
    <3>3. \A i \in 1 .. n - 1 + k : i < n => i \in 1 .. n - 1
      BY <1>1
    <3>4. (\A i \in 1 .. n - 1 + k : Expanded(levels, k)[i] \in {AnyLevel, other[i]})
           <=> Along(levels, other, n - 1)
      BY <3>1, <3>2, <3>3 DEF Along
    <3>5. QED BY <3>1, <3>4
  <2>3. Fits(levels, other) <=> Len(other) >= n - 1 /\ Along(levels, other, n - 1) /\ ~Hidden2
    <3>1. Len(other) >= n - 1 <=> \E k \in 0 .. Len(other) : n - 1 + k = Len(other)
      <4>1. ASSUME Len(other) >= n - 1 PROVE \E k \in 0 .. Len(other) : n - 1 + k = Len(other)
        <5>1. Len(other) - (n - 1) \in 0 .. Len(other) /\ n - 1 + (Len(other) - (n - 1)) = Len(other)
          BY <1>1, <4>1
        <5>2. QED BY <5>1
      <4>2. \A k \in 0 .. Len(other) : n - 1 + k = Len(other) => Len(other) >= n - 1
        BY <1>1
      <4>3. QED BY <4>1, <4>2
    <3>2. QED BY <1>6, <2>2, <3>1
  <2>4. Along(levels, other, n - 1) => levels[1] \in {AnyLevel, AnyLevels, other[1]}
    <3>1. n = 1 \/ 1 \in 1 .. n - 1
      BY <1>1
    <3>2. QED BY <1>9, <3>1 DEF Along
  <2>5. QED BY <1>0, <1>4, <2>1, <2>3, <2>4
<1>10. QED BY <1>8, <1>9

\* Whatever their lengths, matching agrees with the definition by levels: with
\* empty levels, with # for no level at all, and with names that begin with $.
THEOREM MatchingCorrect == Spec => []MatchesWhatFits
<1>1. TextInv => MatchesWhatFits
  <2>1. SUFFICES ASSUME TextInv, Valid(filter), name # <<>>
                 PROVE  Matches(Parse(filter), name) <=> Fits(Parse(filter), Parse(name))
    BY DEF MatchesWhatFits
  <2>2. /\ filter # <<>>
        /\ \A i \in DOMAIN Parse(filter) :
             Contains(Parse(filter)[i], "#") => Parse(filter)[i] = AnyLevels /\ i = Len(Parse(filter))
    BY <2>1 DEF Valid
  <2>3. /\ Parse(filter) \in Levels /\ Parse(filter) # <<>>
        /\ Parse(name) \in Levels /\ Parse(name) # <<>> /\ BeginsWith(Parse(name), Head(name))
    BY <2>1, <2>2 DEF TextInv, ReadInv
  <2>4. QED BY <2>2, <2>3, MatchesIsFits
<1>2. QED BY <1>1, TextsRead, PTL
=============================================================================
