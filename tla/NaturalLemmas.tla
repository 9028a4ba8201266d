----------------------------- MODULE NaturalLemmas -----------------------------
(***************************************************************************)
(* What the proofs need of the natural numbers: induction over a set, and  *)
(* that what is defined step by step along them exists.                    *)
(***************************************************************************)
EXTENDS Integers, Sequences, SequencesExt, SequenceTheorems, WellFoundedInduction, TLAPS

Less == {p \in Nat \X Nat : p[1] < p[2]}

LEMMA LessIsWellFounded == IsWellFoundedOn(Less, Nat)
BY NatLessThanWellFounded DEF OpToRel, Less

\* A set of natural numbers has a least one.
LEMMA LeastNatural ==
  ASSUME NEW T, T \subseteq Nat, T # {}
  PROVE  \E x \in T : \A y \in T : x <= y
<1>1. PICK x \in T : \A y \in T : <<y, x>> \notin Less
  BY LessIsWellFounded, WFMin
<1>2. \A m, n \in Nat : m < n => <<m, n>> \in Less
  BY DEF Less
<1>3. ASSUME NEW y \in T PROVE x <= y
  <2>1. x \in Nat /\ y \in Nat
    OBVIOUS
  <2>2. ~(y < x)
    BY <1>1, <1>2, <2>1
  <2> QED BY <2>1, <2>2
<1> QED BY <1>3

LEMMA SetInduction ==
  ASSUME NEW S, 0 \in S, \A n \in Nat : n \in S => n + 1 \in S
  PROVE  Nat \subseteq S
<1> SUFFICES ASSUME Nat \ S # {} PROVE FALSE
  OBVIOUS
<1>1. Nat \ S \subseteq Nat
  OBVIOUS
<1>2. PICK x \in Nat \ S : \A y \in Nat \ S : x <= y
  BY <1>1, LeastNatural
<1>3. x - 1 \in Nat \ S
  BY <1>2
<1> QED
  BY <1>2, <1>3

\* A function on the naturals may be defined by what it is at 0 and at j from j - 1.
LEMMA Recursion ==
  ASSUME NEW D, NEW a \in D, NEW f \in [D -> D]
  PROVE  \E at : at = [j \in Nat |-> IF j = 0 THEN a ELSE f[at[j - 1]]]
<1> DEFINE Upto(n, g) == g \in [Nat -> D] /\ g[0] = a /\ \A j \in Nat : j < n
      => g[j + 1] = f[g[j]]
           Good == {n \in Nat : \E g : Upto(n, g)}
<1>1. 0 \in Good
  <2>1. Upto(0, [j \in Nat |-> a])
    OBVIOUS
  <2> QED
    BY <2>1
<1>2. ASSUME NEW n \in Nat, n \in Good PROVE n + 1 \in Good
  <2>1. PICK g : Upto(n, g)
    BY <1>2
  <2>2. PICK g2 : g2 = [j \in Nat |-> IF j = n + 1 THEN f[g[n]] ELSE g[j]]
    OBVIOUS
  <2>3. g2 \in [Nat -> D] /\ g2[0] = a
    BY <2>1, <2>2
  <2>4. ASSUME NEW j \in Nat, j < n + 1 PROVE g2[j + 1] = f[g2[j]]
    <3>1. CASE j = n
      BY <2>2, <3>1
    <3>2. CASE j < n
      BY <2>1, <2>2, <3>2
    <3> QED
      BY <2>4, <3>1, <3>2
  <2> QED
    BY <2>3, <2>4
<1>3. Nat \subseteq Good
  <2> HIDE DEF Good
  <2> QED
    BY <1>1, <1>2, SetInduction
<1>4. \A n \in Nat : \E g : Upto(n, g)
  BY <1>3
<1> DEFINE G == [n \in Nat |-> CHOOSE g : Upto(n, g)]
<1>5. \A n \in Nat : Upto(n, G[n])
  <2> HIDE DEF Upto
  <2> QED
    BY <1>4
<1> HIDE DEF G
<1>6. ASSUME NEW n \in Nat PROVE G[n + 1][n] = G[n][n]
  <2> DEFINE Same == {j \in Nat : j <= n => G[n + 1][j] = G[n][j]}
  <2>1. Upto(n, G[n]) /\ Upto(n + 1, G[n + 1])
    BY <1>5
  <2>2. 0 \in Same
    BY <2>1
  <2>3. ASSUME NEW j \in Nat, j \in Same PROVE j + 1 \in Same
    <3>1. j + 1 <= n => j < n /\ j < n + 1 /\ j <= n
      OBVIOUS
    <3>2. j + 1 <= n => G[n + 1][j + 1] = f[G[n + 1][j]] /\ G[n][j + 1] = f[G[n][j]]
      BY <2>1, <3>1
    <3> QED
      BY <2>3, <3>1, <3>2
  <2>4. Nat \subseteq Same
    <3> HIDE DEF Same
    <3> QED
      BY <2>2, <2>3, SetInduction
  <2> QED
    BY <2>4
<1>7. PICK h : h = [n \in Nat |-> G[n][n]]
  OBVIOUS
<1>8. ASSUME NEW j \in Nat PROVE h[j] = IF j = 0 THEN a ELSE f[h[j - 1]]
  <2>1. CASE j = 0
    BY <1>5, <1>7, <2>1
  <2>2. CASE j # 0
    <3>1. PICK m \in Nat : m = j - 1 /\ m + 1 = j /\ m < j
      BY <2>2
    <3>2. G[j][m + 1] = f[G[j][m]]
      BY <1>5, <3>1
    <3>3. G[m + 1][m] = G[m][m]
      BY <1>6
    <3> QED
      BY <1>7, <2>2, <3>1, <3>2, <3>3
  <2> QED
    BY <2>1, <2>2
<1>9. h = [j \in Nat |-> IF j = 0 THEN a ELSE f[h[j - 1]]]
  BY <1>7, <1>8
<1> QED
  BY <1>9

\* The same, read step by step.
LEMMA Iteration ==
  ASSUME NEW D, NEW a \in D, NEW f \in [D -> D]
  PROVE  \E at \in [Nat -> D] : at[0] = a /\ \A j \in Nat : at[j + 1] = f[at[j]]
<1>1. PICK at : at = [j \in Nat |-> IF j = 0 THEN a ELSE f[at[j - 1]]]
  BY Recursion
<1>2. at[0] = a
  BY <1>1
<1>3. ASSUME NEW j \in Nat PROVE at[j + 1] = f[at[j]]
  <2>1. j + 1 \in Nat /\ j + 1 # 0 /\ (j + 1) - 1 = j
    OBVIOUS
  <2> QED BY <1>1, <2>1
<1>4. \A j \in Nat : at[j] \in D
  <2> DEFINE Good == {j \in Nat : at[j] \in D}
  <2>1. 0 \in Good
    BY <1>2
  <2>2. \A n \in Nat : n \in Good => n + 1 \in Good
    BY <1>3
  <2>3. Nat \subseteq Good
    <3> HIDE DEF Good
    <3> QED BY <2>1, <2>2, SetInduction
  <2> QED BY <2>3
<1> QED BY <1>1, <1>2, <1>3, <1>4

-----------------------------------------------------------------------------
(* Sequences put together from pieces. *)

\* The pieces up to each, one after the other.
Joins(seqs, at) ==
  /\ at[0] = <<>>
  /\ \A i \in 1 .. Len(seqs) : at[i] = at[i - 1] \o seqs[i]

LEMMA JoinsExist ==
  ASSUME NEW S, NEW seqs, seqs \in Seq(Seq(S))
  PROVE  \E at \in [0 .. Len(seqs) -> Seq(S)] : Joins(seqs, at)
<1> DEFINE n == Len(seqs)
           D == Nat \X Seq(S)
           More(p) == IF p[1] < n THEN p[2] \o seqs[p[1] + 1] ELSE p[2]
<1>1. n \in Nat /\ \A i \in 1 .. n : seqs[i] \in Seq(S)
  BY ElementOfSeq
<1>2. PICK f : f = [p \in D |-> <<p[1] + 1, More(p)>>]
  OBVIOUS
<1>3. \A p \in D : p[1] \in Nat /\ p[2] \in Seq(S) /\ More(p) \in Seq(S)
  <2> SUFFICES ASSUME NEW p \in D PROVE p[1] \in Nat /\ p[2] \in Seq(S) /\ More(p) \in Seq(S)
    OBVIOUS
  <2>1. p[1] \in Nat /\ p[2] \in Seq(S)
    OBVIOUS
  <2>2. CASE p[1] < n
    <3>1. seqs[p[1] + 1] \in Seq(S)
      BY <1>1, <2>1, <2>2
    <3> QED BY <2>1, <2>2, <3>1, ConcatProperties
  <2>3. CASE ~(p[1] < n)
    BY <2>1, <2>3
  <2> QED BY <2>1, <2>2, <2>3
<1> HIDE DEF n, More
<1>4. f \in [D -> D]
  BY <1>2, <1>3
<1>5. <<0, <<>>>> \in D
  <2>1. <<>> \in Seq(S)
    BY EmptySeq
  <2> QED BY <2>1
<1> HIDE DEF D
<1>6. PICK g \in [Nat -> D] : g[0] = <<0, <<>>>> /\ \A j \in Nat : g[j + 1] = f[g[j]]
  <2>1. PICK E : E = D
    OBVIOUS
  <2>2. PICK a : a = <<0, <<>>>>
    OBVIOUS
  <2>3. a \in E /\ f \in [E -> E]
    BY <1>4, <1>5, <2>1, <2>2
  <2>4. \E g \in [Nat -> E] : g[0] = a /\ \A j \in Nat : g[j + 1] = f[g[j]]
    BY ONLY <2>3, Iteration
  <2> QED BY <2>1, <2>2, <2>4
<1>7. \A j \in Nat : g[j] \in D /\ g[j][1] = j
  <2> DEFINE Good == {j \in Nat : g[j][1] = j}
  <2>1. 0 \in Good
    BY <1>6
  <2>2. ASSUME NEW j \in Nat, j \in Good PROVE j + 1 \in Good
    <3>1. g[j + 1] = f[g[j]] /\ g[j] \in D
      BY <1>6
    <3>2. g[j + 1] = <<j + 1, More(g[j])>>
      BY <1>2, <2>2, <3>1
    <3> QED BY <3>2
  <2>3. Nat \subseteq Good
    <3> HIDE DEF Good
    <3> QED BY <2>1, <2>2, SetInduction
  <2> QED BY <1>6, <2>3
<1>8. PICK at : at = [i \in 0 .. n |-> g[i][2]]
  OBVIOUS
<1>9. at \in [0 .. n -> Seq(S)]
  BY <1>7, <1>8 DEF D
<1>10. at[0] = <<>>
  BY <1>1, <1>5, <1>6, <1>8
<1>11. ASSUME NEW i \in 1 .. n PROVE at[i] = at[i - 1] \o seqs[i]
  <2>1. i \in Nat /\ i # 0 /\ i - 1 \in Nat /\ i - 1 < n /\ (i - 1) + 1 = i
          /\ i - 1 \in 0 .. n /\ i \in 0 .. n
    BY <1>1
  <2>2. g[i] = f[g[i - 1]] /\ g[i - 1] \in D
    BY <1>6, <2>1
  <2>3. g[i] = <<g[i - 1][1] + 1, More(g[i - 1])>>
    BY <1>2, <1>7, <2>1, <2>2
  <2>4. g[i][2] = More(g[i - 1]) /\ g[i - 1][1] = i - 1
    BY <1>7, <2>1, <2>3
  <2>5. More(g[i - 1]) = g[i - 1][2] \o seqs[i]
    BY <2>1, <2>4 DEF More
  <2> QED BY <1>8, <2>1, <2>4, <2>5
<1> QED BY <1>9, <1>10, <1>11 DEF Joins, n

\* What FlattenSeq makes of a sequence that is not empty.
Flattened(seqs) ==
  LET flatten[i \in 1 .. Len(seqs)] ==
        IF i = 1 THEN seqs[i] ELSE flatten[i - 1] \o seqs[i]
  IN  flatten

LEMMA FlattenIsLast ==
  ASSUME NEW S, NEW seqs, seqs \in Seq(Seq(S)),
         NEW at, at \in [0 .. Len(seqs) -> Seq(S)], Joins(seqs, at)
  PROVE  FlattenSeq(seqs) = at[Len(seqs)]
<1> DEFINE n == Len(seqs)
<1>1. n \in Nat /\ \A i \in 1 .. n : seqs[i] \in Seq(S)
  BY ElementOfSeq
<1>2. CASE n = 0
  <2>1. FlattenSeq(seqs) = seqs
    BY <1>2 DEF FlattenSeq
  <2>2. seqs = <<>>
    BY <1>2, EmptySeq
  <2> QED BY <1>2, <2>1, <2>2 DEF Joins
<1>3. CASE n # 0
  <2>1. FlattenSeq(seqs) = Flattened(seqs)[n]
    BY <1>3 DEF FlattenSeq, Flattened
  <2>2. PICK h : h = [i \in 1 .. n |-> at[i]]
    OBVIOUS
  <2>3. h = [i \in 1 .. n |-> IF i = 1 THEN seqs[i] ELSE h[i - 1] \o seqs[i]]
    <3>1. ASSUME NEW i \in 1 .. n PROVE h[i] = IF i = 1 THEN seqs[i] ELSE h[i - 1] \o seqs[i]
      <4>1. at[i] = at[i - 1] \o seqs[i]
        BY DEF Joins
      <4>2. CASE i = 1
        <5>1. at[i - 1] = <<>>
          BY <4>2 DEF Joins
        <5>2. <<>> \o seqs[i] = seqs[i]
          BY <1>1, ConcatEmptySeq
        <5> QED BY <2>2, <4>1, <4>2, <5>1, <5>2
      <4>3. CASE i # 1
        <5>1. i - 1 \in 1 .. n
          BY <1>1, <4>3
        <5> QED BY <2>2, <4>1, <4>3, <5>1
      <4> QED BY <4>2, <4>3
    <3> QED BY <2>2, <3>1
  <2>4. Flattened(seqs) = CHOOSE f :
          f = [i \in 1 .. n |-> IF i = 1 THEN seqs[i] ELSE f[i - 1] \o seqs[i]]
    BY DEF Flattened
  <2>5. PICK f : f = Flattened(seqs)
          /\ f = [i \in 1 .. n |-> IF i = 1 THEN seqs[i] ELSE f[i - 1] \o seqs[i]]
    BY <2>3, <2>4
  <2>6. \A i \in 1 .. n : f[i] = at[i]
    <3> DEFINE Good == {j \in Nat : j + 1 <= n => f[j + 1] = at[j + 1]}
    <3>1. 0 \in Good
      <4>1. 0 + 1 = 1 /\ 1 \in 1 .. n /\ 1 - 1 = 0
        BY <1>1, <1>3
      <4>2. f[1] = seqs[1]
        BY <2>5, <4>1
      <4>3. at[1] = <<>> \o seqs[1]
        BY <4>1 DEF Joins
      <4>4. at[1] = seqs[1]
        BY <1>1, <4>1, <4>3, ConcatEmptySeq
      <4> QED BY <4>1, <4>2, <4>4
    <3>2. ASSUME NEW j \in Nat, j \in Good PROVE j + 1 \in Good
      <4> SUFFICES ASSUME (j + 1) + 1 <= n PROVE f[(j + 1) + 1] = at[(j + 1) + 1]
        OBVIOUS
      <4>1. PICK i : i = (j + 1) + 1
        OBVIOUS
      <4>2. i \in 1 .. n /\ i # 1 /\ i - 1 = j + 1 /\ j + 1 <= n
        BY <1>1, <4>1
      <4>3. f[i] = f[i - 1] \o seqs[i]
        BY <2>5, <4>2
      <4>4. f[i - 1] = at[i - 1]
        BY <3>2, <4>2
      <4>5. at[i] = at[i - 1] \o seqs[i]
        BY <4>2 DEF Joins
      <4> QED BY <4>1, <4>3, <4>4, <4>5
    <3>3. Nat \subseteq Good
      <4> HIDE DEF Good
      <4> QED BY <3>1, <3>2, SetInduction
    <3>4. ASSUME NEW i \in 1 .. n PROVE f[i] = at[i]
      <4>1. i - 1 \in Nat /\ (i - 1) + 1 = i /\ i <= n
        BY <1>1
      <4>2. i - 1 \in Good
        BY <3>3, <4>1
      <4> QED BY <4>1, <4>2
    <3> QED BY <3>4
  <2>7. n \in 1 .. n
    BY <1>1, <1>3
  <2> QED BY <2>1, <2>5, <2>6, <2>7
<1> QED BY <1>2, <1>3

\* The pieces of two sequences, one after the other.
LEMMA FlattenConcat ==
  ASSUME NEW S, NEW s, s \in Seq(Seq(S)), NEW t, t \in Seq(Seq(S))
  PROVE  FlattenSeq(s \o t) = FlattenSeq(s) \o FlattenSeq(t)
<1> DEFINE m == Len(s)
           n == Len(t)
           D == Seq(S)
<1>1. PICK a \in [0 .. m -> D] : Joins(s, a)
  BY JoinsExist
<1>2. PICK b \in [0 .. n -> D] : Joins(t, b)
  BY JoinsExist
<1>3. FlattenSeq(s) = a[m] /\ FlattenSeq(t) = b[n]
  BY <1>1, <1>2, FlattenIsLast
<1>4. /\ m \in Nat /\ n \in Nat
      /\ \A i \in 1 .. m : s[i] \in D
      /\ \A i \in 1 .. n : t[i] \in D
  BY ElementOfSeq
<1>5. /\ a[0] = <<>> /\ \A i \in 1 .. m : a[i] = a[i - 1] \o s[i]
      /\ b[0] = <<>> /\ \A i \in 1 .. n : b[i] = b[i - 1] \o t[i]
  BY <1>1, <1>2 DEF Joins
<1> DEFINE u == s \o t
<1>6. /\ u \in Seq(Seq(S)) /\ Len(u) = m + n
      /\ \A i \in 1 .. m + n : u[i] = IF i <= m THEN s[i] ELSE t[i - m]
  BY ConcatProperties
<1> HIDE DEF m, n, u
<1>7. PICK c : c = [i \in 0 .. m + n |-> IF i <= m THEN a[i] ELSE a[m] \o b[i - m]]
  OBVIOUS
<1>8. /\ \A x, y \in D : x \o y \in D
      /\ \A x \in D : x \o <<>> = x
      /\ \A x, y, z \in D : (x \o y) \o z = x \o (y \o z)
  BY ConcatProperties, ConcatEmptySeq, ConcatAssociative
<1> HIDE DEF D
<1>9. a[m] \in D /\ \A i \in 0 .. n : b[i] \in D /\ a[m] \o b[i] \in D
  BY <1>1, <1>2, <1>4, <1>8
<1>10. c \in [0 .. m + n -> D]
  <2> SUFFICES ASSUME NEW i \in 0 .. m + n PROVE c[i] \in D
    BY <1>7
  <2>1. CASE i <= m
    BY <1>1, <1>4, <1>7, <2>1
  <2>2. CASE ~(i <= m)
    BY <1>4, <1>7, <1>9, <2>2
  <2> QED BY <2>1, <2>2
<1>11. \A j \in 0 .. n : c[m + j] = a[m] \o b[j]
  <2> SUFFICES ASSUME NEW j \in 0 .. n PROVE c[m + j] = a[m] \o b[j]
    OBVIOUS
  <2>1. CASE j = 0
    <3>1. c[m + j] = a[m]
      BY <1>4, <1>7, <2>1
    <3>2. a[m] \o <<>> = a[m]
      BY <1>8, <1>9
    <3> QED BY <1>5, <2>1, <3>1, <3>2
  <2>2. CASE j # 0
    <3>1. m + j \in 0 .. m + n /\ ~(m + j <= m) /\ (m + j) - m = j
      BY <1>4, <2>2
    <3> QED BY <1>7, <3>1
  <2> QED BY <2>1, <2>2
<1>12. ASSUME NEW i \in 1 .. m + n PROVE c[i] = c[i - 1] \o u[i]
  <2>1. CASE i <= m
    <3>1. /\ i \in 1 .. m /\ i \in 0 .. m + n /\ i - 1 \in 0 .. m + n /\ i - 1 <= m
      BY <1>4, <2>1
    <3>2. c[i] = a[i] /\ c[i - 1] = a[i - 1]
      BY <1>7, <2>1, <3>1
    <3> QED BY <1>5, <1>6, <2>1, <3>1, <3>2
  <2>2. CASE ~(i <= m)
    <3>1. PICK j \in 1 .. n : i = m + j
      <4>1. i - m \in 1 .. n /\ i = m + (i - m)
        BY <1>4, <2>2
      <4> QED BY <4>1
    <3>2. j \in 0 .. n /\ j - 1 \in 0 .. n /\ m + (j - 1) = i - 1 /\ i - m = j
      BY <1>4, <3>1
    <3>3. c[i] = a[m] \o b[j] /\ c[i - 1] = a[m] \o b[j - 1]
      BY <1>11, <3>1, <3>2
    <3>4. b[j] = b[j - 1] \o t[j]
      BY <1>5, <3>1
    <3>5. u[i] = t[j] /\ t[j] \in D
      BY <1>4, <1>6, <2>2, <3>2
    <3>6. (a[m] \o b[j - 1]) \o t[j] = a[m] \o (b[j - 1] \o t[j])
      <4>1. a[m] \in D /\ b[j - 1] \in D /\ t[j] \in D
        BY <1>9, <3>2, <3>5
      <4>2. \A x, y, z \in D : (x \o y) \o z = x \o (y \o z)
        BY <1>8
      <4> QED BY ONLY <4>1, <4>2
    <3> QED BY <3>3, <3>4, <3>5, <3>6
  <2> QED BY <2>1, <2>2
<1>13. Joins(u, c)
  <2>1. c[0] = <<>>
    BY <1>4, <1>5, <1>7
  <2> QED BY <1>6, <1>12, <2>1 DEF Joins
<1>14. FlattenSeq(u) = c[Len(u)]
  <2>1. u \in Seq(Seq(S)) /\ c \in [0 .. Len(u) -> Seq(S)]
    BY <1>6, <1>10 DEF D
  <2> QED BY <1>13, <2>1, FlattenIsLast
<1>15. c[m + n] = a[m] \o b[n]
  <2>1. n \in 0 .. n
    BY <1>4
  <2> QED BY <1>11, <2>1
<1> QED BY <1>3, <1>6, <1>14, <1>15 DEF u
=============================================================================
