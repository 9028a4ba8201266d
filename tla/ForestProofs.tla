---------------------------- MODULE ForestProofs ----------------------------
(***************************************************************************)
(* For every number of nodes and every set of keys: the operations on the  *)
(* links implement the operations of Forest on sequences of children.      *)
(*                                                                         *)
(* A list is read from the links by a recursive function.  What it returns *)
(* is shown to be the one sequence the links spell (Spells), so each edit  *)
(* of the links needs only a sequence that the new links spell.  Facts     *)
(* about every position of a list are proved by looking at the least       *)
(* position that breaks them.                                              *)
(***************************************************************************)
EXTENDS ArenaForest, ArenaTreesProofs, FiniteSetTheorems, FunctionTheorems, SequenceTheorems

-----------------------------------------------------------------------------
(* The sequence a list of links spells. *)

\* s is what nx leads through from h, one node after the other, to the end.
Spells(nx, h, s) ==
  /\ s \in Seq(NodeIds)
  /\ Len(s) = 0 => h = None
  /\ Len(s) > 0 => h = s[1]
  /\ \A j \in 1 .. Len(s) : /\ j = Len(s) => nx[s[j]] = None
                            /\ j < Len(s) => nx[s[j]] = s[j + 1]

\* Nodes are not None.
LEMMA SpellsNodes ==
  ASSUME NEW nx, NEW h, NEW s, Spells(nx, h, s)
  PROVE  /\ Len(s) \in Nat /\ DOMAIN s = 1 .. Len(s)
         /\ \A j \in 1 .. Len(s) : s[j] \in NodeIds /\ s[j] # None
         /\ h = None <=> Len(s) = 0
BY NoneAssumption DEF Spells

\* A sequence that links spell agrees with every other one as far as it goes.
LEMMA SpellsAgree ==
  ASSUME NEW nx, NEW h, NEW s, NEW t, Spells(nx, h, s), Spells(nx, h, t)
  PROVE  \A j \in 1 .. Len(s) : j <= Len(t) /\ s[j] = t[j]
<1> DEFINE Bad == {j \in 1 .. Len(s) : ~(j <= Len(t) /\ s[j] = t[j])}
<1> SUFFICES ASSUME Bad # {} PROVE FALSE
  OBVIOUS
<1>1. /\ Len(s) \in Nat /\ Len(t) \in Nat
      /\ \A j \in 1 .. Len(s) : s[j] \in NodeIds /\ s[j] # None
      /\ \A j \in 1 .. Len(t) : t[j] \in NodeIds /\ t[j] # None
      /\ h = None <=> Len(s) = 0
      /\ h = None <=> Len(t) = 0
  BY SpellsNodes
<1>2. PICK x \in Bad : \A y \in Bad : x <= y
  <2>1. Bad \subseteq Nat
    OBVIOUS
  <2> QED
    BY <2>1, LeastNatural
<1>3. CASE x = 1
  BY <1>1, <1>2, <1>3 DEF Spells
<1>4. CASE x # 1
  <2>1. x - 1 \in 1 .. Len(s) /\ x - 1 \notin Bad /\ x \in 1 .. Len(s) /\ (x - 1) + 1 = x /\ x \in Nat
    BY <1>1, <1>2, <1>4
  <2>2. x - 1 \in 1 .. Len(t) /\ s[x - 1] = t[x - 1]
    BY <1>1, <2>1
  <2>3. nx[s[x - 1]] = s[x]
    BY <1>1, <2>1 DEF Spells
  <2>4. x - 1 < Len(t) /\ t[x] = nx[t[x - 1]]
    <3>1. x - 1 # Len(t)
      BY <1>1, <2>1, <2>2, <2>3 DEF Spells
    <3> QED
      BY <1>1, <2>1, <2>2, <3>1 DEF Spells
  <2>5. x <= Len(t) /\ s[x] = t[x]
    BY <1>1, <2>1, <2>2, <2>3, <2>4
  <2> QED
    BY <1>2, <2>5
<1> QED
  BY <1>3, <1>4

\* Links spell one sequence.
LEMMA SpellsOne ==
  ASSUME NEW nx, NEW h, NEW s, NEW t, Spells(nx, h, s), Spells(nx, h, t)
  PROVE  s = t
<1>1. /\ \A j \in 1 .. Len(s) : j <= Len(t) /\ s[j] = t[j]
      /\ \A j \in 1 .. Len(t) : j <= Len(s) /\ t[j] = s[j]
  BY SpellsAgree
<1>2. Len(s) \in Nat /\ Len(t) \in Nat
  BY SpellsNodes
<1>3. Len(s) = Len(t)
  <2>1. CASE Len(s) = 0
    BY <1>1, <1>2, <2>1
  <2>2. CASE Len(s) # 0 /\ Len(t) # 0
    BY <1>1, <1>2, <2>2
  <2>3. CASE Len(t) = 0
    BY <1>1, <1>2, <2>3
  <2> QED
    BY <2>1, <2>2, <2>3
<1>4. s \in Seq(NodeIds) /\ t \in Seq(NodeIds)
  BY DEF Spells
<1> QED
  BY <1>1, <1>3, <1>4

\* What the links spell stays in every set that is closed under them.
LEMMA SpellsInside ==
  ASSUME NEW nx, NEW h, NEW s, Spells(nx, h, s), NEW S, h \in S \cup {None},
         \A m \in S : nx[m] \in S \cup {None}
  PROVE  \A j \in 1 .. Len(s) : s[j] \in S
<1> DEFINE Bad == {j \in 1 .. Len(s) : s[j] \notin S}
<1> SUFFICES ASSUME Bad # {} PROVE FALSE
  OBVIOUS
<1>1. Len(s) \in Nat /\ \A j \in 1 .. Len(s) : s[j] # None
  BY SpellsNodes
<1>2. PICK x \in Bad : \A y \in Bad : x <= y
  <2>1. Bad \subseteq Nat
    OBVIOUS
  <2> QED
    BY <2>1, LeastNatural
<1>3. CASE x = 1
  BY <1>1, <1>2, <1>3 DEF Spells
<1>4. CASE x # 1
  <2>1. x - 1 \in 1 .. Len(s) /\ x - 1 \notin Bad /\ (x - 1) + 1 = x /\ x - 1 < Len(s)
    BY <1>1, <1>2, <1>4
  <2>2. nx[s[x - 1]] = s[x] /\ s[x - 1] \in S
    BY <2>1 DEF Spells
  <2> QED
    BY <1>1, <1>2, <2>2
<1> QED
  BY <1>3, <1>4

\* Two lists that meet are one: pv leads back to the head, which has none before it.
TwoLists(L, nx, pv, h, s, g, t) ==
  /\ Spells(nx, h, s) /\ Spells(nx, g, t)
  /\ \A j \in 1 .. Len(s) : s[j] \in L
  /\ \A j \in 1 .. Len(t) : t[j] \in L
  /\ \A m, n \in L : nx[m] = n <=> pv[n] = m
  /\ h # None => pv[h] = None
  /\ g # None => pv[g] = None

LEMMA SpellsApart ==
  ASSUME NEW L, NEW nx, NEW pv, NEW h, NEW s, NEW g, NEW t, TwoLists(L, nx, pv, h, s, g, t)
  PROVE  \A i \in 1 .. Len(s), j \in 1 .. Len(t) : s[i] = t[j] => h = g /\ i = j
<1> USE DEF TwoLists
<1> DEFINE Bad == {i \in 1 .. Len(s) : \E j \in 1 .. Len(t) : s[i] = t[j] /\ ~(h = g /\ i = j)}
<1> SUFFICES ASSUME Bad # {} PROVE FALSE
  OBVIOUS
<1>1. /\ Len(s) \in Nat /\ Len(t) \in Nat
      /\ \A j \in 1 .. Len(s) : s[j] \in NodeIds /\ s[j] # None
      /\ \A j \in 1 .. Len(t) : t[j] \in NodeIds /\ t[j] # None
  BY SpellsNodes
<1>2. PICK x \in Bad : \A y \in Bad : x <= y
  <2>1. Bad \subseteq Nat
    OBVIOUS
  <2> QED
    BY <2>1, LeastNatural
<1>3. PICK j \in 1 .. Len(t) : s[x] = t[j] /\ ~(h = g /\ x = j)
  BY <1>2
<1>4. x \in 1 .. Len(s) /\ x \in Nat /\ j \in Nat
  BY <1>1, <1>2
<1>5. \A i \in 1 .. Len(s) : i # 1 => i - 1 \in 1 .. Len(s) /\ pv[s[i]] = s[i - 1] /\ s[i - 1] # None
  <2> SUFFICES ASSUME NEW i \in 1 .. Len(s), i # 1
               PROVE  i - 1 \in 1 .. Len(s) /\ pv[s[i]] = s[i - 1] /\ s[i - 1] # None
    OBVIOUS
  <2>1. i - 1 \in 1 .. Len(s) /\ i - 1 < Len(s) /\ (i - 1) + 1 = i
    BY <1>1
  <2>2. nx[s[i - 1]] = s[i]
    BY <2>1 DEF Spells
  <2> QED
    BY <1>1, <2>1, <2>2
<1>6. \A i \in 1 .. Len(t) : i # 1 => i - 1 \in 1 .. Len(t) /\ pv[t[i]] = t[i - 1] /\ t[i - 1] # None
  <2> SUFFICES ASSUME NEW i \in 1 .. Len(t), i # 1
               PROVE  i - 1 \in 1 .. Len(t) /\ pv[t[i]] = t[i - 1] /\ t[i - 1] # None
    OBVIOUS
  <2>1. i - 1 \in 1 .. Len(t) /\ i - 1 < Len(t) /\ (i - 1) + 1 = i
    BY <1>1
  <2>2. nx[t[i - 1]] = t[i]
    BY <2>1 DEF Spells
  <2> QED
    BY <1>1, <2>1, <2>2
<1>7. /\ Len(s) > 0 /\ Len(t) > 0 /\ h = s[1] /\ g = t[1] /\ h # None /\ g # None
      /\ 1 \in 1 .. Len(s) /\ 1 \in 1 .. Len(t)
  BY <1>1, <1>3, <1>4 DEF Spells
<1>8. CASE x = 1 /\ j = 1
  BY <1>3, <1>7, <1>8
<1>9. CASE x = 1 /\ j # 1
  <2>1. pv[t[j]] = t[j - 1] /\ t[j - 1] # None
    BY <1>6, <1>9
  <2> QED
    BY <1>3, <1>7, <1>9, <2>1
<1>10. CASE x # 1 /\ j = 1
  BY <1>3, <1>4, <1>5, <1>7, <1>10
<1>11. CASE x # 1 /\ j # 1
  <2>4. x - 1 \in 1 .. Len(s) /\ pv[s[x]] = s[x - 1]
    BY <1>4, <1>5, <1>11
  <2>5. j - 1 \in 1 .. Len(t) /\ pv[t[j]] = t[j - 1]
    BY <1>6, <1>11
  <2>1. s[x - 1] = t[j - 1] /\ x - 1 \in 1 .. Len(s) /\ j - 1 \in 1 .. Len(t)
    BY <1>3, <2>4, <2>5
  <2>2. ~(h = g /\ x - 1 = j - 1)
    BY <1>3, <1>4
  <2>3. x - 1 \in Bad
    BY <2>1, <2>2
  <2> HIDE DEF Bad
  <2>6. x <= x - 1
    BY ONLY <1>2, <2>3
  <2>7. x \in Nat
    BY ONLY <1>4
  <2> QED
    BY ONLY <2>6, <2>7
<1> QED
  BY <1>8, <1>9, <1>10, <1>11

-----------------------------------------------------------------------------
(* The children of the arena's nodes. *)

LEMMA SoundFacts ==
  ASSUME NEW L, NEW ref, NEW nx, NEW pv, NEW ch, Sound(L, ref, nx, pv, ch)
  PROVE  /\ L \subseteq NodeIds /\ None \notin NodeIds /\ None \notin L
         /\ nx \in [NodeIds -> Link] /\ pv \in [NodeIds -> Link] /\ ch \in [NodeIds -> Link]
         /\ ref \in [NodeIds -> BOOLEAN]
         /\ \A m \in L : /\ nx[m] \in L \cup {None} /\ pv[m] \in L \cup {None}
                         /\ ref[m] \/ ch[m] \in L \cup {None}
         /\ \A m \in NodeIds \ L : nx[m] = None /\ pv[m] = None /\ ch[m] = None
         /\ \A m, n \in L : nx[m] = n <=> pv[n] = m
         /\ \A p \in L : ~ref[p] /\ ch[p] # None => pv[ch[p]] = None
         /\ \A p, q \in L : ~ref[p] /\ ~ref[q] /\ ch[p] # None /\ ch[p] = ch[q] => p = q
         /\ \A n \in L : Unheld(L, ref, nx, ch, n) => nx[n] = None /\ pv[n] = None
BY NoneIsNoNode DEF Sound, Typed, Consistent, Into, OneOwner, Alone

\* What a list of links reads from h, position by position, and how long it is: the
\* parts of Kids.
ReadFrom(nx, h) ==
  CHOOSE at : at = [j \in Nat |-> IF j = 0 THEN h
                                  ELSE IF at[j - 1] = None THEN None ELSE nx[at[j - 1]]]
LengthOf(at) == CHOOSE l \in 0 .. MaxNodes : at[l] = None /\ \A j \in 0 .. l - 1 : at[j] # None

LEMMA KidsIs ==
  ASSUME NEW p, OwnsList(p)
  PROVE  Kids(p) = [j \in 1 .. LengthOf(ReadFrom(next, child[p])) |-> ReadFrom(next, child[p])[j - 1]]
BY DEF Kids, ReadFrom, LengthOf

LEMMA ReadFromReads ==
  ASSUME NEW nx \in [NodeIds -> Link], NEW h \in Link, NEW at, at = ReadFrom(nx, h)
  PROVE  at[0] = h /\ \A j \in Nat : at[j + 1] = IF at[j] = None THEN None ELSE nx[at[j]]
<1>1. PICK f : f = [x \in Link |-> IF x = None THEN None ELSE nx[x]]
  OBVIOUS
<1>2. f \in [Link -> Link]
  BY <1>1 DEF Link
<1>4. PICK g : g = [j \in Nat |-> IF j = 0 THEN h ELSE f[g[j - 1]]]
  BY <1>2, Recursion
<1>5. \A j \in Nat : g[j] \in Link
  <2> DEFINE Good == {j \in Nat : g[j] \in Link}
  <2>1. 0 \in Good
    BY <1>4
  <2>2. \A n \in Nat : n \in Good => n + 1 \in Good
    <3> SUFFICES ASSUME NEW n \in Nat, n \in Good PROVE n + 1 \in Good
      OBVIOUS
    <3>1. n + 1 \in Nat /\ n + 1 # 0 /\ (n + 1) - 1 = n
      OBVIOUS
    <3>2. g[n + 1] = f[g[n]]
      BY <1>4, <3>1
    <3> QED
      BY <1>2, <3>1, <3>2
  <2>3. Nat \subseteq Good
    <3> HIDE DEF Good
    <3> QED
      BY <2>1, <2>2, SetInduction
  <2> QED
    BY <2>3
<1>6. g = [j \in Nat |-> IF j = 0 THEN h ELSE IF g[j - 1] = None THEN None ELSE nx[g[j - 1]]]
  <2>1. ASSUME NEW j \in Nat
        PROVE  g[j] = IF j = 0 THEN h ELSE IF g[j - 1] = None THEN None ELSE nx[g[j - 1]]
    <3>1. CASE j = 0
      BY <1>4, <3>1
    <3>2. CASE j # 0
      <4>1. j - 1 \in Nat
        BY <3>2
      <4>2. g[j] = f[g[j - 1]] /\ g[j - 1] \in Link
        BY <1>4, <1>5, <3>2, <4>1
      <4> QED
        BY <1>1, <3>2, <4>2
    <3> QED
      BY <3>1, <3>2
  <2>2. g = [j \in Nat |-> g[j]]
    BY <1>4
  <2> QED
    BY <2>1, <2>2
<1>7. at = [j \in Nat |-> IF j = 0 THEN h ELSE IF at[j - 1] = None THEN None ELSE nx[at[j - 1]]]
  BY <1>6 DEF ReadFrom
<1>8. ASSUME NEW j \in Nat PROVE at[j + 1] = IF at[j] = None THEN None ELSE nx[at[j]]
  <2>1. j + 1 \in Nat /\ j + 1 # 0 /\ (j + 1) - 1 = j
    OBVIOUS
  <2> HIDE DEF Link
  <2>2. at[j + 1] = IF j + 1 = 0 THEN h ELSE IF at[(j + 1) - 1] = None THEN None ELSE nx[at[(j + 1) - 1]]
    BY <1>7, <2>1
  <2> QED
    BY <2>1, <2>2
<1>9. at[0] = h
  BY <1>7
<1> QED
  BY <1>8, <1>9

LEMMA NodeIdsFinite == IsFiniteSet(NodeIds) /\ Cardinality(NodeIds) = MaxNodes
<1>1. 0 \in Int /\ MaxNodes - 1 \in Int /\ MaxNodes \in Nat
  BY MaxNodesAssumption
<1>2. /\ IsFiniteSet(0 .. MaxNodes - 1)
      /\ Cardinality(0 .. MaxNodes - 1) = IF 0 > MaxNodes - 1 THEN 0 ELSE (MaxNodes - 1) - 0 + 1
  BY <1>1, FS_Interval
<1> QED
  BY <1>1, <1>2 DEF NodeIds

\* A list of the arena ends after at most MaxNodes nodes, because none comes twice.
LEMMA KidsSpell ==
  ASSUME Sound(Live, isRef, next, prev, child), NEW p, OwnsList(p)
  PROVE  Spells(next, child[p], Kids(p))
<1>1. PICK at, l : at = ReadFrom(next, child[p]) /\ l = LengthOf(at)
  OBVIOUS
<1>2. /\ Live \subseteq NodeIds /\ None \notin NodeIds /\ None \notin Live
      /\ next \in [NodeIds -> Link] /\ child \in [NodeIds -> Link]
      /\ \A m \in Live : next[m] \in Live \cup {None} /\ prev[m] \in Live \cup {None}
      /\ \A m, n \in Live : next[m] = n <=> prev[n] = m
      /\ p \in Live /\ ~isRef[p]
      /\ child[p] \in Live \cup {None} /\ (child[p] # None => prev[child[p]] = None)
  BY SoundFacts DEF OwnsList
<1>3. at[0] = child[p] /\ \A j \in Nat : at[j + 1] = IF at[j] = None THEN None ELSE next[at[j]]
  <2>1. child[p] \in Link
    BY <1>2
  <2> QED
    BY <1>1, <1>2, <2>1, ReadFromReads
<1>4. \A j \in Nat : at[j] \in Live \cup {None}
  <2> DEFINE Good == {j \in Nat : at[j] \in Live \cup {None}}
  <2>1. 0 \in Good
    BY <1>2, <1>3
  <2>2. \A n \in Nat : n \in Good => n + 1 \in Good
    BY <1>2, <1>3
  <2>3. Nat \subseteq Good
    <3> HIDE DEF Good
    <3> QED
      BY <2>1, <2>2, SetInduction
  <2> QED
    BY <2>3
\* Two positions that read the same node read none.
<1>5. \A x, y \in Nat : x < y /\ at[x] = at[y] => at[x] = None
  <2> DEFINE Bad == {x \in Nat : \E y \in Nat : x < y /\ at[x] = at[y] /\ at[x] # None}
  <2> SUFFICES ASSUME Bad # {} PROVE FALSE
    OBVIOUS
  <2>1. PICK x \in Bad : \A z \in Bad : x <= z
    <3>1. Bad \subseteq Nat
      OBVIOUS
    <3> QED
      BY <3>1, LeastNatural
  <2>2. PICK y \in Nat : x < y /\ at[x] = at[y] /\ at[x] # None
    BY <2>1
  <2>3. PICK v \in Nat : v + 1 = y
    <3>1. y - 1 \in Nat /\ (y - 1) + 1 = y
      BY <2>1, <2>2
    <3> QED
      BY <3>1
  <2>4. at[v] # None /\ next[at[v]] = at[y] /\ at[v] \in Live /\ at[y] \in Live
    BY <1>3, <1>4, <2>2, <2>3
  <2>5. prev[at[y]] = at[v]
    BY <1>2, <2>4
  <2>6. CASE x = 0
    BY <1>2, <1>3, <2>2, <2>4, <2>5, <2>6
  <2>7. CASE x # 0
    <3>1. PICK u \in Nat : u + 1 = x
      <4>1. x - 1 \in Nat /\ (x - 1) + 1 = x
        BY <2>1, <2>7
      <4> QED
        BY <4>1
    <3>2. at[u] # None /\ next[at[u]] = at[x] /\ at[u] \in Live /\ at[x] \in Live
      BY <1>3, <1>4, <2>2, <3>1
    <3>3. prev[at[x]] = at[u]
      BY <1>2, <3>2
    <3>4. at[u] = at[v] /\ u < v
      BY <2>1, <2>2, <2>3, <2>5, <3>1, <3>3
    <3>5. u \in Bad
      BY <3>2, <3>4
    <3> QED
      BY <2>1, <3>1, <3>5
  <2> QED
    BY <2>6, <2>7
<1>6. \E k \in 0 .. MaxNodes : at[k] = None
  <2> SUFFICES ASSUME \A k \in 0 .. MaxNodes : at[k] # None PROVE FALSE
    OBVIOUS
  <2> DEFINE P == 0 .. MaxNodes
             f == [k \in P |-> at[k]]
  <2>1. MaxNodes \in Nat /\ 0 \in Int
    BY MaxNodesAssumption
  <2>2. f \in [P -> NodeIds] /\ \A x \in P : f[x] = at[x] /\ x \in Nat
    BY <1>2, <1>4, <2>1
  <2>3. IsFiniteSet(P) /\ Cardinality(P) = IF 0 > MaxNodes THEN 0 ELSE MaxNodes - 0 + 1
    BY <2>1, FS_Interval
  <2>4. IsFiniteSet(NodeIds) /\ Cardinality(NodeIds) < Cardinality(P)
    BY <2>1, <2>3, NodeIdsFinite
  <2> HIDE DEF P, f
  <2>5. \E x, y \in P : x # y /\ f[x] = f[y]
    BY <2>2, <2>3, <2>4, FS_PigeonHole
  <2>6. PICK x \in P, y \in P : x # y /\ at[x] = at[y] /\ x \in Nat /\ y \in Nat
    BY <2>2, <2>5
  <2>7. at[x] = None
    <3>1. CASE x < y
      BY <1>5, <2>6, <3>1
    <3>2. CASE y < x
      BY <1>5, <2>6, <3>2
    <3> QED
      BY <2>6, <3>1, <3>2
  <2> QED
    BY <2>7 DEF P
<1>7. \E k \in 0 .. MaxNodes : at[k] = None /\ \A j \in 0 .. k - 1 : at[j] # None
  <2> DEFINE Ends == {k \in Nat : at[k] = None}
  <2>1. PICK e \in 0 .. MaxNodes : at[e] = None
    BY <1>6
  <2>2. e \in Ends /\ Ends \subseteq Nat /\ MaxNodes \in Nat
    BY <2>1, MaxNodesAssumption
  <2>3. PICK k \in Ends : \A y \in Ends : k <= y
    BY <2>2, LeastNatural
  <2>4. k \in 0 .. MaxNodes /\ \A j \in 0 .. k - 1 : j \notin Ends /\ j \in Nat
    BY <2>1, <2>2, <2>3
  <2> QED
    BY <2>3, <2>4
<1>8. l \in 0 .. MaxNodes /\ at[l] = None /\ \A j \in 0 .. l - 1 : at[j] # None
  BY <1>1, <1>7 DEF LengthOf
<1>9. l \in Nat
  BY <1>8, MaxNodesAssumption
<1> DEFINE s == [j \in 1 .. l |-> at[j - 1]]
<1>10. \A j \in 1 .. l : at[j - 1] \in NodeIds /\ j - 1 \in Nat /\ (j - 1) + 1 = j
  BY <1>2, <1>4, <1>8, <1>9
<1>11. s \in Seq(NodeIds) /\ Len(s) = l /\ \A j \in 1 .. l : s[j] = at[j - 1]
  BY <1>9, <1>10
<1> HIDE DEF s
<1>12. ASSUME NEW j \in 1 .. l
       PROVE  next[s[j]] = at[j]
  <2>1. PICK m \in Nat : m = j - 1 /\ m + 1 = j /\ at[m] # None
    BY <1>2, <1>10
  <2>2. at[m + 1] = next[at[m]]
    BY <1>3, <2>1
  <2> QED
    BY <1>11, <2>1, <2>2
<1>13. \A j \in 1 .. l : (j = l => next[s[j]] = None) /\ (j < l => next[s[j]] = s[j + 1])
  <2> SUFFICES ASSUME NEW j \in 1 .. l
               PROVE  (j = l => next[s[j]] = None) /\ (j < l => next[s[j]] = s[j + 1])
    OBVIOUS
  <2>1. j < l => j + 1 \in 1 .. l /\ (j + 1) - 1 = j
    BY <1>9
  <2> QED
    BY <1>8, <1>11, <1>12, <2>1
<1>14. (l = 0 => child[p] = None) /\ (l > 0 => child[p] = s[1])
  BY <1>3, <1>8, <1>9, <1>11
<1>15. Kids(p) = s
  BY <1>1, KidsIs DEF s
<1> QED
  BY <1>11, <1>13, <1>14, <1>15 DEF Spells

KidsOf == [n \in NodeIds |-> Kids(n)]

\* K gives the children of every node: what the links of its list spell.
Spelled(L, ref, nx, ch, K) ==
  /\ K \in [NodeIds -> Seq(NodeIds)]
  /\ \A p \in NodeIds : p \in L /\ ~ref[p] => Spells(nx, ch[p], K[p])
  /\ \A p \in NodeIds : ~(p \in L /\ ~ref[p]) => K[p] = <<>>

LEMMA SpelledOne ==
  ASSUME NEW L, NEW ref, NEW nx, NEW ch, NEW K, NEW M,
         Spelled(L, ref, nx, ch, K), Spelled(L, ref, nx, ch, M)
  PROVE  K = M
<1>1. ASSUME NEW p \in NodeIds PROVE K[p] = M[p]
  <2>1. CASE p \in L /\ ~ref[p]
    <3>1. Spells(nx, ch[p], K[p]) /\ Spells(nx, ch[p], M[p])
      BY <2>1 DEF Spelled
    <3> QED
      BY <3>1, SpellsOne
  <2>2. CASE ~(p \in L /\ ~ref[p])
    BY <2>2 DEF Spelled
  <2> QED
    BY <2>1, <2>2
<1> QED
  BY <1>1 DEF Spelled

LEMMA KidsSpelled ==
  ASSUME Sound(Live, isRef, next, prev, child)
  PROVE  Spelled(Live, isRef, next, child, KidsOf)
<1>1. \A p \in NodeIds : KidsOf[p] = Kids(p)
  BY DEF KidsOf
<1>2. \A p \in NodeIds : ~OwnsList(p) => Kids(p) = <<>>
  BY DEF Kids
<1>3. \A p \in NodeIds : OwnsList(p) => Spells(next, child[p], Kids(p))
  BY KidsSpell
<1>4. \A p \in NodeIds : Kids(p) \in Seq(NodeIds)
  <2>1. <<>> \in Seq(NodeIds)
    OBVIOUS
  <2> QED
    BY <1>2, <1>3, <2>1 DEF Spells
<1>5. KidsOf \in [NodeIds -> Seq(NodeIds)]
  BY <1>4 DEF KidsOf
<1> QED
  BY <1>1, <1>2, <1>3, <1>5 DEF Spelled, OwnsList

\* Where the nodes of the lists are.
LEMMA ListFacts ==
  ASSUME NEW L, NEW ref, NEW nx, NEW pv, NEW ch, Sound(L, ref, nx, pv, ch),
         NEW K, Spelled(L, ref, nx, ch, K)
  PROVE  /\ \A p \in NodeIds : /\ K[p] \in Seq(NodeIds) /\ Len(K[p]) \in Nat
                               /\ DOMAIN K[p] = 1 .. Len(K[p])
         /\ \A p \in NodeIds : \A j \in 1 .. Len(K[p]) :
              /\ p \in L /\ ~ref[p] /\ K[p][j] \in L /\ ~Unheld(L, ref, nx, ch, K[p][j])
              /\ j = 1 => pv[K[p][j]] = None /\ ch[p] = K[p][j]
              /\ j > 1 => /\ pv[K[p][j]] = K[p][j - 1] /\ nx[K[p][j - 1]] = K[p][j]
                          /\ j - 1 \in 1 .. Len(K[p])
         /\ \A p, q \in NodeIds : \A i \in 1 .. Len(K[p]), j \in 1 .. Len(K[q]) :
              K[p][i] = K[q][j] => p = q /\ i = j
<1>1. /\ L \subseteq NodeIds /\ None \notin NodeIds /\ None \notin L
      /\ \A m \in L : /\ nx[m] \in L \cup {None} /\ pv[m] \in L \cup {None}
                      /\ ref[m] \/ ch[m] \in L \cup {None}
      /\ \A m, n \in L : nx[m] = n <=> pv[n] = m
      /\ \A p \in L : ~ref[p] /\ ch[p] # None => pv[ch[p]] = None
      /\ \A p, q \in L : ~ref[p] /\ ~ref[q] /\ ch[p] # None /\ ch[p] = ch[q] => p = q
  BY SoundFacts
<1>2. \A p \in NodeIds : K[p] \in Seq(NodeIds) /\ Len(K[p]) \in Nat /\ DOMAIN K[p] = 1 .. Len(K[p])
  BY DEF Spelled
<1>3. \A p \in NodeIds : Len(K[p]) > 0 => p \in L /\ ~ref[p] /\ Spells(nx, ch[p], K[p])
  BY DEF Spelled
<1>4. ASSUME NEW p \in NodeIds, NEW j \in 1 .. Len(K[p])
      PROVE  /\ p \in L /\ ~ref[p] /\ Spells(nx, ch[p], K[p]) /\ K[p][j] \in L
             /\ ch[p] # None /\ ch[p] = K[p][1]
  <2>1. Len(K[p]) > 0 /\ Len(K[p]) \in Nat
    BY <1>2
  <2>2. p \in L /\ ~ref[p] /\ Spells(nx, ch[p], K[p])
    BY <1>3, <2>1
  <2>3. ch[p] \in L \cup {None} /\ \A m \in L : nx[m] \in L \cup {None}
    BY <1>1, <2>2
  <2>4. \A i \in 1 .. Len(K[p]) : K[p][i] \in L
    BY <2>2, <2>3, SpellsInside
  <2>5. ch[p] = K[p][1] /\ 1 \in 1 .. Len(K[p])
    BY <2>1, <2>2 DEF Spells
  <2> QED
    BY <1>1, <2>2, <2>4, <2>5
<1>5. ASSUME NEW p \in NodeIds, NEW j \in 1 .. Len(K[p])
      PROVE  /\ ~Unheld(L, ref, nx, ch, K[p][j])
             /\ j = 1 => pv[K[p][j]] = None /\ ch[p] = K[p][j]
             /\ j > 1 => /\ pv[K[p][j]] = K[p][j - 1] /\ nx[K[p][j - 1]] = K[p][j]
                         /\ j - 1 \in 1 .. Len(K[p])
  <2>1. /\ p \in L /\ ~ref[p] /\ Spells(nx, ch[p], K[p]) /\ K[p][j] \in L
        /\ ch[p] # None /\ ch[p] = K[p][1]
    BY <1>4
  <2>2. CASE j = 1
    BY <1>1, <2>1, <2>2 DEF Unheld
  <2>3. CASE j # 1
    <3>1. /\ j - 1 \in 1 .. Len(K[p]) /\ j - 1 < Len(K[p]) /\ (j - 1) + 1 = j
      BY <1>2, <2>3
    <3>2. nx[K[p][j - 1]] = K[p][j] /\ K[p][j - 1] \in L
      BY <1>4, <2>1, <3>1 DEF Spells
    <3> QED
      BY <1>1, <2>1, <2>3, <3>1, <3>2 DEF Unheld
  <2> QED
    BY <2>2, <2>3
<1>6. ASSUME NEW p \in NodeIds, NEW q \in NodeIds, NEW i \in 1 .. Len(K[p]), NEW j \in 1 .. Len(K[q]),
             K[p][i] = K[q][j]
      PROVE  p = q /\ i = j
  <2>1. /\ Spells(nx, ch[p], K[p]) /\ Spells(nx, ch[q], K[q])
        /\ \A k \in 1 .. Len(K[p]) : K[p][k] \in L
        /\ \A k \in 1 .. Len(K[q]) : K[q][k] \in L
        /\ p \in L /\ q \in L /\ ~ref[p] /\ ~ref[q] /\ ch[p] # None /\ ch[q] # None
    BY <1>4
  <2>2. /\ \A m, n \in L : nx[m] = n <=> pv[n] = m
        /\ ch[p] # None => pv[ch[p]] = None
        /\ ch[q] # None => pv[ch[q]] = None
    BY <1>1, <2>1
  <2>4. PICK h, g, s, t : h = ch[p] /\ g = ch[q] /\ s = K[p] /\ t = K[q]
    OBVIOUS
  <2>5. TwoLists(L, nx, pv, h, s, g, t)
    BY <2>1, <2>2, <2>4 DEF TwoLists
  <2>6. \A x \in 1 .. Len(s), y \in 1 .. Len(t) : s[x] = t[y] => h = g /\ x = y
    BY <2>5, SpellsApart
  <2>3. ch[p] = ch[q] /\ i = j
    BY <1>6, <2>4, <2>6
  <2> QED
    BY <1>1, <2>1, <2>3
<1> QED
  BY <1>2, <1>4, <1>5, <1>6

-----------------------------------------------------------------------------
(* What the edits of the links do to the children. *)

\* One more node, blank or a reference, has no children.
LEMMA AllocSpelled ==
  ASSUME NEW L, NEW ref \in [NodeIds -> BOOLEAN], NEW nx, NEW ch \in [NodeIds -> Link],
         NEW K, Spelled(L, ref, nx, ch, K),
         NEW id \in NodeIds \ L, NEW r \in BOOLEAN, NEW c, r \/ c = None,
         NEW ref2, ref2 = [ref EXCEPT ![id] = r], NEW ch2, ch2 = [ch EXCEPT ![id] = c]
  PROVE  Spelled(L \cup {id}, ref2, nx, ch2, K)
<1>1. K \in [NodeIds -> Seq(NodeIds)] /\ K[id] = <<>>
  BY DEF Spelled
<1>2. \A p \in NodeIds \ {id} : ref2[p] = ref[p] /\ ch2[p] = ch[p]
  OBVIOUS
<1>3. ref2[id] = r /\ ch2[id] = c
  OBVIOUS
<1>4. \A h : h = None => Spells(nx, h, <<>>)
  BY DEF Spells
<1>5. \A p \in NodeIds : p \in L \cup {id} /\ ~ref2[p] => Spells(nx, ch2[p], K[p])
  BY <1>1, <1>2, <1>3, <1>4 DEF Spelled
<1>6. \A p \in NodeIds : ~(p \in L \cup {id} /\ ~ref2[p]) => K[p] = <<>>
  BY <1>1, <1>2 DEF Spelled
<1> QED
  BY <1>1, <1>5, <1>6 DEF Spelled

\* A deleted block leaves the other lists as they are.
LEMMA ClearSpelled ==
  ASSUME NEW L, NEW ref, NEW nx, NEW pv, NEW ch, Sound(L, ref, nx, pv, ch),
         NEW K, Spelled(L, ref, nx, ch, K), NEW D, Block(L, ref, nx, ch, D)
  PROVE  /\ \A p \in NodeIds \ D : \A j \in 1 .. Len(K[p]) : K[p][j] \notin D
         /\ Spelled(L \ D, ref, Cleared(nx, D), Cleared(ch, D),
                    [n \in NodeIds |-> IF n \in D THEN <<>> ELSE K[n]])
<1>1. /\ L \subseteq NodeIds /\ None \notin L
      /\ \A m \in L : nx[m] \in L \cup {None} /\ (ref[m] \/ ch[m] \in L \cup {None})
  BY SoundFacts
<1>2. \A m \in L \ D : nx[m] \in (L \ D) \cup {None} /\ (ref[m] \/ ch[m] \in (L \ D) \cup {None})
  BY <1>1 DEF Block, Avoids
<1>3. ASSUME NEW p \in NodeIds \ D, NEW j \in 1 .. Len(K[p]) PROVE K[p][j] \in L \ D
  <2>1. Len(K[p]) # 0
    BY ListFacts
  <2>2. p \in L /\ ~ref[p] /\ Spells(nx, ch[p], K[p])
    BY <2>1 DEF Spelled
  <2>3. ch[p] \in (L \ D) \cup {None}
    BY <1>2, <2>2
  <2> QED
    BY <1>2, <2>2, <2>3, SpellsInside
<1> DEFINE K2 == [n \in NodeIds |-> IF n \in D THEN <<>> ELSE K[n]]
           nx2 == Cleared(nx, D)
           ch2 == Cleared(ch, D)
<1>4. K2 \in [NodeIds -> Seq(NodeIds)]
  <2>1. <<>> \in Seq(NodeIds)
    OBVIOUS
  <2> QED
    BY <2>1 DEF Spelled
<1>5. \A m \in NodeIds \ D : nx2[m] = nx[m] /\ ch2[m] = ch[m] /\ K2[m] = K[m]
  BY DEF Cleared
<1>6. \A m \in NodeIds \cap D : K2[m] = <<>>
  OBVIOUS
<1> HIDE DEF K2, nx2, ch2
<1>7. ASSUME NEW p \in NodeIds, p \in L \ D, ~ref[p] PROVE Spells(nx2, ch2[p], K2[p])
  <2>1. Spells(nx, ch[p], K[p]) /\ K2[p] = K[p] /\ ch2[p] = ch[p]
    BY <1>5, <1>7 DEF Spelled
  <2>2. \A j \in 1 .. Len(K[p]) : nx2[K[p][j]] = nx[K[p][j]]
    BY <1>1, <1>3, <1>5, <1>7
  <2> QED
    BY <2>1, <2>2 DEF Spells
<1>8. \A p \in NodeIds : ~(p \in L \ D /\ ~ref[p]) => K2[p] = <<>>
  BY <1>5, <1>6 DEF Spelled
<1>9. Spelled(L \ D, ref, nx2, ch2, K2)
  BY <1>4, <1>7, <1>8 DEF Spelled
<1> QED
  BY <1>3, <1>9 DEF K2, nx2, ch2

\* t is s with e put in at pos, with the element at pos taken out, or replaced by e.
Inserted(s, pos, e, t) ==
  /\ t \in Seq(NodeIds) /\ Len(t) = Len(s) + 1
  /\ \A j \in 1 .. Len(t) : /\ j < pos => t[j] = s[j]
                            /\ j = pos => t[j] = e
                            /\ j > pos => t[j] = s[j - 1]

Removed(s, pos, t) ==
  /\ t \in Seq(NodeIds) /\ Len(t) = Len(s) - 1
  /\ \A j \in 1 .. Len(t) : /\ j < pos => t[j] = s[j]
                            /\ j >= pos => t[j] = s[j + 1]

Replaced(s, pos, e, t) ==
  /\ t \in Seq(NodeIds) /\ Len(t) = Len(s)
  /\ \A j \in 1 .. Len(t) : /\ j # pos => t[j] = s[j]
                            /\ j = pos => t[j] = e

LEMMA PartFacts ==
  ASSUME NEW s \in Seq(NodeIds), NEW m \in Nat, NEW n \in Nat, 1 <= m, m <= n + 1, n <= Len(s)
  PROVE  /\ SubSeq(s, m, n) \in Seq(NodeIds) /\ Len(SubSeq(s, m, n)) = n - m + 1
         /\ \A j \in 1 .. n - m + 1 : SubSeq(s, m, n)[j] = s[m + j - 1]
<1>1. m \in Int /\ n \in Int /\ \A j \in m .. n : s[j] \in NodeIds
  OBVIOUS
<1>2. /\ SubSeq(s, m, n) \in Seq(NodeIds)
      /\ Len(SubSeq(s, m, n)) = IF m <= n THEN n - m + 1 ELSE 0
      /\ \A i \in 1 .. n - m + 1 : SubSeq(s, m, n)[i] = s[m + i - 1]
  BY <1>1, SubSeqProperties
<1> QED
  BY <1>1, <1>2

LEMMA InsertAtFacts ==
  ASSUME NEW s \in Seq(NodeIds), NEW pos \in 1 .. Len(s) + 1, NEW e \in NodeIds
  PROVE  Inserted(s, pos, e, InsertAt(s, pos, e))
<1> DEFINE a == SubSeq(s, 1, pos - 1)
           b == SubSeq(s, pos, Len(s))
<1>1. /\ Len(s) \in Nat /\ pos \in Nat /\ pos >= 1 /\ pos <= Len(s) + 1
      /\ \A j \in 1 .. Len(s) : s[j] \in NodeIds
  OBVIOUS
<1>2. a \in Seq(NodeIds) /\ Len(a) = pos - 1 /\ \A j \in 1 .. pos - 1 : a[j] = s[j]
  BY <1>1, PartFacts
<1>3. /\ b \in Seq(NodeIds) /\ Len(b) = Len(s) - pos + 1
      /\ \A j \in 1 .. Len(s) - pos + 1 : b[j] = s[pos + j - 1]
  BY <1>1, PartFacts
<1> HIDE DEF a, b
<1>4. PICK c : c = a \o <<e>>
  OBVIOUS
<1>5. c \in Seq(NodeIds) /\ Len(c) = pos /\ \A j \in 1 .. pos : c[j] = IF j < pos THEN s[j] ELSE e
  <2>1. <<e>> \in Seq(NodeIds) /\ Len(<<e>>) = 1 /\ <<e>>[1] = e
    OBVIOUS
  <2>2. /\ c \in Seq(NodeIds) /\ Len(c) = Len(a) + 1
        /\ \A j \in 1 .. Len(a) + 1 : c[j] = IF j <= Len(a) THEN a[j] ELSE <<e>>[j - Len(a)]
    BY <1>2, <1>4, <2>1, ConcatProperties
  <2>3. Len(a) + 1 = pos
    BY <1>1, <1>2
  <2>4. ASSUME NEW j \in 1 .. pos PROVE c[j] = IF j < pos THEN s[j] ELSE e
    <3>1. CASE j < pos
      BY <1>1, <1>2, <2>2, <2>3, <3>1
    <3>2. CASE j = pos
      <4>1. j - Len(a) = 1 /\ ~(j <= Len(a))
        BY <1>1, <1>2, <3>2
      <4> QED
        BY <2>1, <2>2, <2>3, <3>2, <4>1
    <3> QED
      BY <1>1, <3>1, <3>2
  <2> QED
    BY <2>2, <2>3, <2>4
<1>6. PICK t : t = c \o b
  OBVIOUS
<1>7. /\ t \in Seq(NodeIds) /\ Len(t) = Len(c) + Len(b)
      /\ \A j \in 1 .. Len(c) + Len(b) : t[j] = IF j <= Len(c) THEN c[j] ELSE b[j - Len(c)]
  BY <1>3, <1>5, <1>6, ConcatProperties
<1>8. Len(t) = Len(s) + 1 /\ Len(c) + Len(b) = Len(s) + 1
  BY <1>1, <1>3, <1>5, <1>7
<1>9. ASSUME NEW j \in 1 .. Len(t)
      PROVE  /\ j < pos => t[j] = s[j]
             /\ j = pos => t[j] = e
             /\ j > pos => t[j] = s[j - 1]
  <2>1. CASE j <= pos
    BY <1>1, <1>5, <1>7, <1>8, <2>1
  <2>2. CASE j > pos
    <3>1. PICK m \in Nat : m = j - pos /\ m \in 1 .. Len(s) - pos + 1 /\ pos + m - 1 = j - 1
      BY <1>1, <1>8, <2>2
    <3>2. t[j] = b[m]
      BY <1>1, <1>5, <1>7, <1>8, <2>2, <3>1
    <3> QED
      BY <1>1, <1>3, <2>2, <3>1, <3>2
  <2> QED
    BY <1>1, <2>1, <2>2
<1>10. t = InsertAt(s, pos, e)
  BY <1>4, <1>6 DEF InsertAt, a, b
<1> QED
  BY <1>7, <1>8, <1>9, <1>10 DEF Inserted

LEMMA AppendFacts ==
  ASSUME NEW s \in Seq(NodeIds), NEW e \in NodeIds
  PROVE  Inserted(s, Len(s) + 1, e, Append(s, e))
BY DEF Inserted

LEMMA RemoveAtFacts ==
  ASSUME NEW s \in Seq(NodeIds), NEW pos \in 1 .. Len(s)
  PROVE  Removed(s, pos, RemoveAt(s, pos))
<1> DEFINE a == SubSeq(s, 1, pos - 1)
           b == SubSeq(s, pos + 1, Len(s))
<1>1. /\ Len(s) \in Nat /\ pos \in Nat /\ pos >= 1 /\ pos <= Len(s)
      /\ \A j \in 1 .. Len(s) : s[j] \in NodeIds
  OBVIOUS
<1>2. a \in Seq(NodeIds) /\ Len(a) = pos - 1 /\ \A j \in 1 .. pos - 1 : a[j] = s[j]
  BY <1>1, PartFacts
<1>3. /\ b \in Seq(NodeIds) /\ Len(b) = Len(s) - (pos + 1) + 1
      /\ \A j \in 1 .. Len(s) - (pos + 1) + 1 : b[j] = s[pos + 1 + j - 1]
  BY <1>1, PartFacts
<1> HIDE DEF a, b
<1>6. PICK t : t = a \o b
  OBVIOUS
<1>7. /\ t \in Seq(NodeIds) /\ Len(t) = Len(a) + Len(b)
      /\ \A j \in 1 .. Len(a) + Len(b) : t[j] = IF j <= Len(a) THEN a[j] ELSE b[j - Len(a)]
  BY <1>2, <1>3, <1>6, ConcatProperties
<1>8. Len(t) = Len(s) - 1 /\ Len(a) + Len(b) = Len(s) - 1
  BY <1>1, <1>2, <1>3, <1>7
<1>9. ASSUME NEW j \in 1 .. Len(t)
      PROVE  /\ j < pos => t[j] = s[j]
             /\ j >= pos => t[j] = s[j + 1]
  <2>1. CASE j < pos
    BY <1>1, <1>2, <1>7, <1>8, <2>1
  <2>2. CASE j >= pos
    <3>1. PICK m \in Nat : m = j - (pos - 1) /\ m \in 1 .. Len(s) - (pos + 1) + 1 /\ pos + 1 + m - 1 = j + 1
      BY <1>1, <1>8, <2>2
    <3>2. t[j] = b[m]
      BY <1>1, <1>2, <1>7, <1>8, <2>2, <3>1
    <3> QED
      BY <1>1, <1>3, <2>2, <3>1, <3>2
  <2> QED
    BY <1>1, <2>1, <2>2
<1>10. t = RemoveAt(s, pos)
  BY <1>6 DEF RemoveAt, a, b
<1> QED
  BY <1>7, <1>8, <1>9, <1>10 DEF Removed

LEMMA ReplaceAtFacts ==
  ASSUME NEW s \in Seq(NodeIds), NEW pos \in 1 .. Len(s), NEW e \in NodeIds
  PROVE  Replaced(s, pos, e, ReplaceAt(s, pos, e))
BY DEF ReplaceAt, Replaced

\* The edit of nx and ch to nx2 and ch2 touches no list of K but p's.
EditsOnly(p, nx, ch, K, nx2, ch2) ==
  \A q \in NodeIds \ {p} :
    ch2[q] = ch[q] /\ \A j \in 1 .. Len(K[q]) : nx2[K[q][j]] = nx[K[q][j]]

\* Then all lists are spelled if the edited one is.
LEMMA OneListEdited ==
  ASSUME NEW L, NEW ref, NEW nx, NEW ch, NEW K, Spelled(L, ref, nx, ch, K),
         NEW p \in NodeIds, p \in L, ~ref[p], NEW nx2, NEW ch2, NEW t, Spells(nx2, ch2[p], t),
         EditsOnly(p, nx, ch, K, nx2, ch2)
  PROVE  Spelled(L, ref, nx2, ch2, [K EXCEPT ![p] = t])
<1>1. PICK M : M = [K EXCEPT ![p] = t]
  OBVIOUS
<1>2. /\ K \in [NodeIds -> Seq(NodeIds)] /\ t \in Seq(NodeIds)
      /\ M[p] = t /\ \A q \in NodeIds \ {p} : M[q] = K[q]
  BY <1>1 DEF Spelled, Spells
<1>3. M \in [NodeIds -> Seq(NodeIds)]
  BY <1>1, <1>2
<1>4. ASSUME NEW q \in NodeIds, q \in L /\ ~ref[q] PROVE Spells(nx2, ch2[q], M[q])
  <2>1. CASE q = p
    BY <1>2, <2>1
  <2>2. CASE q # p
    <3>1. Spells(nx, ch[q], K[q]) /\ M[q] = K[q] /\ ch2[q] = ch[q]
      BY <1>2, <1>4, <2>2 DEF Spelled, EditsOnly
    <3>2. \A j \in 1 .. Len(K[q]) : nx2[K[q][j]] = nx[K[q][j]]
      BY <2>2 DEF EditsOnly
    <3> QED
      BY <3>1, <3>2 DEF Spells
  <2> QED
    BY <2>1, <2>2
<1>5. \A q \in NodeIds : ~(q \in L /\ ~ref[q]) => M[q] = <<>>
  BY <1>2 DEF Spelled
<1> QED
  BY <1>1, <1>3, <1>4, <1>5 DEF Spelled

\* Between the nodes before and at position pos of s.
Between(s, pos, previous, before) ==
  /\ pos \in 1 .. Len(s) + 1
  /\ pos = 1 => previous = None
  /\ pos > 1 => previous = s[pos - 1]
  /\ pos <= Len(s) => before = s[pos]
  /\ pos = Len(s) + 1 => before = None

LEMMA LinkSpelled ==
  ASSUME NEW L, NEW ref, NEW nx, NEW pv, NEW ch, Sound(L, ref, nx, pv, ch),
         NEW K, Spelled(L, ref, nx, ch, K), NEW p \in L, ~ref[p],
         NEW item \in L, Unheld(L, ref, nx, ch, item),
         NEW pos, NEW previous, NEW before, Between(K[p], pos, previous, before),
         NEW t, Inserted(K[p], pos, item, t)
  PROVE  Spelled(L, ref, LinkedNext(nx, previous, item, before),
                 LinkedChild(ch, p, previous, item), [K EXCEPT ![p] = t])
<1>1. PICK nx2, ch2, s : /\ nx2 = LinkedNext(nx, previous, item, before)
                         /\ ch2 = LinkedChild(ch, p, previous, item)
                         /\ s = K[p]
  OBVIOUS
<1>2. /\ L \subseteq NodeIds /\ None \notin NodeIds
      /\ nx \in [NodeIds -> Link] /\ ch \in [NodeIds -> Link]
  BY SoundFacts
<1>3. /\ \A q \in NodeIds : \A j \in 1 .. Len(K[q]) :
           q \in L /\ ~ref[q] /\ K[q][j] \in L /\ ~Unheld(L, ref, nx, ch, K[q][j])
      /\ \A q \in NodeIds : \A i \in 1 .. Len(s), j \in 1 .. Len(K[q]) :
           s[i] = K[q][j] => p = q /\ i = j
      /\ Len(s) \in Nat
  <2>1. p \in NodeIds
    BY <1>2
  <2> QED
    BY <1>1, <2>1, ListFacts
<1>4. /\ \A n \in NodeIds : nx2[n] = IF n = previous THEN item ELSE IF n = item THEN before ELSE nx[n]
      /\ \A q \in NodeIds \ {p} : ch2[q] = ch[q]
      /\ ch2[p] = IF previous = None THEN item ELSE ch[p]
  BY <1>1, <1>2 DEF LinkedNext, LinkedChild
<1>5. /\ pos \in 1 .. Len(s) + 1 /\ pos \in Nat
      /\ pos = 1 => previous = None
      /\ pos > 1 => previous = s[pos - 1] /\ pos - 1 \in 1 .. Len(s)
      /\ pos <= Len(s) => before = s[pos] /\ pos \in 1 .. Len(s)
      /\ pos = Len(s) + 1 => before = None
  BY <1>1, <1>3 DEF Between
<1>6. /\ t \in Seq(NodeIds) /\ Len(t) = Len(s) + 1
      /\ \A j \in 1 .. Len(s) + 1 : /\ j < pos => t[j] = s[j]
                                    /\ j = pos => t[j] = item
                                    /\ j > pos => t[j] = s[j - 1]
  BY <1>1 DEF Inserted
<1>7. /\ \A j \in 1 .. Len(s) : /\ j = Len(s) => nx[s[j]] = None
                                /\ j < Len(s) => nx[s[j]] = s[j + 1]
      /\ Len(s) > 0 => ch[p] = s[1]
      /\ Len(s) = 0 => ch[p] = None
  <2>1. Spells(nx, ch[p], s)
    BY <1>1, <1>2 DEF Spelled
  <2> QED
    BY <2>1 DEF Spells
\* The edit changes the next of item, which is in no list, and of previous, which is in p's.
<1>8. ASSUME NEW j \in 1 .. Len(s) PROVE s[j] # item /\ s[j] \in NodeIds /\ (j # pos - 1 => nx2[s[j]] = nx[s[j]])
  <2>1. s[j] # item /\ s[j] \in NodeIds
    BY <1>1, <1>2, <1>3
  <2>2. j # pos - 1 => s[j] # previous
    <3>1. CASE pos = 1
      BY <1>2, <1>5, <2>1, <3>1
    <3>2. CASE pos > 1
      BY <1>1, <1>2, <1>3, <1>5, <3>2
    <3> QED
      BY <1>5, <3>1, <3>2
  <2> QED
    BY <1>4, <2>1, <2>2
<1>9. ASSUME NEW q \in NodeIds \ {p}, NEW j \in 1 .. Len(K[q]) PROVE nx2[K[q][j]] = nx[K[q][j]]
  <2>1. K[q][j] # item /\ K[q][j] \in NodeIds
    BY <1>2, <1>3
  <2>2. K[q][j] # previous
    <3>1. CASE pos = 1
      BY <1>2, <1>5, <2>1, <3>1
    <3>2. CASE pos > 1
      BY <1>3, <1>5, <3>2
    <3> QED
      BY <1>5, <3>1, <3>2
  <2> QED
    BY <1>4, <2>1, <2>2
<1>10. item \in NodeIds /\ (previous = None \/ previous \in NodeIds) /\ previous # item
  BY <1>2, <1>5, <1>8
<1>11. ASSUME NEW j \in 1 .. Len(t)
       PROVE  /\ j = Len(t) => nx2[t[j]] = None
              /\ j < Len(t) => nx2[t[j]] = t[j + 1]
  <2>1. j \in Nat /\ j \in 1 .. Len(s) + 1 /\ (j < Len(t) => j + 1 \in 1 .. Len(s) + 1)
    BY <1>3, <1>6
  <2>2. CASE j + 1 < pos
    <3>1. j \in 1 .. Len(s) /\ j < Len(s) /\ j # pos - 1 /\ j < pos /\ j < Len(t)
      BY <1>3, <1>5, <1>6, <2>1, <2>2
    <3>2. t[j] = s[j] /\ t[j + 1] = s[j + 1] /\ nx2[s[j]] = nx[s[j]] /\ nx[s[j]] = s[j + 1]
      BY <1>6, <1>7, <1>8, <2>1, <2>2, <3>1
    <3> QED
      BY <3>1, <3>2
  <2>3. CASE j + 1 = pos
    <3>1. j < pos /\ j < Len(t) /\ pos > 1 /\ pos - 1 = j
      BY <1>3, <1>5, <1>6, <2>1, <2>3
    <3>2. t[j] = previous /\ t[j + 1] = item /\ previous \in NodeIds
      BY <1>5, <1>6, <1>8, <2>1, <2>3, <3>1
    <3> QED
      BY <1>4, <3>1, <3>2
  <2>4. CASE j = pos
    <3>1. t[j] = item /\ nx2[item] = before
      BY <1>4, <1>6, <1>10, <2>1, <2>4
    <3>2. j < Len(t) => t[j + 1] = s[j]
      BY <1>6, <2>1, <2>4
    <3> QED
      BY <1>3, <1>5, <1>6, <2>1, <2>4, <3>1, <3>2
  <2>5. CASE j > pos
    <3>1. PICK m \in 1 .. Len(s) : m = j - 1 /\ m + 1 = j /\ m # pos - 1 /\ m \in Nat
      BY <1>3, <1>5, <2>1, <2>5
    <3>2. t[j] = s[m] /\ nx2[s[m]] = nx[s[m]]
      BY <1>6, <1>8, <2>1, <2>5, <3>1
    <3>3. j < Len(t) => m < Len(s) /\ t[j + 1] = s[j]
      BY <1>3, <1>5, <1>6, <2>1, <2>5, <3>1
    <3>4. j = Len(t) => m = Len(s)
      BY <1>3, <1>6, <3>1
    <3> QED
      BY <1>7, <3>1, <3>2, <3>3, <3>4
  <2> QED
    BY <1>5, <2>1, <2>2, <2>3, <2>4, <2>5
<1>12. Spells(nx2, ch2[p], t)
  <2>1. ch2[p] = t[1] /\ Len(t) > 0
    <3>1. CASE pos = 1
      BY <1>3, <1>4, <1>5, <1>6, <3>1
    <3>2. CASE pos > 1
      <4>1. previous # None /\ Len(s) > 0 /\ 1 \in 1 .. Len(s) + 1
        BY <1>2, <1>3, <1>5, <1>8, <3>2
      <4> QED
        BY <1>3, <1>4, <1>5, <1>6, <1>7, <3>2, <4>1
    <3> QED
      BY <1>5, <3>1, <3>2
  <2> QED
    BY <1>6, <1>11, <2>1 DEF Spells
<1>13. p \in NodeIds
  BY <1>2
<1>14. Spelled(L, ref, nx2, ch2, [K EXCEPT ![p] = t])
  <2>1. EditsOnly(p, nx, ch, K, nx2, ch2)
    BY <1>4, <1>9 DEF EditsOnly
  <2> QED
    BY <1>12, <1>13, <2>1, OneListEdited
<1> QED
  BY <1>1, <1>14

\* The links once item, at position pos of p's list, is taken out.
LEMMA UnlinkSpelled ==
  ASSUME NEW L, NEW ref, NEW pv, Sound(L, ref, next, pv, child),
         NEW K, Spelled(L, ref, next, child, K), NEW p \in L, ~ref[p],
         NEW pos \in 1 .. Len(K[p]), NEW item, item = K[p][pos],
         NEW before, before = IF pos = 1 THEN None ELSE K[p][pos - 1],
         NEW t, Removed(K[p], pos, t)
  PROVE  Spelled(L, ref, UnlinkedNext(before, item), UnlinkedChild(p, before, item),
                 [K EXCEPT ![p] = t])
<1>1. PICK nx2, ch2, s : /\ nx2 = UnlinkedNext(before, item)
                         /\ ch2 = UnlinkedChild(p, before, item)
                         /\ s = K[p]
  OBVIOUS
<1>2. /\ L \subseteq NodeIds /\ None \notin NodeIds
      /\ next \in [NodeIds -> Link] /\ child \in [NodeIds -> Link]
  BY SoundFacts
<1>13. p \in NodeIds
  BY <1>2
<1>3. /\ \A q \in NodeIds : \A j \in 1 .. Len(K[q]) : K[q][j] \in NodeIds
      /\ \A q \in NodeIds : \A i \in 1 .. Len(s), j \in 1 .. Len(K[q]) :
           s[i] = K[q][j] => p = q /\ i = j
      /\ Len(s) \in Nat
  BY <1>1, <1>2, <1>13, ListFacts
<1>4. /\ \A n \in NodeIds : nx2[n] = IF n = item THEN None ELSE IF n = before THEN next[item] ELSE next[n]
      /\ \A q \in NodeIds \ {p} : ch2[q] = child[q]
      /\ ch2[p] = IF before = None THEN next[item] ELSE child[p]
  BY <1>1, <1>2 DEF UnlinkedNext, UnlinkedChild
<1>5. /\ pos \in 1 .. Len(s) /\ pos \in Nat /\ item = s[pos]
      /\ pos = 1 => before = None
      /\ pos > 1 => before = s[pos - 1] /\ pos - 1 \in 1 .. Len(s)
  BY <1>1, <1>3
<1>6. /\ t \in Seq(NodeIds) /\ Len(t) = Len(s) - 1
      /\ \A j \in 1 .. Len(s) - 1 : /\ j < pos => t[j] = s[j]
                                    /\ j >= pos => t[j] = s[j + 1]
  BY <1>1 DEF Removed
<1>7. /\ \A j \in 1 .. Len(s) : /\ j = Len(s) => next[s[j]] = None
                                /\ j < Len(s) => next[s[j]] = s[j + 1]
      /\ Len(s) > 0 => child[p] = s[1]
  <2>1. Spells(next, child[p], s)
    BY <1>1, <1>2 DEF Spelled
  <2> QED
    BY <2>1 DEF Spells
\* The edit changes the next of item and of the node before it.
<1>8. ASSUME NEW j \in 1 .. Len(s), j # pos
      PROVE  s[j] # item /\ s[j] \in NodeIds /\ (j # pos - 1 => nx2[s[j]] = next[s[j]])
  <2>1. s[j] # item /\ s[j] \in NodeIds
    BY <1>1, <1>3, <1>5, <1>8, <1>13
  <2>2. j # pos - 1 => s[j] # before
    <3>1. CASE pos = 1
      BY <1>2, <1>5, <2>1, <3>1
    <3>2. CASE pos > 1
      BY <1>1, <1>2, <1>3, <1>5, <3>2, <1>13
    <3> QED
      BY <1>5, <3>1, <3>2
  <2> QED
    BY <1>4, <2>1, <2>2
<1>9. ASSUME NEW q \in NodeIds \ {p}, NEW j \in 1 .. Len(K[q]) PROVE nx2[K[q][j]] = next[K[q][j]]
  <2>1. K[q][j] # item /\ K[q][j] \in NodeIds
    BY <1>3, <1>5
  <2>2. K[q][j] # before
    <3>1. CASE pos = 1
      BY <1>2, <1>5, <2>1, <3>1
    <3>2. CASE pos > 1
      BY <1>3, <1>5, <3>2
    <3> QED
      BY <1>5, <3>1, <3>2
  <2> QED
    BY <1>4, <2>1, <2>2
<1>10. pos < Len(s) => next[item] = s[pos + 1]
  BY <1>5, <1>7
<1>14. pos = Len(s) => next[item] = None
  BY <1>5, <1>7
<1>11. ASSUME NEW j \in 1 .. Len(t)
       PROVE  /\ j = Len(t) => nx2[t[j]] = None
              /\ j < Len(t) => nx2[t[j]] = t[j + 1]
  <2>1. j \in Nat /\ j \in 1 .. Len(s) - 1 /\ (j < Len(t) => j + 1 \in 1 .. Len(s) - 1)
    BY <1>3, <1>6
  <2>2. CASE j + 1 < pos
    <3>1. j \in 1 .. Len(s) /\ j < Len(s) /\ j # pos /\ j # pos - 1 /\ j < pos /\ j < Len(t)
      BY <1>3, <1>5, <1>6, <2>1, <2>2
    <3>2. t[j] = s[j] /\ t[j + 1] = s[j + 1] /\ nx2[s[j]] = next[s[j]] /\ next[s[j]] = s[j + 1]
      BY <1>6, <1>7, <1>8, <2>1, <2>2, <3>1
    <3> QED
      BY <3>1, <3>2
  <2>3. CASE j + 1 = pos
    <3>1. j < pos /\ pos > 1 /\ pos - 1 = j /\ j \in 1 .. Len(s) /\ j # pos
      BY <1>3, <1>5, <1>6, <2>1, <2>3
    <3>2. t[j] = before /\ before \in NodeIds /\ before # item
      BY <1>5, <1>6, <1>8, <2>1, <2>3, <3>1
    <3>3. nx2[t[j]] = next[item]
      BY <1>4, <3>2
    <3>4. j < Len(t) => pos < Len(s) /\ t[j + 1] = s[pos + 1]
      BY <1>3, <1>5, <1>6, <2>1, <2>3
    <3>5. j = Len(t) => pos = Len(s)
      BY <1>3, <1>6, <2>3
    <3> QED
      BY <1>10, <1>14, <3>3, <3>4, <3>5
  <2>5. CASE j >= pos
    <3>1. PICK m \in 1 .. Len(s) : m = j + 1 /\ m # pos /\ m # pos - 1 /\ m \in Nat
      BY <1>3, <1>5, <2>1, <2>5
    <3>2. t[j] = s[m] /\ nx2[s[m]] = next[s[m]]
      BY <1>6, <1>8, <2>1, <2>5, <3>1
    <3>3. j < Len(t) => m < Len(s) /\ t[j + 1] = s[m + 1]
      BY <1>3, <1>5, <1>6, <2>1, <2>5, <3>1
    <3>4. j = Len(t) => m = Len(s)
      BY <1>3, <1>6, <3>1
    <3> QED
      BY <1>7, <3>1, <3>2, <3>3, <3>4
  <2> QED
    BY <1>5, <2>1, <2>2, <2>3, <2>5
<1>12. Spells(nx2, ch2[p], t)
  <2>1. CASE pos = 1
    <3>1. ch2[p] = next[item]
      BY <1>4, <1>5, <2>1
    <3>2. Len(t) > 0 => pos < Len(s) /\ t[1] = s[pos + 1]
      BY <1>3, <1>5, <1>6, <2>1
    <3>3. Len(t) = 0 => pos = Len(s)
      BY <1>3, <1>6, <2>1
    <3> QED
      BY <1>6, <1>10, <1>11, <1>14, <3>1, <3>2, <3>3 DEF Spells
  <2>2. CASE pos > 1
    <3>1. before \in NodeIds /\ ch2[p] = child[p]
      BY <1>2, <1>4, <1>5, <1>8, <2>2
    <3>2. Len(t) > 0 /\ t[1] = s[1] /\ child[p] = s[1]
      BY <1>3, <1>5, <1>6, <1>7, <2>2
    <3> QED
      BY <1>6, <1>11, <3>1, <3>2 DEF Spells
  <2> QED
    BY <1>5, <2>1, <2>2
<1>15. EditsOnly(p, next, child, K, nx2, ch2)
  BY <1>4, <1>9 DEF EditsOnly
<1>16. Spelled(L, ref, nx2, ch2, [K EXCEPT ![p] = t])
  BY <1>12, <1>13, <1>15, OneListEdited
<1> QED
  BY <1>1, <1>16

\* The links once new stands in the place of old, at position pos of p's list.
LEMMA ReplaceSpelled ==
  ASSUME NEW L, NEW ref, NEW pv, Sound(L, ref, next, pv, child),
         NEW K, Spelled(L, ref, next, child, K), NEW p \in L, ~ref[p],
         NEW pos \in 1 .. Len(K[p]), NEW old, old = K[p][pos],
         NEW before, before = IF pos = 1 THEN None ELSE K[p][pos - 1],
         NEW new \in L, Unheld(L, ref, next, child, new),
         NEW t, Replaced(K[p], pos, new, t)
  PROVE  Spelled(L, ref, ReplacedNext(before, old, new), ReplacedChild(p, before, new),
                 [K EXCEPT ![p] = t])
<1>1. PICK nx2, ch2, s : /\ nx2 = ReplacedNext(before, old, new)
                         /\ ch2 = ReplacedChild(p, before, new)
                         /\ s = K[p]
  OBVIOUS
<1>2. /\ L \subseteq NodeIds /\ None \notin NodeIds
      /\ next \in [NodeIds -> Link] /\ child \in [NodeIds -> Link]
  BY SoundFacts
<1>13. p \in NodeIds /\ new \in NodeIds
  BY <1>2
<1>3. /\ \A q \in NodeIds : \A j \in 1 .. Len(K[q]) : K[q][j] \in NodeIds /\ K[q][j] # new
      /\ \A q \in NodeIds : \A i \in 1 .. Len(s), j \in 1 .. Len(K[q]) :
           s[i] = K[q][j] => p = q /\ i = j
      /\ Len(s) \in Nat
  BY <1>1, <1>2, <1>13, ListFacts
<1>4. /\ \A n \in NodeIds : nx2[n] = IF n = old THEN None ELSE IF n = before THEN new
                                     ELSE IF n = new THEN next[old] ELSE next[n]
      /\ \A q \in NodeIds \ {p} : ch2[q] = child[q]
      /\ ch2[p] = IF before = None THEN new ELSE child[p]
  BY <1>1, <1>2 DEF ReplacedNext, ReplacedChild
<1>5. /\ pos \in 1 .. Len(s) /\ pos \in Nat /\ old = s[pos]
      /\ pos = 1 => before = None
      /\ pos > 1 => before = s[pos - 1] /\ pos - 1 \in 1 .. Len(s)
  BY <1>1, <1>3
<1>6. /\ t \in Seq(NodeIds) /\ Len(t) = Len(s)
      /\ \A j \in 1 .. Len(s) : /\ j # pos => t[j] = s[j]
                                /\ j = pos => t[j] = new
  BY <1>1 DEF Replaced
<1>7. /\ \A j \in 1 .. Len(s) : /\ j = Len(s) => next[s[j]] = None
                                /\ j < Len(s) => next[s[j]] = s[j + 1]
      /\ Len(s) > 0 => child[p] = s[1]
  <2>1. Spells(next, child[p], s)
    BY <1>1, <1>2 DEF Spelled
  <2> QED
    BY <2>1 DEF Spells
<1>8. ASSUME NEW j \in 1 .. Len(s), j # pos
      PROVE  s[j] # old /\ s[j] \in NodeIds /\ (j # pos - 1 => nx2[s[j]] = next[s[j]])
  <2>1. s[j] # old /\ s[j] \in NodeIds /\ s[j] # new
    BY <1>1, <1>3, <1>5, <1>8, <1>13
  <2>2. j # pos - 1 => s[j] # before
    <3>1. CASE pos = 1
      BY <1>2, <1>5, <2>1, <3>1
    <3>2. CASE pos > 1
      BY <1>1, <1>2, <1>3, <1>5, <3>2, <1>13
    <3> QED
      BY <1>5, <3>1, <3>2
  <2> QED
    BY <1>4, <2>1, <2>2
<1>9. ASSUME NEW q \in NodeIds \ {p}, NEW j \in 1 .. Len(K[q]) PROVE nx2[K[q][j]] = next[K[q][j]]
  <2>1. K[q][j] # old /\ K[q][j] \in NodeIds /\ K[q][j] # new
    BY <1>3, <1>5
  <2>2. K[q][j] # before
    <3>1. CASE pos = 1
      BY <1>2, <1>5, <2>1, <3>1
    <3>2. CASE pos > 1
      BY <1>3, <1>5, <3>2
    <3> QED
      BY <1>5, <3>1, <3>2
  <2> QED
    BY <1>4, <2>1, <2>2
<1>10. /\ new # old /\ new # before
       /\ nx2[new] = next[old]
  <2>1. new # old
    BY <1>1, <1>3, <1>5, <1>13
  <2>2. new # before
    <3>1. CASE pos = 1
      BY <1>2, <1>5, <1>13, <3>1
    <3>2. CASE pos > 1
      BY <1>1, <1>3, <1>5, <1>13, <3>2
    <3> QED
      BY <1>5, <3>1, <3>2
  <2> QED
    BY <1>4, <1>13, <2>1, <2>2
<1>11. ASSUME NEW j \in 1 .. Len(t)
       PROVE  /\ j = Len(t) => nx2[t[j]] = None
              /\ j < Len(t) => nx2[t[j]] = t[j + 1]
  <2>1. j \in Nat /\ j \in 1 .. Len(s) /\ (j < Len(t) => j + 1 \in 1 .. Len(s))
    BY <1>3, <1>6
  <2>3. CASE j + 1 = pos
    <3>1. j < Len(t) /\ pos > 1 /\ pos - 1 = j /\ j # pos
      BY <1>3, <1>5, <1>6, <2>1, <2>3
    <3>2. t[j] = before /\ before \in NodeIds /\ before # old /\ t[j + 1] = new
      BY <1>5, <1>6, <1>8, <2>1, <2>3, <3>1
    <3> QED
      BY <1>4, <3>1, <3>2
  <2>4. CASE j = pos
    <3>1. t[j] = new /\ (j < Len(t) => t[j + 1] = s[j + 1])
      BY <1>5, <1>6, <2>1, <2>4
    <3> QED
      BY <1>5, <1>6, <1>7, <1>10, <2>1, <2>4, <3>1
  <2>5. CASE j # pos /\ j + 1 # pos
    <3>1. j # pos - 1
      BY <1>5, <2>1, <2>5
    <3>2. t[j] = s[j] /\ (j < Len(t) => t[j + 1] = s[j + 1])
      BY <1>6, <2>1, <2>5
    <3>3. nx2[s[j]] = next[s[j]]
      BY <1>8, <2>1, <2>5, <3>1
    <3> QED
      BY <1>6, <1>7, <2>1, <3>2, <3>3
  <2> QED
    BY <2>3, <2>4, <2>5
<1>12. Spells(nx2, ch2[p], t)
  <2>1. Len(t) > 0 /\ ch2[p] = t[1]
    <3>1. CASE pos = 1
      BY <1>3, <1>4, <1>5, <1>6, <3>1
    <3>2. CASE pos > 1
      <4>1. before \in NodeIds /\ 1 \in 1 .. Len(s)
        BY <1>3, <1>5, <1>8, <3>2
      <4> QED
        BY <1>2, <1>3, <1>4, <1>5, <1>6, <1>7, <3>2, <4>1
    <3> QED
      BY <1>5, <3>1, <3>2
  <2> QED
    BY <1>6, <1>11, <2>1 DEF Spells
<1>15. EditsOnly(p, next, child, K, nx2, ch2)
  BY <1>4, <1>9 DEF EditsOnly
<1>16. Spelled(L, ref, nx2, ch2, [K EXCEPT ![p] = t])
  BY <1>12, <1>13, <1>15, OneListEdited
<1> QED
  BY <1>1, <1>16

-----------------------------------------------------------------------------
(* Places in a list. *)

\* What a walk along p's list visits are children of p.
LEMMA WalkInList ==
  ASSUME NEW L, NEW ref, NEW nx, NEW pv, NEW ch, Sound(L, ref, nx, pv, ch),
         NEW K, Spelled(L, ref, nx, ch, K), NEW p \in L, ~ref[p],
         NEW stop, NEW x \in Walk(nx, ch[p], stop)
  PROVE  \E j \in 1 .. Len(K[p]) : K[p][j] = x
<1> DEFINE S == {n \in NodeIds : \E j \in 1 .. Len(K[p]) : K[p][j] = n}
<1>1. p \in NodeIds /\ Spells(nx, ch[p], K[p])
  BY SoundFacts DEF Spelled
<1>2. Len(K[p]) \in Nat /\ \A j \in 1 .. Len(K[p]) : K[p][j] \in NodeIds
  BY <1>1, SpellsNodes
<1>3. ch[p] \in S \cup {stop, None}
  <2>1. CASE Len(K[p]) = 0
    BY <1>1, <2>1 DEF Spells
  <2>2. CASE Len(K[p]) > 0
    <3>1. ch[p] = K[p][1] /\ 1 \in 1 .. Len(K[p])
      BY <1>1, <1>2, <2>2 DEF Spells
    <3> QED
      BY <1>2, <3>1
  <2> QED
    BY <1>2, <2>1, <2>2
<1>4. ASSUME NEW m \in S PROVE nx[m] \in S \cup {stop, None}
  <2>1. PICK j \in 1 .. Len(K[p]) : K[p][j] = m
    BY <1>4
  <2>2. CASE j = Len(K[p])
    BY <1>1, <2>1, <2>2 DEF Spells
  <2>3. CASE j < Len(K[p])
    <3>1. nx[m] = K[p][j + 1] /\ j + 1 \in 1 .. Len(K[p])
      BY <1>1, <1>2, <2>1, <2>3 DEF Spells
    <3> QED
      BY <1>2, <3>1
  <2> QED
    BY <1>2, <2>1, <2>2, <2>3
<1>5. S \in SUBSET NodeIds
  OBVIOUS
<1> HIDE DEF S
<1>6. x \in S
  BY <1>3, <1>4, <1>5, WalkInside
<1> QED
  BY <1>6 DEF S

\* The item that stands after what Predecessor finds.
LEMMA PredecessorPlace ==
  ASSUME NEW L, NEW ref, NEW pv, Sound(L, ref, next, pv, child),
         NEW K, Spelled(L, ref, next, child, K), NEW p \in L, ~ref[p],
         NEW item \in NodeIds, NEW before \in Predecessor(p, item)
  PROVE  \E pos \in 1 .. Len(K[p]) :
           K[p][pos] = item /\ before = IF pos = 1 THEN None ELSE K[p][pos - 1]
<1>1. p \in NodeIds /\ Spells(next, child[p], K[p]) /\ item # None
  BY SoundFacts DEF Spelled
<1>2. Len(K[p]) \in Nat
  BY <1>1, SpellsNodes
<1>3. CASE child[p] = item
  <2>1. before = None
    BY <1>3 DEF Predecessor
  <2>2. Len(K[p]) # 0 /\ (Len(K[p]) > 0 => child[p] = K[p][1])
    BY <1>1, <1>3 DEF Spells
  <2>3. 1 \in 1 .. Len(K[p]) /\ child[p] = K[p][1]
    BY <1>2, <2>2
  <2> QED
    BY <1>3, <2>1, <2>3
<1>4. CASE child[p] # item
  <2>1. before \in Walk(next, child[p], item) /\ next[before] = item
    BY <1>4 DEF Predecessor
  <2>2. PICK j \in 1 .. Len(K[p]) : K[p][j] = before
    BY <2>1, WalkInList
  <2>3. j < Len(K[p]) /\ next[before] = K[p][j + 1]
    BY <1>1, <1>2, <2>1, <2>2 DEF Spells
  <2>4. PICK pos \in 1 .. Len(K[p]) : pos = j + 1 /\ pos - 1 = j /\ pos # 1
    BY <1>2, <2>3
  <2> QED
    BY <2>1, <2>2, <2>3, <2>4
<1> QED
  BY <1>3, <1>4

\* append_child's writes put the item at the end.
LEMMA LinkLastSpelled ==
  ASSUME NEW L, NEW ref, Sound(L, ref, next, prev, child),
         NEW K, Spelled(L, ref, next, child, K), NEW p \in L, ~ref[p],
         NEW item \in L, Unheld(L, ref, next, child, item), NEW k, LinkLast(p, item, k)
  PROVE  Spelled(L, ref, next', child', [K EXCEPT ![p] = Append(K[p], item)])
<1>1. /\ L \subseteq NodeIds /\ None \notin NodeIds
      /\ next \in [NodeIds -> Link] /\ prev \in [NodeIds -> Link] /\ child \in [NodeIds -> Link]
      /\ next[item] = None /\ prev[item] = None
  BY SoundFacts
<1>2. p \in NodeIds /\ item \in NodeIds /\ item # None
  BY <1>1
<1>3. Spells(next, child[p], K[p]) /\ K[p] \in Seq(NodeIds)
  BY <1>2 DEF Spelled
<1>4. /\ Len(K[p]) \in Nat /\ \A j \in 1 .. Len(K[p]) : K[p][j] \in NodeIds /\ K[p][j] # None
      /\ child[p] = None <=> Len(K[p]) = 0
  BY <1>3, SpellsNodes
<1>5. PICK pos, t : pos = Len(K[p]) + 1 /\ t = Append(K[p], item)
  OBVIOUS
<1>6. Inserted(K[p], pos, item, t)
  BY <1>2, <1>3, <1>5, AppendFacts
<1>7. [next EXCEPT ![item] = None] = next /\ [prev EXCEPT ![item] = None] = prev
  BY <1>1
<1>8. CASE /\ child[p] = None
           /\ child' = [child EXCEPT ![p] = item]
           /\ next' = next
  <2>1. Between(K[p], pos, None, None)
    BY <1>4, <1>5, <1>8 DEF Between
  <2>2. next' = LinkedNext(next, None, item, None) /\ child' = LinkedChild(child, p, None, item)
    BY <1>1, <1>2, <1>8 DEF LinkedNext, LinkedChild
  <2>3. Spelled(L, ref, LinkedNext(next, None, item, None), LinkedChild(child, p, None, item),
                [K EXCEPT ![p] = t])
    BY <1>6, <2>1, LinkSpelled
  <2> QED
    BY <1>5, <2>2, <2>3
<1>9. ASSUME NEW last \in Walk(next, child[p], None), next[last] = None,
             next' = [next EXCEPT ![last] = item], child' = child
      PROVE  Spelled(L, ref, next', child', [K EXCEPT ![p] = Append(K[p], item)])
  <2>1. PICK j \in 1 .. Len(K[p]) : K[p][j] = last
    BY WalkInList
  <2>2. j = Len(K[p])
    <3>1. j < Len(K[p]) => next[last] = K[p][j + 1] /\ K[p][j + 1] # None
      BY <1>3, <1>4, <2>1 DEF Spells
    <3> QED
      BY <1>4, <1>9, <2>1, <3>1
  <2>3. Between(K[p], pos, last, None) /\ last \in NodeIds /\ last # None
    BY <1>4, <1>5, <2>1, <2>2 DEF Between
  <2>4. next' = LinkedNext(next, last, item, None) /\ child' = LinkedChild(child, p, last, item)
    BY <1>1, <1>2, <1>9, <2>3 DEF LinkedNext, LinkedChild
  <2>5. Spelled(L, ref, LinkedNext(next, last, item, None), LinkedChild(child, p, last, item),
                [K EXCEPT ![p] = t])
    BY <1>6, <2>3, LinkSpelled
  <2> QED
    BY <1>5, <2>4, <2>5
<1> QED
  BY <1>7, <1>8, <1>9 DEF LinkLast

-----------------------------------------------------------------------------
(* What is below a node. *)

\* n and everything below it, K being the children: Subtree of Forest.
Below(K, n) ==
  {m \in NodeIds : \A S \in SUBSET NodeIds :
     (n \in S /\ \A x \in S : Range(K[x]) \subseteq S) => m \in S}

LEMMA BelowFacts ==
  ASSUME NEW K, NEW n \in NodeIds, \A x \in NodeIds : Range(K[x]) \subseteq NodeIds
  PROVE  /\ n \in Below(K, n) /\ Below(K, n) \in SUBSET NodeIds
         /\ \A x \in Below(K, n) : Range(K[x]) \subseteq Below(K, n)
BY DEF Below

LEMMA BelowInside ==
  ASSUME NEW K, NEW n, NEW S \in SUBSET NodeIds, n \in S, \A x \in S : Range(K[x]) \subseteq S
  PROVE  Below(K, n) \subseteq S
BY DEF Below

\* K and M are the children of nodes, and differ at p at most.
DifferAt(p, K, M) ==
  \A x \in NodeIds : /\ Range(K[x]) \subseteq NodeIds /\ Range(M[x]) \subseteq NodeIds
                     /\ x # p => M[x] = K[x]

\* What is below a node does not depend on the children of a node that is not.
LEMMA BelowEdited ==
  ASSUME NEW K, NEW M, NEW n \in NodeIds, NEW p, DifferAt(p, K, M), p \notin Below(K, n)
  PROVE  Below(M, n) = Below(K, n)
<1>1. PICK A, B : A = Below(K, n) /\ B = Below(M, n)
  OBVIOUS
<1>2. /\ n \in A /\ A \in SUBSET NodeIds /\ \A x \in A : Range(K[x]) \subseteq A
      /\ n \in B /\ B \in SUBSET NodeIds /\ \A x \in B : Range(M[x]) \subseteq B
  BY <1>1, BelowFacts DEF DifferAt
<1>3. B \subseteq A
  <2>1. \A x \in A : Range(M[x]) \subseteq A
    BY <1>1, <1>2 DEF DifferAt
  <2> QED
    BY <1>1, <1>2, <2>1, BelowInside
<1>4. A \subseteq B
  <2>1. \A x \in B : Range(K[x]) \subseteq B
    BY <1>1, <1>2, <1>3 DEF DifferAt
  <2> QED
    BY <1>1, <1>2, <2>1, BelowInside
<1> QED
  BY <1>1, <1>3, <1>4

LEMMA RangeOfList ==
  ASSUME NEW s \in Seq(NodeIds)
  PROVE  \A x : x \in Range(s) <=> \E j \in 1 .. Len(s) : s[j] = x
BY DEF Range

\* The children of a node in a set closed under the links are in that set.
LEMMA ListInside ==
  ASSUME NEW L, NEW ref, NEW nx, NEW ch, NEW K, Spelled(L, ref, nx, ch, K),
         NEW S, S \subseteq NodeIds, NEW x \in NodeIds, ref[x] \/ ch[x] \in S \cup {None},
         \A m \in S : nx[m] \in S \cup {None}
  PROVE  Range(K[x]) \subseteq S
<1>1. K[x] \in Seq(NodeIds)
  BY DEF Spelled
<1>2. CASE x \in L /\ ~ref[x]
  <2>1. Spells(nx, ch[x], K[x]) /\ ch[x] \in S \cup {None}
    BY <1>2 DEF Spelled
  <2>2. \A j \in 1 .. Len(K[x]) : K[x][j] \in S
    BY <2>1, SpellsInside
  <2> QED
    BY <1>1, <2>2, RangeOfList
<1>3. CASE ~(x \in L /\ ~ref[x])
  <2>1. K[x] = <<>>
    BY <1>3 DEF Spelled
  <2> QED
    BY <2>1 DEF Range
<1> QED
  BY <1>2, <1>3

\* A child has its parent not below it.
LEMMA ParentNotBelow ==
  ASSUME NEW L, NEW ref, NEW nx, NEW pv, NEW ch, Sound(L, ref, nx, pv, ch),
         NEW K, Spelled(L, ref, nx, ch, K), NEW p \in L, NEW n \in Range(K[p])
  PROVE  p \notin Below(K, n)
<1>1. L \subseteq NodeIds
  BY SoundFacts
<1>2. PICK S \in SUBSET L : p \notin S /\ \A m \in S \cup {p} : Into(ref, nx, ch, m, S)
  BY DEF Sound, NoLoop
<1>3. \A m \in S \cup {p} : nx[m] \in S \cup {None} /\ (ref[m] \/ ch[m] \in S \cup {None})
  BY <1>2 DEF Into
<1>4. \A x \in S \cup {p} : Range(K[x]) \subseteq S
  <2> SUFFICES ASSUME NEW x \in S \cup {p} PROVE Range(K[x]) \subseteq S
    OBVIOUS
  <2>1. x \in NodeIds /\ S \subseteq NodeIds /\ (ref[x] \/ ch[x] \in S \cup {None})
        /\ \A m \in S : nx[m] \in S \cup {None}
    BY <1>1, <1>3
  <2> QED
    BY <2>1, ListInside
<1>5. n \in S /\ S \in SUBSET NodeIds
  BY <1>1, <1>4
<1>6. Below(K, n) \subseteq S
  BY <1>4, <1>5, BelowInside
<1> QED
  BY <1>2, <1>6

\* What delete_chain visits from a tree that nothing holds is what is below it.
LEMMA OwnedIsBelow ==
  ASSUME NEW nx, NEW pv, NEW ch, NEW n \in Live, Live \cap deleted = {},
         Sound(Live, isRef, nx, pv, ch), Unheld(Live, isRef, nx, ch, n),
         NEW K, Spelled(Live, isRef, nx, ch, K)
  PROVE  Owned(nx, ch, n) = Below(K, n)
<1>1. PICK D : D = Owned(nx, ch, n)
  OBVIOUS
<1>2. n \in D /\ Block(Live, isRef, nx, ch, D)
  BY <1>1, OwnedBlock
<1>3. /\ Live \subseteq NodeIds /\ None \notin NodeIds /\ D \subseteq Live
      /\ \A m \in D : nx[m] \in D \cup {None} /\ (isRef[m] \/ ch[m] \in D \cup {None})
      /\ nx[n] = None
  BY <1>2, SoundFacts DEF Block, Into
<1>4. \A x \in D : Range(K[x]) \subseteq D
  <2> SUFFICES ASSUME NEW x \in D PROVE Range(K[x]) \subseteq D
    OBVIOUS
  <2>1. x \in NodeIds /\ D \subseteq NodeIds /\ (isRef[x] \/ ch[x] \in D \cup {None})
        /\ \A m \in D : nx[m] \in D \cup {None}
    BY <1>3
  <2> QED
    BY <2>1, ListInside
<1>5. Below(K, n) \subseteq D
  BY <1>2, <1>3, <1>4, BelowInside
<1>6. ASSUME NEW S \in SUBSET NodeIds, n \in S, \A x \in S : Range(K[x]) \subseteq S
      PROVE  D \subseteq S
  <2> DEFINE T == {m \in D : m = n \/ \E x \in S \cap D : m \in Range(K[x])}
  <2>1. T \subseteq S /\ T \subseteq D /\ n \in T
    BY <1>2, <1>6
\* The first child of a node in T, and the next one of a child in T, are in T.
  <2>2. ASSUME NEW m \in T PROVE isRef[m] \/ ch[m] \in T \cup {None}
    <3>1. CASE ~isRef[m] /\ ch[m] # None
      <4>1. m \in Live /\ m \in S \cap D /\ m \in NodeIds
        BY <1>3, <2>1
      <4>2. Spells(nx, ch[m], K[m]) /\ K[m] \in Seq(NodeIds)
        BY <3>1, <4>1 DEF Spelled
      <4>3. Len(K[m]) \in Nat /\ Len(K[m]) # 0
        BY <3>1, <4>2, SpellsNodes
      <4>4. ch[m] = K[m][1] /\ 1 \in 1 .. Len(K[m])
        BY <4>2, <4>3 DEF Spells
      <4>5. ch[m] \in Range(K[m])
        BY <4>2, <4>4, RangeOfList
      <4>6. ch[m] \in D
        BY <1>4, <4>1, <4>5
      <4> QED
        BY <4>1, <4>5, <4>6
    <3> QED
      BY <3>1
  <2>3. ASSUME NEW m \in T PROVE nx[m] \in T \cup {None}
    <3>1. CASE m = n
      BY <1>3, <3>1
    <3>2. CASE m # n
      <4>1. PICK x \in S \cap D : m \in Range(K[x])
        BY <3>2
      <4>2. x \in NodeIds /\ K[x] \in Seq(NodeIds)
        BY <1>3 DEF Spelled
      <4>3. PICK j \in 1 .. Len(K[x]) : K[x][j] = m
        BY <4>1, <4>2, RangeOfList
      <4>4. x \in Live /\ ~isRef[x]
        <5>1. Len(K[x]) \in Nat
          BY <4>2
        <5>2. K[x] # <<>>
          BY <4>3, <5>1
        <5> QED
          BY <4>2, <5>2 DEF Spelled
      <4>5. Spells(nx, ch[x], K[x]) /\ Len(K[x]) \in Nat
        BY <4>2, <4>4 DEF Spelled
      <4>6. CASE j = Len(K[x])
        BY <4>3, <4>5, <4>6 DEF Spells
      <4>7. CASE j < Len(K[x])
        <5>1. nx[m] = K[x][j + 1] /\ j + 1 \in 1 .. Len(K[x])
          BY <4>3, <4>5, <4>7 DEF Spells
        <5>2. nx[m] \in Range(K[x])
          BY <4>2, <5>1, RangeOfList
        <5>3. nx[m] \in D
          BY <1>4, <5>2
        <5> QED
          BY <5>2, <5>3
      <4> QED
        BY <4>3, <4>5, <4>6, <4>7
    <3> QED
      BY <3>1, <3>2
  <2>4. T \in SUBSET NodeIds
    BY <1>3
  <2> HIDE DEF T
  <2>5. D \subseteq T
    BY <1>1, <2>1, <2>2, <2>3, <2>4 DEF Owned
  <2> QED
    BY <2>1, <2>5
<1>7. D \subseteq Below(K, n)
  BY <1>3, <1>6 DEF Below
<1> QED
  BY <1>1, <1>5, <1>7

-----------------------------------------------------------------------------
(* The state of the forest that the links spell. *)

NameOf == [n \in NodeIds |-> IF n \in Live THEN key[n] ELSE None]

\* A slot that was never handed out has no key.
Unnamed == \A n \in NodeIds \ InBounds : key[n] = None

ForestInv == TreeInv /\ Unnamed

LEMMA InvSpelled == TreeInv => Spelled(Live, isRef, next, child, KidsOf)
BY KidsSpelled DEF TreeInv

LEMMA InvSpelledNext == (TreeInv => Spelled(Live, isRef, next, child, KidsOf))'
BY InvSpelled, PTL

\* After a step the children are what the new links spell.
LEMMA KidsAre ==
  ASSUME TreeInv', NEW X, Spelled(Live', isRef', next', child', X)
  PROVE  KidsOf' = X
<1>1. Spelled(Live', isRef', next', child', KidsOf')
  BY InvSpelledNext
<1> QED
  BY <1>1, SpelledOne

\* What the operations of Forest are about, in the terms of this module.
LEMMA ForestTerms ==
  /\ F!Ids = NodeIds
  /\ \A n : F!Subtree(n) = Below(KidsOf, n)
  /\ \A n : F!Hung(n) <=> \E p \in Live : n \in Range(KidsOf[p])
BY DEF F!Ids, F!Subtree, F!Hung, F!Range, Range, KidsOf, Below, NodeIds

LEMMA InvFacts ==
  ASSUME TreeInv
  PROVE  /\ size \in 0 .. MaxNodes /\ size \in Nat /\ MaxNodes \in Nat /\ deleted \subseteq InBounds
         /\ InBounds \subseteq NodeIds /\ Live \subseteq NodeIds /\ Live \cap deleted = {}
         /\ None \notin NodeIds /\ None \notin Keys
         /\ key \in [NodeIds -> Keys \cup {None}]
         /\ isRef \in [NodeIds -> BOOLEAN] /\ child \in [NodeIds -> Link]
         /\ next \in [NodeIds -> Link] /\ prev \in [NodeIds -> Link]
         /\ Sound(Live, isRef, next, prev, child)
         /\ KidsOf \in [NodeIds -> Seq(NodeIds)]
         /\ Spelled(Live, isRef, next, child, KidsOf)
         /\ \A p \in NodeIds : Range(KidsOf[p]) \subseteq NodeIds
<1>1. TypeOK /\ LinksInBounds /\ Sound(Live, isRef, next, prev, child)
  BY DEF TreeInv, BoundsInv
<1>2. /\ size \in 0 .. MaxNodes /\ size \in Nat /\ MaxNodes \in Nat /\ deleted \subseteq InBounds
      /\ InBounds \subseteq NodeIds
  BY <1>1, MaxNodesAssumption DEF TypeOK, LinksInBounds, InBounds, NodeIds
<1>3. Spelled(Live, isRef, next, child, KidsOf)
  BY InvSpelled
<1>4. KidsOf \in [NodeIds -> Seq(NodeIds)]
  BY <1>3 DEF Spelled
<1>5. \A p \in NodeIds : Range(KidsOf[p]) \subseteq NodeIds
  BY <1>4, RangeOfList
<1>6. None \notin NodeIds /\ None \notin Keys
  BY NoneAssumption
<1> QED
  BY <1>1, <1>2, <1>3, <1>4, <1>5, <1>6 DEF TypeOK, Live

\* A tree in the caller's hands is a root of the forest, and what would close a
\* cycle is below it.
LEMMA HeldIsRoot ==
  ASSUME TreeInv, NEW n, Held(n)
  PROVE  /\ n \in Live /\ Unheld(Live, isRef, next, child, n)
         /\ F!IsRoot(n)
         /\ F!Subtree(n) = Owned(next, child, n)
<1>1. n \in Live /\ Unheld(Live, isRef, next, child, n)
  BY InvFacts, HeldIsUnheld
<1>2. \A p \in Live : n \notin Range(KidsOf[p])
  <2> SUFFICES ASSUME NEW p \in Live, n \in Range(KidsOf[p]) PROVE FALSE
    OBVIOUS
  <2>1. p \in NodeIds /\ KidsOf[p] \in Seq(NodeIds)
    BY InvFacts
  <2>2. PICK j \in 1 .. Len(KidsOf[p]) : KidsOf[p][j] = n
    BY <2>1, RangeOfList
  <2>3. ~Unheld(Live, isRef, next, child, KidsOf[p][j])
    BY <2>1, InvFacts, ListFacts
  <2> QED
    BY <1>1, <2>2, <2>3
<1>3. Owned(next, child, n) = Below(KidsOf, n)
  BY <1>1, InvFacts, OwnedIsBelow
<1> QED
  BY <1>1, <1>2, <1>3, ForestTerms DEF F!IsRoot

LEMMA MayLinkMeans ==
  ASSUME TreeInv, NEW p, NEW i, MayLink(p, i)
  PROVE  /\ p \in Live /\ p \in NodeIds /\ ~isRef[p] /\ i \in Live /\ i \in NodeIds /\ p # i
         /\ Unheld(Live, isRef, next, child, i)
         /\ F!IsRoot(i) /\ p \notin F!Subtree(i)
<1>1. OwnsList(p) /\ Held(i) /\ p \notin Owned(next, child, i)
  BY DEF MayLink
<1>2. i \in Owned(next, child, i)
  BY <1>1, HeldIsRoot, InvFacts, OwnedBlock
<1> QED
  BY <1>1, <1>2, HeldIsRoot, InvFacts DEF OwnsList

-----------------------------------------------------------------------------
(* One lemma per group of operations: the step is one of Forest. *)

LEMMA InsertedOne ==
  ASSUME NEW s, Len(s) \in Nat, NEW pos \in Nat, NEW e, NEW t, NEW u,
         Inserted(s, pos, e, t), Inserted(s, pos, e, u)
  PROVE  t = u
<1>1. t \in Seq(NodeIds) /\ u \in Seq(NodeIds) /\ Len(t) = Len(s) + 1 /\ Len(u) = Len(s) + 1
  BY DEF Inserted
<1>2. \A j \in 1 .. Len(s) + 1 : t[j] = u[j]
  <2> SUFFICES ASSUME NEW j \in 1 .. Len(s) + 1 PROVE t[j] = u[j]
    OBVIOUS
  <2>1. j < pos \/ j = pos \/ j > pos
    OBVIOUS
  <2> QED
    BY <1>1, <2>1 DEF Inserted
<1> QED
  BY <1>1, <1>2

\* Forest's operations, where the links, names and ids say what they should.
LEMMA HangMaps ==
  ASSUME TreeInv, NEW p, NEW i, MayLink(p, i), NEW k \in Keys \cup {None},
         NEW pos \in 1 .. Len(KidsOf[p]) + 1, UNCHANGED <<size, deleted>>,
         key' = [key EXCEPT ![i] = k],
         KidsOf' = [KidsOf EXCEPT ![p] = InsertAt(KidsOf[p], pos, i)]
  PROVE  F!Next
<1>1. /\ p \in Live /\ p \in NodeIds /\ i \in Live /\ i \in NodeIds
      /\ F!IsRoot(i) /\ p \notin F!Subtree(i)
  BY MayLinkMeans
<1>2. Live' = Live
  BY DEF Live, InBounds
<1>3. NameOf' = [NameOf EXCEPT ![i] = k]
  BY <1>1, <1>2, InvFacts DEF NameOf
<1>4. F!Hang(p, pos, i, k)
  BY <1>1, <1>2, <1>3 DEF F!Hang, F!InsertAt, InsertAt, KidsOf, NameOf, NodeIds
<1>5. pos \in 1 .. Len(KidsOf[p]) + 1
  OBVIOUS
<1> QED
  BY <1>1, <1>4, <1>5 DEF F!Next, KidsOf

LEMMA CreateMaps ==
  ASSUME ForestInv, TreeInv', NEW c \in Link, NEW r \in BOOLEAN, r \/ c = None, Alloc(c, r)
  PROVE  F!Next /\ Unnamed'
<1>1. /\ size < MaxNodes /\ size' = size + 1 /\ UNCHANGED <<deleted, next, prev, key>>
      /\ isRef' = [isRef EXCEPT ![size] = r] /\ child' = [child EXCEPT ![size] = c]
  BY DEF Alloc
<1>2. /\ size \in NodeIds \ Live /\ Live' = Live \cup {size}
      /\ InBounds' = InBounds \cup {size} /\ size \in NodeIds \ InBounds
  <2>1. size \in Nat /\ MaxNodes \in Nat /\ deleted \subseteq InBounds
    BY InvFacts DEF ForestInv
  <2>2. size \in NodeIds \ InBounds /\ InBounds' = InBounds \cup {size}
    BY <1>1, <2>1 DEF InBounds, NodeIds
  <2> QED
    BY <1>1, <2>1, <2>2 DEF Live
<1>3. Spelled(Live \cup {size}, [isRef EXCEPT ![size] = r], next, [child EXCEPT ![size] = c], KidsOf)
  BY <1>2, InvFacts, AllocSpelled DEF ForestInv
<1>4. KidsOf' = KidsOf
  BY <1>1, <1>2, <1>3, KidsAre
<1>5. NameOf' = NameOf
  BY <1>1, <1>2 DEF ForestInv, Unnamed, NameOf
<1>6. F!Create
  BY <1>1, <1>2, <1>4, <1>5 DEF F!Create, KidsOf, NameOf
<1>7. Unnamed'
  BY <1>1, <1>2 DEF ForestInv, Unnamed
<1> QED
  BY <1>6, <1>7 DEF F!Next

LEMMA AddMaps ==
  ASSUME ForestInv, TreeInv', NEW p \in NodeIds, NEW i \in NodeIds, MayLink(p, i),
         NEW k \in Keys \cup {None}, LinkLast(p, i, k), UNCHANGED <<size, deleted, isRef>>
  PROVE  /\ F!Next /\ Unnamed'
         /\ KidsOf' = [KidsOf EXCEPT ![p] = Append(KidsOf[p], i)]
<1>1. /\ p \in Live /\ ~isRef[p] /\ i \in Live /\ Unheld(Live, isRef, next, child, i)
      /\ Live' = Live /\ InBounds' = InBounds /\ key' = [key EXCEPT ![i] = k]
  BY MayLinkMeans DEF ForestInv, LinkLast, Live, InBounds
<1>2. Spelled(Live, isRef, next', child', [KidsOf EXCEPT ![p] = Append(KidsOf[p], i)])
  BY <1>1, InvFacts, LinkLastSpelled DEF ForestInv
<1>3. KidsOf' = [KidsOf EXCEPT ![p] = Append(KidsOf[p], i)]
  BY <1>1, <1>2, KidsAre
<1>4. PICK s, pos : s = KidsOf[p] /\ pos = Len(s) + 1
  OBVIOUS
<1>5. s \in Seq(NodeIds) /\ Len(s) \in Nat /\ pos \in 1 .. Len(s) + 1 /\ pos \in Nat
  BY <1>4, InvFacts DEF ForestInv
<1>6. InsertAt(s, pos, i) = Append(s, i)
  <2>1. Inserted(s, pos, i, InsertAt(s, pos, i)) /\ Inserted(s, pos, i, Append(s, i))
    BY <1>4, <1>5, InsertAtFacts, AppendFacts
  <2> QED
    BY <1>5, <2>1, InsertedOne
<1>7. F!Next
  <2>1. KidsOf' = [KidsOf EXCEPT ![p] = InsertAt(KidsOf[p], pos, i)]
    BY <1>3, <1>4, <1>6
  <2>2. pos \in 1 .. Len(KidsOf[p]) + 1
    BY <1>4, <1>5
  <2> QED
    BY <1>1, <2>1, <2>2, HangMaps DEF ForestInv
<1>8. Unnamed'
  BY <1>1, InvFacts DEF ForestInv, Unnamed, Live
<1> QED
  BY <1>3, <1>7, <1>8

LEMMA InsertMaps ==
  ASSUME ForestInv, TreeInv', NEW p \in NodeIds, NEW i \in NodeIds, MayLink(p, i),
         NEW before \in Chain(p), UNCHANGED <<size, deleted, isRef>>,
         next' = [n \in NodeIds |-> IF n = prev[before] THEN i
                                    ELSE IF n = i THEN before ELSE next[n]],
         child' = IF prev[before] = None THEN [child EXCEPT ![p] = i] ELSE child,
         key' = [key EXCEPT ![i] = None]
  PROVE  /\ F!Next /\ Unnamed'
         /\ \E pos \in 1 .. Len(KidsOf[p]) :
              /\ KidsOf[p][pos] = before
              /\ KidsOf' = [KidsOf EXCEPT ![p] = InsertAt(KidsOf[p], pos, i)]
<1>1. /\ p \in Live /\ ~isRef[p] /\ i \in Live /\ Unheld(Live, isRef, next, child, i)
      /\ Live' = Live /\ InBounds' = InBounds
  BY MayLinkMeans DEF ForestInv, Live, InBounds
<1>2. PICK pos \in 1 .. Len(KidsOf[p]) : KidsOf[p][pos] = before
  <2>1. /\ Sound(Live, isRef, next, prev, child) /\ Spelled(Live, isRef, next, child, KidsOf)
        /\ before \in Walk(next, child[p], None)
    BY InvFacts DEF ForestInv, Chain
  <2> QED
    BY <1>1, <2>1, WalkInList
<1>3. /\ KidsOf[p] \in Seq(NodeIds) /\ Len(KidsOf[p]) \in Nat
      /\ pos = 1 => prev[before] = None
      /\ pos > 1 => prev[before] = KidsOf[p][pos - 1]
  BY <1>2, InvFacts, ListFacts DEF ForestInv
<1>4. PICK s, previous, t : /\ s = KidsOf[p] /\ previous = prev[before]
                            /\ t = InsertAt(KidsOf[p], pos, i)
  OBVIOUS
<1>5. Between(KidsOf[p], pos, previous, before)
  BY <1>2, <1>3, <1>4 DEF Between
<1>6. Inserted(KidsOf[p], pos, i, t)
  <2>1. pos \in 1 .. Len(KidsOf[p]) + 1
    BY <1>3
  <2> QED
    BY <1>3, <1>4, <2>1, InsertAtFacts
<1>7. next' = LinkedNext(next, previous, i, before) /\ child' = LinkedChild(child, p, previous, i)
  BY <1>4 DEF LinkedNext, LinkedChild
<1>8. Spelled(Live, isRef, LinkedNext(next, previous, i, before), LinkedChild(child, p, previous, i),
              [KidsOf EXCEPT ![p] = t])
  BY <1>1, <1>5, <1>6, InvFacts, LinkSpelled DEF ForestInv
<1>9. KidsOf' = [KidsOf EXCEPT ![p] = t]
  BY <1>1, <1>7, <1>8, KidsAre
<1>10. F!Next
  <2>1. pos \in 1 .. Len(KidsOf[p]) + 1
    BY <1>3
  <2> QED
    BY <1>4, <1>9, <2>1, HangMaps DEF ForestInv
<1>11. Unnamed'
  BY <1>1, InvFacts DEF ForestInv, Unnamed
<1> QED
  BY <1>2, <1>4, <1>9, <1>10, <1>11

LEMMA AddCreatedMaps ==
  ASSUME ForestInv, TreeInv', NEW p \in NodeIds, NEW k \in Keys, p \in Live => OwnsList(p),
         AddCreatedToObject(p, k)
  PROVE  /\ F!Next /\ Unnamed'
         /\ IF p \in Live
              THEN /\ KidsOf' = [KidsOf EXCEPT ![p] = Append(KidsOf[p], size)]
                   /\ key'[size] = k /\ Live' = Live \cup {size}
              ELSE Live' = Live /\ KidsOf' = KidsOf
<1>1. size < MaxNodes /\ size' = size + 1 /\ isRef' = [isRef EXCEPT ![size] = FALSE]
  BY DEF AddCreatedToObject
<1>2. /\ size \in NodeIds \ Live /\ size \in NodeIds \ InBounds /\ InBounds' = InBounds \cup {size}
      /\ deleted' = deleted => Live' = Live \cup {size}
      /\ deleted' = deleted \cup {size} => Live' = Live
  BY <1>1, InvFacts DEF ForestInv, Live, InBounds, NodeIds
<1>3. PICK L, ref : L = Live \cup {size} /\ ref = [isRef EXCEPT ![size] = FALSE]
  OBVIOUS
<1>4. child[size] = None /\ [child EXCEPT ![size] = None] = child
  BY <1>2, InvFacts, SoundFacts DEF ForestInv
<1>5. /\ Sound(L, ref, next, prev, child)
      /\ Unheld(L, ref, next, child, size)
      /\ Spelled(L, ref, next, child, KidsOf)
  <2>1. /\ Sound(Live \cup {size}, [isRef EXCEPT ![size] = FALSE], next, prev, [child EXCEPT ![size] = None])
        /\ Unheld(Live \cup {size}, [isRef EXCEPT ![size] = FALSE], next, [child EXCEPT ![size] = None], size)
    BY <1>2, AllocSafe, InvFacts DEF ForestInv, Link
  <2>2. Spelled(Live \cup {size}, [isRef EXCEPT ![size] = FALSE], next, [child EXCEPT ![size] = None], KidsOf)
    BY <1>2, AllocSpelled, InvFacts DEF ForestInv
  <2> QED
    BY <1>3, <1>4, <2>1, <2>2
<1>6. CASE p \in Live /\ LinkLast(p, size, k) /\ deleted' = deleted
  <2>1. p \in L /\ ~ref[p] /\ size \in L
    BY <1>2, <1>3, <1>6, InvFacts DEF OwnsList, ForestInv
  <2>2. Spelled(L, ref, next', child', [KidsOf EXCEPT ![p] = Append(KidsOf[p], size)])
    BY <1>5, <1>6, <2>1, LinkLastSpelled
  <2>3. KidsOf' = [KidsOf EXCEPT ![p] = Append(KidsOf[p], size)]
    BY <1>1, <1>2, <1>3, <1>6, <2>2, KidsAre
  <2>4. key' = [key EXCEPT ![size] = k] /\ Live' = Live \cup {size}
    BY <1>2, <1>6 DEF LinkLast
  <2>5. NameOf' = [NameOf EXCEPT ![size] = k]
    BY <1>2, <2>4, InvFacts DEF ForestInv, NameOf
  <2>6. F!CreateAndHang(p, k)
    BY <1>1, <1>6, <2>3, <2>4, <2>5 DEF F!CreateAndHang, KidsOf, NameOf
  <2>7. Unnamed'
    BY <1>2, <2>4, InvFacts DEF ForestInv, Unnamed
  <2>8. key'[size] = k
    BY <1>2, <2>4, InvFacts DEF ForestInv
  <2> QED
    BY <1>6, <2>3, <2>4, <2>6, <2>7, <2>8 DEF F!Next
<1>7. CASE p \notin Live /\ deleted' = deleted \cup {size} /\ UNCHANGED <<links, key>>
  <2>1. Live' = Live /\ next' = next /\ child' = child /\ key' = key
    BY <1>2, <1>7 DEF links
  <2>2. \A q \in Live : isRef'[q] = isRef[q]
    BY <1>1, <1>2, InvFacts DEF ForestInv
  <2>3. Spelled(Live, isRef', next, child, KidsOf)
    <3>1. Spelled(Live, isRef, next, child, KidsOf)
      BY InvFacts DEF ForestInv
    <3> QED
      BY <2>2, <3>1 DEF Spelled
  <2>4. KidsOf' = KidsOf
    BY <2>1, <2>3, KidsAre
  <2>5. NameOf' = NameOf
    BY <2>1 DEF NameOf
  <2>6. F!CreateAndDiscard
    BY <1>1, <2>1, <2>4, <2>5 DEF F!CreateAndDiscard, KidsOf, NameOf
  <2>7. Unnamed'
    BY <1>2, <2>1 DEF ForestInv, Unnamed
  <2> QED
    BY <1>7, <2>1, <2>4, <2>6, <2>7 DEF F!Next
<1> QED
  BY <1>6, <1>7 DEF AddCreatedToObject

LEMMA DetachMaps ==
  ASSUME ForestInv, TreeInv', NEW p \in NodeIds, NEW i \in NodeIds, OwnsList(p),
         DetachItemViaPointer(p, i)
  PROVE  /\ F!Next /\ Unnamed'
         /\ \E pos \in 1 .. Len(KidsOf[p]) :
              /\ KidsOf[p][pos] = i
              /\ KidsOf' = [KidsOf EXCEPT ![p] = RemoveAt(KidsOf[p], pos)]
<1>1. PICK before \in Predecessor(p, i) :
        next' = UnlinkedNext(before, i) /\ child' = UnlinkedChild(p, before, i)
  BY DEF DetachItemViaPointer
<1>2. /\ p \in Live /\ ~isRef[p] /\ i \in Live /\ UNCHANGED <<size, deleted, isRef>>
      /\ key' = [key EXCEPT ![i] = None] /\ Live' = Live /\ InBounds' = InBounds
  BY DEF OwnsList, DetachItemViaPointer, Live, InBounds
<1>3. Sound(Live, isRef, next, prev, child) /\ Spelled(Live, isRef, next, child, KidsOf)
  BY InvFacts DEF ForestInv
<1>4. PICK pos \in 1 .. Len(KidsOf[p]) :
        KidsOf[p][pos] = i /\ before = IF pos = 1 THEN None ELSE KidsOf[p][pos - 1]
  BY <1>1, <1>2, <1>3, PredecessorPlace
<1>5. PICK t : t = RemoveAt(KidsOf[p], pos)
  OBVIOUS
<1>6. KidsOf[p] \in Seq(NodeIds) /\ Removed(KidsOf[p], pos, t)
  <2>1. KidsOf[p] \in Seq(NodeIds)
    BY InvFacts DEF ForestInv
  <2> QED
    BY <1>5, <2>1, RemoveAtFacts
<1>7. Spelled(Live, isRef, UnlinkedNext(before, i), UnlinkedChild(p, before, i), [KidsOf EXCEPT ![p] = t])
  BY <1>2, <1>3, <1>4, <1>6, UnlinkSpelled
<1>8. KidsOf' = [KidsOf EXCEPT ![p] = t]
  BY <1>1, <1>2, <1>7, KidsAre
<1>9. NameOf' = [NameOf EXCEPT ![KidsOf[p][pos]] = None]
  BY <1>2, <1>4, InvFacts DEF ForestInv, NameOf
<1>10. F!TakeOff(p, pos)
  BY <1>2, <1>5, <1>8, <1>9 DEF F!TakeOff, F!RemoveAt, RemoveAt, KidsOf, NameOf
<1>11. pos \in 1 .. Len(KidsOf[p])
  OBVIOUS
<1>12. F!Next
  BY <1>2, <1>10, <1>11 DEF F!Next, KidsOf
<1>13. Unnamed'
  BY <1>2, InvFacts DEF ForestInv, Unnamed
<1> QED
  BY <1>4, <1>5, <1>8, <1>12, <1>13

\* delete_chain(n) on links that spell K, where the keys give the names nm and D is
\* what is below n.
Clears(nx, pv, ch, ky, n, K, D, nm) ==
  /\ n \in Live /\ Sound(Live, isRef, nx, pv, ch) /\ Unheld(Live, isRef, nx, ch, n)
  /\ Spelled(Live, isRef, nx, ch, K) /\ DeleteChain(nx, pv, ch, ky, n)
  /\ D = Below(K, n)
  /\ \A m \in NodeIds \ InBounds : ky[m] = None
  /\ \A m \in NodeIds \ D : nm[m] = IF m \in Live THEN ky[m] ELSE None

LEMMA ClearMaps ==
  ASSUME ForestInv, TreeInv', NEW nx, NEW pv, NEW ch, NEW ky, NEW n, NEW K, NEW D, NEW nm,
         Clears(nx, pv, ch, ky, n, K, D, nm)
  PROVE  /\ F!Without(D, K, nm) /\ Unnamed'
         /\ KidsOf' = [m \in NodeIds |-> IF m \in D THEN <<>> ELSE K[m]]
<1> USE DEF Clears
<1>1. D = Owned(nx, ch, n)
  <2>1. Live \cap deleted = {}
    BY InvFacts DEF ForestInv
  <2> QED
    BY <2>1, OwnedIsBelow
<1>2. /\ deleted' = deleted \cup D /\ next' = Cleared(nx, D) /\ child' = Cleared(ch, D)
      /\ key' = Cleared(ky, {m \in D : ~isRef[m]}) /\ size' = size /\ isRef' = isRef
  BY <1>1 DEF DeleteChain
<1>3. Block(Live, isRef, nx, ch, D) /\ D \subseteq Live
  <2>1. Block(Live, isRef, nx, ch, D)
    BY <1>1, OwnedBlock, InvFacts DEF ForestInv
  <2> QED
    BY <2>1 DEF Block
<1>4. Live' = Live \ D /\ InBounds' = InBounds
  BY <1>2 DEF Live, InBounds
<1>5. Spelled(Live \ D, isRef, Cleared(nx, D), Cleared(ch, D),
              [m \in NodeIds |-> IF m \in D THEN <<>> ELSE K[m]])
  BY <1>3, ClearSpelled
<1>6. KidsOf' = [m \in NodeIds |-> IF m \in D THEN <<>> ELSE K[m]]
  BY <1>2, <1>4, <1>5, KidsAre
<1>7. \A m \in NodeIds : key'[m] = IF m \in D /\ ~isRef[m] THEN None ELSE ky[m]
  BY <1>2 DEF Cleared
<1>8. NameOf' = [m \in NodeIds |-> IF m \in D THEN None ELSE nm[m]]
  BY <1>4, <1>7 DEF NameOf
<1>9. F!Without(D, K, nm)
  BY <1>2, <1>4, <1>6, <1>8 DEF F!Without, F!Ids, NodeIds, KidsOf, NameOf
<1>10. Unnamed'
  BY <1>4, <1>7 DEF Unnamed
<1> QED
  BY <1>6, <1>9, <1>10

LEMMA DeleteMaps ==
  ASSUME ForestInv, TreeInv', NEW n, Held(n), Delete(n)
  PROVE  F!Next /\ Unnamed'
<1>1. /\ n \in Live /\ Unheld(Live, isRef, next, child, n) /\ F!IsRoot(n)
      /\ DeleteChain(next, prev, child, key, n)
  BY HeldIsRoot DEF ForestInv, Delete
<1>2. PICK D, nx, pv, ch, ky, K, nm :
        /\ D = Below(KidsOf, n)
        /\ nx = next /\ pv = prev /\ ch = child /\ ky = key /\ K = KidsOf /\ nm = NameOf
  OBVIOUS
<1>3. /\ Sound(Live, isRef, next, prev, child) /\ Spelled(Live, isRef, next, child, KidsOf)
      /\ \A m \in NodeIds \ InBounds : key[m] = None
  BY InvFacts DEF ForestInv, Unnamed
<1>4. \A m \in NodeIds \ D : NameOf[m] = IF m \in Live THEN key[m] ELSE None
  BY DEF NameOf
<1>5. F!Without(D, K, nm) /\ Unnamed'
  <2>1. Clears(nx, pv, ch, ky, n, K, D, nm)
    BY <1>1, <1>2, <1>3, <1>4 DEF Clears
  <2> QED
    BY <2>1, ClearMaps
<1>6. F!Subtree(n) = D
  BY <1>2, ForestTerms
<1>7. F!Drop(n)
  BY <1>1, <1>2, <1>5, <1>6 DEF F!Drop, F!Without, KidsOf, NameOf
<1> QED
  BY <1>1, <1>5, <1>7 DEF F!Next

\* Nothing below a child changes when its parent's list does.
LEMMA BelowChild ==
  ASSUME TreeInv, NEW p \in Live, NEW pos \in 1 .. Len(KidsOf[p]), NEW t \in Seq(NodeIds)
  PROVE  /\ Below([KidsOf EXCEPT ![p] = t], KidsOf[p][pos]) = Below(KidsOf, KidsOf[p][pos])
         /\ p \notin Below(KidsOf, KidsOf[p][pos])
         /\ KidsOf[p][pos] \in Below(KidsOf, KidsOf[p][pos])
<1>1. PICK M, n : M = [KidsOf EXCEPT ![p] = t] /\ n = KidsOf[p][pos]
  OBVIOUS
<1>2. /\ p \in NodeIds /\ KidsOf \in [NodeIds -> Seq(NodeIds)]
      /\ \A x \in NodeIds : Range(KidsOf[x]) \subseteq NodeIds
  BY InvFacts
<1>3. n \in Range(KidsOf[p]) /\ n \in NodeIds
  BY <1>1, <1>2, RangeOfList
<1>4. p \notin Below(KidsOf, n)
  BY <1>3, InvFacts, ParentNotBelow
<1>5. DifferAt(p, KidsOf, M)
  <2>1. \A x \in NodeIds : M[x] \in Seq(NodeIds) /\ (x # p => M[x] = KidsOf[x])
    BY <1>1, <1>2
  <2>2. \A x \in NodeIds : Range(M[x]) \subseteq NodeIds
    BY <2>1, RangeOfList
  <2> QED
    BY <1>2, <2>1, <2>2 DEF DifferAt
<1>6. Below(M, n) = Below(KidsOf, n)
  BY <1>3, <1>4, <1>5, BelowEdited
<1>7. n \in Below(KidsOf, n)
  BY <1>2, <1>3, BelowFacts
<1> QED
  BY <1>1, <1>4, <1>6, <1>7

LEMMA DetachAndDeleteMaps ==
  ASSUME ForestInv, TreeInv', NEW p \in NodeIds, NEW i \in NodeIds, OwnsList(p), DetachAndDelete(p, i)
  PROVE  /\ F!Next /\ Unnamed'
         /\ \E pos \in 1 .. Len(KidsOf[p]) :
              KidsOf[p][pos] = i /\ KidsOf[p]' = RemoveAt(KidsOf[p], pos)
<1>1. PICK before \in Predecessor(p, i) :
        DeleteChain(UnlinkedNext(before, i), UnlinkedPrev(before, i), UnlinkedChild(p, before, i),
                    [key EXCEPT ![i] = None], i)
  BY DEF DetachAndDelete
<1>2. p \in Live /\ ~isRef[p] /\ i \in Live
  BY DEF OwnsList, DetachAndDelete
<1>3. Sound(Live, isRef, next, prev, child) /\ Spelled(Live, isRef, next, child, KidsOf)
  BY InvFacts DEF ForestInv
<1>4. PICK pos \in 1 .. Len(KidsOf[p]) :
        KidsOf[p][pos] = i /\ before = IF pos = 1 THEN None ELSE KidsOf[p][pos - 1]
  BY <1>2, <1>3, PredecessorPlace
<1>5. PICK nx, pv, ch, ky, t, K, D, nm :
        /\ nm = NameOf /\ nx = UnlinkedNext(before, i) /\ pv = UnlinkedPrev(before, i)
        /\ ch = UnlinkedChild(p, before, i) /\ ky = [key EXCEPT ![i] = None]
        /\ t = RemoveAt(KidsOf[p], pos) /\ K = [KidsOf EXCEPT ![p] = t] /\ D = Below(K, i)
  OBVIOUS
<1>6. KidsOf[p] \in Seq(NodeIds) /\ KidsOf \in [NodeIds -> Seq(NodeIds)] /\ Removed(KidsOf[p], pos, t)
  <2>1. KidsOf[p] \in Seq(NodeIds) /\ KidsOf \in [NodeIds -> Seq(NodeIds)]
    BY InvFacts DEF ForestInv
  <2> QED
    BY <1>5, <2>1, RemoveAtFacts
<1>7. Spelled(Live, isRef, nx, ch, K)
  <2>1. Spelled(Live, isRef, UnlinkedNext(before, i), UnlinkedChild(p, before, i), [KidsOf EXCEPT ![p] = t])
    BY <1>2, <1>3, <1>4, <1>6, UnlinkSpelled
  <2> QED
    BY <1>5, <2>1
<1>8. Sound(Live, isRef, nx, pv, ch) /\ Unheld(Live, isRef, nx, ch, i)
  BY <1>2, <1>3, <1>5, DetachSafe
<1>9. D = Below(KidsOf, i) /\ p \notin D /\ i \in D
  <2>1. t \in Seq(NodeIds)
    BY <1>6 DEF Removed
  <2> QED
    BY <1>2, <1>4, <1>5, <2>1, BelowChild DEF ForestInv
<1>10. /\ \A m \in NodeIds \ InBounds : ky[m] = None
       /\ \A m \in NodeIds \ D : NameOf[m] = IF m \in Live THEN ky[m] ELSE None
  BY <1>5, <1>9, InvFacts DEF ForestInv, Unnamed, NameOf
<1>11. DeleteChain(nx, pv, ch, ky, i)
  BY <1>1, <1>5
<1>12. /\ F!Without(D, K, nm) /\ Unnamed'
       /\ KidsOf' = [m \in NodeIds |-> IF m \in D THEN <<>> ELSE K[m]]
  <2>1. Clears(nx, pv, ch, ky, i, K, D, nm)
    BY <1>2, <1>5, <1>7, <1>8, <1>10, <1>11 DEF Clears
  <2> QED
    BY <2>1, ClearMaps
<1>13. F!TakeOffAndDrop(p, pos)
  <2>1. F!Subtree(KidsOf[p][pos]) = D
    BY <1>4, <1>9, ForestTerms
  <2> QED
    BY <1>5, <1>12, <2>1 DEF F!TakeOffAndDrop, F!Without, F!RemoveAt, RemoveAt, KidsOf, NameOf
<1>14. F!Next
  <2>1. pos \in 1 .. Len(KidsOf[p])
    OBVIOUS
  <2> QED
    BY <1>2, <1>13, <2>1 DEF F!Next, KidsOf
<1>15. KidsOf'[p] = t
  BY <1>5, <1>6, <1>9, <1>12
<1> QED
  BY <1>4, <1>5, <1>12, <1>14, <1>15

\* replace_item_via_pointer, after the item was given the name k.
LEMMA ReplaceMaps ==
  ASSUME ForestInv, TreeInv', NEW p \in NodeIds, NEW old \in NodeIds, NEW i \in NodeIds,
         MayLink(p, i), NEW k \in Keys \cup {None}, NEW ky, ky = [key EXCEPT ![i] = k],
         Replace(p, old, i, ky)
  PROVE  /\ F!Next /\ Unnamed'
         /\ \E pos \in 1 .. Len(KidsOf[p]) :
              KidsOf[p][pos] = old /\ KidsOf[p]' = ReplaceAt(KidsOf[p], pos, i)
<1>1. /\ p \in Live /\ ~isRef[p] /\ i \in Live /\ Unheld(Live, isRef, next, child, i)
      /\ F!IsRoot(i) /\ p \notin F!Subtree(i) /\ old \in Live
  BY MayLinkMeans DEF ForestInv, Replace
<1>2. Sound(Live, isRef, next, prev, child) /\ Spelled(Live, isRef, next, child, KidsOf)
  BY InvFacts DEF ForestInv
<1>3. PICK before \in Predecessor(p, old) :
        IF old = i THEN key' = ky /\ UNCHANGED <<size, deleted, links, isRef>>
        ELSE DeleteChain(ReplacedNext(before, old, i), ReplacedPrev(before, old, i),
                         ReplacedChild(p, before, i), ky, old)
  BY DEF Replace
<1>4. PICK pos \in 1 .. Len(KidsOf[p]) :
        KidsOf[p][pos] = old /\ before = IF pos = 1 THEN None ELSE KidsOf[p][pos - 1]
  BY <1>1, <1>2, PredecessorPlace
\* The item hangs nowhere, so it is not the one it replaces.
<1>5. old # i
  <2>1. ~Unheld(Live, isRef, next, child, KidsOf[p][pos])
    BY <1>2, ListFacts
  <2> QED
    BY <1>1, <1>4, <2>1
<1>6. PICK nx, pv, ch, t, K, D, nm :
        /\ nx = ReplacedNext(before, old, i) /\ pv = ReplacedPrev(before, old, i)
        /\ ch = ReplacedChild(p, before, i)
        /\ t = ReplaceAt(KidsOf[p], pos, i) /\ K = [KidsOf EXCEPT ![p] = t] /\ D = Below(K, old)
        /\ nm = [NameOf EXCEPT ![i] = k]
  OBVIOUS
<1>7. KidsOf[p] \in Seq(NodeIds) /\ KidsOf \in [NodeIds -> Seq(NodeIds)] /\ Replaced(KidsOf[p], pos, i, t)
  <2>1. KidsOf[p] \in Seq(NodeIds) /\ KidsOf \in [NodeIds -> Seq(NodeIds)]
    BY InvFacts DEF ForestInv
  <2> QED
    BY <1>6, <2>1, ReplaceAtFacts
<1>8. Spelled(Live, isRef, nx, ch, K)
  <2>1. Spelled(Live, isRef, ReplacedNext(before, old, i), ReplacedChild(p, before, i),
                [KidsOf EXCEPT ![p] = t])
    BY <1>1, <1>2, <1>4, <1>7, ReplaceSpelled
  <2> QED
    BY <1>6, <2>1
<1>9. Sound(Live, isRef, nx, pv, ch) /\ Unheld(Live, isRef, nx, ch, old)
  <2>1. PICK R : i \in R /\ p \notin R /\ Block(Live, isRef, next, child, R)
    BY MayLinkFacts DEF ForestInv
  <2>2. /\ Sound(Live, isRef, ReplacedNext(before, old, i), ReplacedPrev(before, old, i),
                 ReplacedChild(p, before, i))
        /\ Unheld(Live, isRef, ReplacedNext(before, old, i), ReplacedChild(p, before, i), old)
    BY <1>1, <1>2, <1>5, <2>1, ReplaceSafe
  <2> QED
    BY <1>6, <2>2
<1>10. D = Below(KidsOf, old) /\ p \notin D
  <2>1. t \in Seq(NodeIds)
    BY <1>7 DEF Replaced
  <2> QED
    BY <1>1, <1>4, <1>6, <2>1, BelowChild DEF ForestInv
<1>11. /\ \A m \in NodeIds \ InBounds : ky[m] = None
       /\ \A m \in NodeIds \ D : nm[m] = IF m \in Live THEN ky[m] ELSE None
  BY <1>1, <1>6, InvFacts DEF ForestInv, Unnamed, NameOf, Live
<1>12. DeleteChain(nx, pv, ch, ky, old)
  BY <1>3, <1>5, <1>6
<1>13. /\ F!Without(D, K, nm) /\ Unnamed'
       /\ KidsOf' = [m \in NodeIds |-> IF m \in D THEN <<>> ELSE K[m]]
  <2>1. Clears(nx, pv, ch, ky, old, K, D, nm)
    BY <1>1, <1>6, <1>8, <1>9, <1>11, <1>12 DEF Clears
  <2> QED
    BY <2>1, ClearMaps
<1>14. F!Replace(p, pos, i, k)
  <2>1. F!Subtree(KidsOf[p][pos]) = D
    BY <1>4, <1>10, ForestTerms
  <2> QED
    BY <1>1, <1>6, <1>13, <2>1
       DEF F!Replace, F!Without, F!ReplaceAt, ReplaceAt, KidsOf, NameOf
<1>15. F!Next
  <2>1. pos \in 1 .. Len(KidsOf[p])
    OBVIOUS
  <2> QED
    BY <1>1, <1>14, <2>1 DEF F!Next, KidsOf
<1>16. KidsOf'[p] = t
  BY <1>6, <1>7, <1>10, <1>13
<1> QED
  BY <1>4, <1>6, <1>13, <1>15, <1>16

\* Nothing but the name of a tree in the caller's hands changes.
LEMMA RenameMaps ==
  ASSUME ForestInv, TreeInv', NEW i, Held(i), NEW k \in Keys, key' = [key EXCEPT ![i] = k],
         UNCHANGED <<size, deleted, links, isRef>>
  PROVE  F!Next /\ Unnamed' /\ KidsOf' = KidsOf
<1>1. i \in Live /\ F!IsRoot(i) /\ Live \subseteq InBounds /\ Live \subseteq NodeIds
  BY HeldIsRoot, InvFacts DEF ForestInv, Live
<1>2. Live' = Live /\ InBounds' = InBounds /\ isRef' = isRef /\ next' = next /\ child' = child
  BY DEF Live, InBounds, links
<1>3. KidsOf' = KidsOf
  <2>1. Spelled(Live, isRef, next, child, KidsOf)
    BY InvFacts DEF ForestInv
  <2> QED
    BY <1>2, <2>1, KidsAre
<1>4. NameOf' = [NameOf EXCEPT ![i] = k]
  BY <1>1, <1>2, InvFacts DEF ForestInv, NameOf
<1>5. F!Rename(i, k)
  BY <1>1, <1>2, <1>3, <1>4 DEF F!Rename, KidsOf, NameOf
<1>6. Unnamed'
  BY <1>1, <1>2, InvFacts DEF ForestInv, Unnamed
<1> QED
  BY <1>1, <1>3, <1>5, <1>6 DEF F!Next

-----------------------------------------------------------------------------
(* The theorem. *)

LEMMA InitMaps == Init => F!Init /\ ForestInv
<1> SUFFICES ASSUME Init PROVE F!Init /\ ForestInv
  OBVIOUS
<1>1. TreeInv
  BY TreeInit
<1>2. Live = {} /\ Unnamed
  BY DEF Init, Live, InBounds, Unnamed
<1>3. \A n \in NodeIds : Kids(n) = <<>>
  BY <1>2 DEF Kids, OwnsList
<1>4. F!Init
  BY <1>2, <1>3 DEF Init, F!Init, F!Ids, NodeIds
<1> QED
  BY <1>1, <1>2, <1>4 DEF ForestInv

LEMMA StepMaps == ForestInv /\ [TreeNext]_vars => [F!Next]_(F!fvars) /\ ForestInv'
<1> SUFFICES ASSUME ForestInv, [TreeNext]_vars PROVE [F!Next]_(F!fvars) /\ ForestInv'
  OBVIOUS
<1>1. TreeInv'
  BY TreeStep DEF ForestInv
<1> DEFINE Maps == F!Next /\ Unnamed'
<1>2. CASE TCreate
  <2>1. ASSUME NEW c \in Link, NEW r \in BOOLEAN, r \/ c = None, Alloc(c, r) PROVE Maps
    BY <1>1, <2>1, CreateMaps
  <2>2. ASSUME Create PROVE Maps
    BY <2>1, <2>2 DEF Create, Link
  <2>3. ASSUME CreateStringReference PROVE Maps
    BY <2>1, <2>3 DEF CreateStringReference, Link
  <2>4. ASSUME NEW source \in Live, CreateReference(source) PROVE Maps
    <3>1. child[source] \in Link
      BY InvFacts DEF ForestInv
    <3> QED
      BY <2>1, <2>4, <3>1 DEF CreateReference
  <2> QED
    BY <1>1, <1>2, <2>2, <2>3, <2>4 DEF TCreate, ForestInv
<1>3. CASE TAdd
  <2>1. PICK p \in NodeIds, i \in NodeIds :
          /\ MayLink(p, i)
          /\ \/ AddItemToArray(p, i)
             \/ \E k \in Keys : AddItemToObject(p, k, i)
             \/ \E index \in NodeIds : InsertItemInArray(p, index, i)
    BY <1>3 DEF TAdd
  <2>2. ASSUME NEW k \in Keys \cup {None}, LinkLast(p, i, k), UNCHANGED <<size, deleted, isRef>>
        PROVE  Maps
    BY <1>1, <2>1, <2>2, AddMaps
  <2>3. ASSUME AddItemToArray(p, i) PROVE Maps
    BY <2>2, <2>3 DEF AddItemToArray
  <2>4. ASSUME NEW k \in Keys, AddItemToObject(p, k, i) PROVE Maps
    BY <2>2, <2>4 DEF AddItemToObject
  <2>5. ASSUME NEW index \in NodeIds, InsertItemInArray(p, index, i) PROVE Maps
    <3>1. CASE LinkLast(p, i, None)
      BY <2>2, <2>5, <3>1 DEF InsertItemInArray
    <3>2. ASSUME NEW before \in Nth(p, index),
                 next' = [n \in NodeIds |-> IF n = prev[before] THEN i
                                            ELSE IF n = i THEN before ELSE next[n]],
                 child' = IF prev[before] = None THEN [child EXCEPT ![p] = i] ELSE child,
                 key' = [key EXCEPT ![i] = None]
          PROVE  Maps
      <4>1. before \in Chain(p) /\ UNCHANGED <<size, deleted, isRef>>
        BY <2>5 DEF Nth, InsertItemInArray
      <4> QED
        BY <1>1, <2>1, <3>2, <4>1, InsertMaps
    <3> QED
      BY <2>5, <3>1, <3>2 DEF InsertItemInArray
  <2> QED
    BY <1>1, <2>1, <2>3, <2>4, <2>5 DEF ForestInv
<1>4. CASE TAddCreated
  BY <1>1, <1>4, AddCreatedMaps DEF TAddCreated, ForestInv
<1>5. CASE TDetach
  <2>1. PICK p \in NodeIds :
          /\ OwnsList(p)
          /\ \/ \E i \in NodeIds : DetachItemViaPointer(p, i)
             \/ \E index \in NodeIds : DetachItemFromArray(p, index)
             \/ \E k \in Keys, cs \in BOOLEAN : DetachItemFromObject(p, k, cs)
    BY <1>5 DEF TDetach
  <2>2. \E i \in NodeIds : DetachItemViaPointer(p, i)
    BY <2>1, ChildrenAreIds DEF DetachItemFromArray, DetachItemFromObject
  <2> QED
    BY <1>1, <2>1, <2>2, DetachMaps DEF ForestInv
<1>6. CASE TDelete
  <2>1. ASSUME NEW n \in NodeIds, Held(n), Delete(n) PROVE Maps
    BY <1>1, <2>1, DeleteMaps
  <2>2. ASSUME NEW p \in NodeIds, OwnsList(p),
               \/ \E index \in NodeIds : DeleteItemFromArray(p, index)
               \/ \E k \in Keys, cs \in BOOLEAN : DeleteItemFromObject(p, k, cs)
        PROVE  Maps
    <3>1. \E i \in NodeIds : DetachAndDelete(p, i)
      BY <2>2, ChildrenAreIds DEF DeleteItemFromArray, DeleteItemFromObject
    <3> QED
      BY <1>1, <2>2, <3>1, DetachAndDeleteMaps
  <2> QED
    BY <1>1, <1>6, <2>1, <2>2 DEF TDelete, ForestInv
<1>7. CASE TReplace
  <2>1. PICK p \in NodeIds, i \in NodeIds :
          /\ MayLink(p, i)
          /\ \/ \E old \in NodeIds : ReplaceItemViaPointer(p, old, i)
             \/ \E index \in NodeIds : ReplaceItemInArray(p, index, i)
             \/ \E k \in Keys, cs \in BOOLEAN : ReplaceItemInObject(p, k, i, cs)
    BY <1>7 DEF TReplace
  <2>2. ASSUME NEW old \in NodeIds, NEW k \in Keys \cup {None}, Replace(p, old, i, [key EXCEPT ![i] = k])
        PROVE  Maps
    <3>1. PICK ky : ky = [key EXCEPT ![i] = k]
      OBVIOUS
    <3>2. Replace(p, old, i, ky)
      BY <2>2, <3>1
    <3> QED
      BY <1>1, <2>1, <3>1, <3>2, ReplaceMaps
  <2>3. ASSUME NEW old \in NodeIds, Replace(p, old, i, key) PROVE Maps
    <3>1. key[i] \in Keys \cup {None} /\ [key EXCEPT ![i] = key[i]] = key
      BY InvFacts DEF ForestInv
    <3> QED
      BY <2>2, <2>3, <3>1
  <2>4. ASSUME \/ \E old \in NodeIds : ReplaceItemViaPointer(p, old, i)
               \/ \E index \in NodeIds : ReplaceItemInArray(p, index, i)
        PROVE  Maps
    BY <2>3, <2>4, ChildrenAreIds DEF ReplaceItemViaPointer, ReplaceItemInArray
  <2>5. ASSUME NEW k \in Keys, NEW cs \in BOOLEAN, ReplaceItemInObject(p, k, i, cs) PROVE Maps
    <3>1. ASSUME NEW old \in FindObjectChild([key EXCEPT ![i] = k], p, k, cs),
                 Replace(p, old, i, [key EXCEPT ![i] = k])
          PROVE  Maps
      BY <2>2, <3>1, ChildrenAreIds
    <3>2. ASSUME key' = [key EXCEPT ![i] = k], UNCHANGED <<size, deleted, links, isRef>> PROVE Maps
      <4>1. Held(i)
        BY <2>1 DEF MayLink
      <4> QED
        BY <1>1, <3>2, <4>1, RenameMaps
    <3> QED
      BY <2>5, <3>1, <3>2 DEF ReplaceItemInObject
  <2> QED
    BY <1>1, <2>1, <2>4, <2>5 DEF ForestInv
<1>8. CASE UNCHANGED vars
  <2>1. UNCHANGED <<size, deleted, next, prev, child, key, isRef>>
    BY <1>8 DEF vars
  <2>2. Live' = Live /\ InBounds' = InBounds
    BY <2>1 DEF Live, InBounds
  <2>3. KidsOf' = KidsOf
    <3>1. Spelled(Live, isRef, next, child, KidsOf)
      BY InvFacts DEF ForestInv
    <3> QED
      BY <1>1, <2>1, <2>2, <3>1, KidsAre
  <2>4. NameOf' = NameOf /\ Unnamed'
    BY <2>1, <2>2 DEF NameOf, Unnamed, ForestInv
  <2>5. UNCHANGED F!fvars
    BY <2>1, <2>2, <2>3, <2>4 DEF F!fvars, KidsOf, NameOf
  <2> QED
    BY <1>1, <2>4, <2>5 DEF ForestInv
<1> QED
  BY <1>2, <1>3, <1>4, <1>5, <1>6, <1>7, <1>8 DEF TreeNext

\* Under the usage contract each operation on next, prev and child does to the
\* sequences of children what its name says, or leaves them alone: it hangs one whole
\* tree in the place asked for, takes one off, deletes one, and moves nothing else
\* (arena.rs, append_child to replace_item_in_object_by_case).
THEOREM LinksImplementForest == TreeSpec => ForestSpec
BY InitMaps, StepMaps, PTL DEF TreeSpec, ForestSpec, F!Spec

-----------------------------------------------------------------------------
(* An index and a key find the child they should. *)

\* A walk along p's list that stops at a position, or at the end, visits the children
\* before it.
LEMMA WalkIsPrefix ==
  ASSUME TreeInv, NEW p, OwnsList(p), NEW j \in 1 .. Len(KidsOf[p]) + 1,
         NEW stop, stop = IF j = Len(KidsOf[p]) + 1 THEN None ELSE KidsOf[p][j]
  PROVE  Walk(next, child[p], stop) = {KidsOf[p][l] : l \in 1 .. j - 1}
<1>1. PICK s : s = KidsOf[p]
  OBVIOUS
<1>2. p \in NodeIds /\ p \in Live /\ ~isRef[p] /\ Spells(next, child[p], s)
  BY <1>1, InvFacts DEF OwnsList, Spelled
<1>3. /\ Len(s) \in Nat /\ \A l \in 1 .. Len(s) : s[l] \in NodeIds /\ s[l] # None
      /\ \A l \in 1 .. Len(s) : l < Len(s) => next[s[l]] = s[l + 1]
      /\ \A l \in 1 .. Len(s) : l = Len(s) => next[s[l]] = None
      /\ Len(s) > 0 => child[p] = s[1]
      /\ Len(s) = 0 => child[p] = None
  <2>1. Len(s) \in Nat /\ \A l \in 1 .. Len(s) : s[l] \in NodeIds /\ s[l] # None
    BY <1>2, SpellsNodes
  <2> QED
    BY <1>2, <2>1 DEF Spells
<1>4. \A l, m \in 1 .. Len(s) : s[l] = s[m] => l = m
  <2>1. Sound(Live, isRef, next, prev, child) /\ Spelled(Live, isRef, next, child, KidsOf)
    BY InvFacts
  <2>2. \A q \in NodeIds : \A l \in 1 .. Len(KidsOf[p]), m \in 1 .. Len(KidsOf[q]) :
          KidsOf[p][l] = KidsOf[q][m] => p = q /\ l = m
    BY <1>2, <2>1, ListFacts
  <2> QED
    BY <1>1, <1>2, <2>2
<1>5. /\ j \in 1 .. Len(s) + 1 /\ j \in Nat
      /\ stop = IF j = Len(s) + 1 THEN None ELSE s[j]
      /\ \A l \in 1 .. j - 1 : l \in 1 .. Len(s) /\ s[l] # stop
  <2>1. j \in 1 .. Len(s) + 1 /\ j \in Nat /\ stop = IF j = Len(s) + 1 THEN None ELSE s[j]
    BY <1>1, <1>3
  <2> QED
    BY <1>3, <1>4, <2>1
<1>6. PICK T : T = {s[l] : l \in 1 .. j - 1}
  OBVIOUS
<1>7. Walk(next, child[p], stop) \subseteq T
  <2>1. T \in SUBSET NodeIds
    BY <1>3, <1>5, <1>6
  <2>2. child[p] \in T \cup {stop, None}
    <3>1. CASE j = 1
      BY <1>3, <1>5, <3>1
    <3>2. CASE j # 1
      <4>1. 1 \in 1 .. j - 1 /\ Len(s) > 0
        BY <1>3, <1>5, <3>2
      <4> QED
        BY <1>3, <1>6, <4>1
    <3> QED
      BY <3>1, <3>2
  <2>3. ASSUME NEW m \in T PROVE next[m] \in T \cup {stop, None}
    <3>1. PICK l \in 1 .. j - 1 : m = s[l]
      BY <1>6
    <3>2. CASE l = j - 1
      BY <1>3, <1>5, <3>1, <3>2
    <3>3. CASE l # j - 1
      <4>1. l + 1 \in 1 .. j - 1 /\ l \in 1 .. Len(s) /\ l < Len(s)
        BY <1>3, <1>5, <3>3
      <4>2. next[m] = s[l + 1]
        BY <1>3, <3>1, <4>1
      <4> QED
        BY <1>6, <4>1, <4>2
    <3> QED
      BY <3>2, <3>3
  <2> QED
    BY <2>1, <2>2, <2>3, WalkInside
<1>8. ASSUME NEW S \in SUBSET NodeIds, child[p] \in S \cup {stop, None},
             \A m \in S : next[m] \in S \cup {stop, None}
      PROVE  T \subseteq S
  <2> DEFINE Bad == {l \in 1 .. j - 1 : s[l] \notin S}
  <2> SUFFICES ASSUME Bad # {} PROVE FALSE
    BY <1>6
  <2>1. PICK x \in Bad : \A y \in Bad : x <= y
    <3>1. Bad \subseteq Nat
      OBVIOUS
    <3> QED
      BY <3>1, LeastNatural
  <2>2. x \in 1 .. j - 1 /\ x \in Nat /\ x \in 1 .. Len(s) /\ s[x] # stop /\ s[x] # None /\ s[x] \notin S
    BY <1>3, <1>5, <2>1
  <2>3. CASE x = 1
    BY <1>3, <1>8, <2>2, <2>3
  <2>4. CASE x # 1
    <3>1. x - 1 \in 1 .. j - 1 /\ x - 1 \notin Bad /\ x - 1 \in 1 .. Len(s) /\ x - 1 < Len(s) /\ (x - 1) + 1 = x
      BY <1>3, <1>5, <2>1, <2>2, <2>4
    <3>2. s[x - 1] \in S /\ next[s[x - 1]] = s[x]
      BY <1>3, <3>1
    <3> QED
      BY <1>8, <2>2, <3>2
  <2> QED
    BY <2>3, <2>4
<1>9. T \subseteq Walk(next, child[p], stop)
  <2>1. T \subseteq NodeIds
    BY <1>3, <1>5, <1>6
  <2> QED
    BY <1>8, <2>1 DEF Walk
<1> QED
  BY <1>1, <1>6, <1>7, <1>9

\* A prefix of a list without repetition has as many nodes as positions.
LEMMA PrefixCardinality ==
  ASSUME NEW s, NEW n \in Nat, \A l, m \in 1 .. n : s[l] = s[m] => l = m
  PROVE  Cardinality({s[l] : l \in 1 .. n}) = n
<1> DEFINE P == 1 .. n
           T == {s[l] : l \in P}
           f == [l \in P |-> s[l]]
<1>1. f \in [P -> T] /\ (\A a, b \in P : f[a] = f[b] => a = b) /\ (\A t \in T : \E l \in P : f[l] = t)
  OBVIOUS
<1>2. IsFiniteSet(P) /\ Cardinality(P) = n
  <2>1. 1 \in Int /\ n \in Int
    OBVIOUS
  <2>2. IsFiniteSet(1 .. n) /\ Cardinality(1 .. n) = IF 1 > n THEN 0 ELSE n - 1 + 1
    BY <2>1, FS_Interval
  <2> QED
    BY <2>2
<1> HIDE DEF P, T, f
<1>3. f \in Bijection(P, T)
  BY <1>1, Fun_IsBij
<1>4. Cardinality(T) = Cardinality(P)
  BY <1>2, <1>3, FS_Bijection DEF ExistsBijection
<1> QED
  BY <1>2, <1>4 DEF T, P

LEMMA ChildPlaces ==
  ASSUME TreeInv, NEW p, OwnsList(p)
  PROVE  /\ Len(KidsOf[p]) \in Nat
         /\ \A l, m \in 1 .. Len(KidsOf[p]) : KidsOf[p][l] = KidsOf[p][m] => l = m
         /\ Chain(p) = {KidsOf[p][l] : l \in 1 .. Len(KidsOf[p])}
         /\ \A l \in 1 .. Len(KidsOf[p]) :
              /\ Walk(next, child[p], KidsOf[p][l]) = {KidsOf[p][m] : m \in 1 .. l - 1}
              /\ Cardinality(Walk(next, child[p], KidsOf[p][l])) = l - 1
<1> DEFINE s == KidsOf[p]
<1>2. p \in NodeIds /\ Sound(Live, isRef, next, prev, child) /\ Spelled(Live, isRef, next, child, KidsOf)
  BY InvFacts DEF OwnsList
<1>3. Len(s) \in Nat
  BY InvFacts, <1>2
<1>4. \A l, m \in 1 .. Len(s) : s[l] = s[m] => l = m
  <2>1. \A q \in NodeIds : \A l \in 1 .. Len(KidsOf[p]), m \in 1 .. Len(KidsOf[q]) :
          KidsOf[p][l] = KidsOf[q][m] => p = q /\ l = m
    BY <1>2, ListFacts
  <2> QED
    BY <1>2, <2>1
<1>5. Chain(p) = {s[l] : l \in 1 .. Len(s)}
  <2>1. PICK j, stop : j = Len(s) + 1 /\ stop = None
    OBVIOUS
  <2>2. j \in 1 .. Len(KidsOf[p]) + 1 /\ stop = IF j = Len(KidsOf[p]) + 1 THEN None ELSE KidsOf[p][j]
    BY <1>3, <2>1
  <2>3. Walk(next, child[p], stop) = {KidsOf[p][l] : l \in 1 .. j - 1}
    BY <2>2, WalkIsPrefix
  <2>4. j - 1 = Len(s)
    BY <1>3, <2>1
  <2> QED
    BY <2>1, <2>3, <2>4 DEF Chain
<1>6. ASSUME NEW l \in 1 .. Len(s)
      PROVE  /\ Walk(next, child[p], s[l]) = {s[m] : m \in 1 .. l - 1}
             /\ Cardinality(Walk(next, child[p], s[l])) = l - 1
  <2>1. PICK stop : stop = s[l]
    OBVIOUS
  <2>2. l \in 1 .. Len(KidsOf[p]) + 1 /\ stop = IF l = Len(KidsOf[p]) + 1 THEN None ELSE KidsOf[p][l]
    BY <1>3, <2>1
  <2>3. Walk(next, child[p], stop) = {KidsOf[p][m] : m \in 1 .. l - 1}
    BY <2>2, WalkIsPrefix
  <2>4. PICK n \in Nat : n = l - 1
    BY <1>3
  <2>5. \A a, b \in 1 .. n : s[a] = s[b] => a = b
    <3>1. \A a \in 1 .. n : a \in 1 .. Len(s)
      BY <1>3, <2>4
    <3> QED
      BY <1>4, <3>1
  <2>6. Cardinality({s[m] : m \in 1 .. n}) = n
    BY <2>5, PrefixCardinality
  <2> QED
    BY <2>1, <2>3, <2>4, <2>6
<1> QED
  BY <1>3, <1>4, <1>5, <1>6

LEMMA NthIs ==
  ASSUME TreeInv, NEW p, OwnsList(p), NEW index \in NodeIds
  PROVE  /\ index \in Nat
         /\ \A item \in Nth(p, index) :
              index + 1 \in 1 .. Len(KidsOf[p]) /\ item = KidsOf[p][index + 1]
         /\ Nth(p, index) = {} => index >= Len(KidsOf[p])
<1>1. PICK s : s = KidsOf[p]
  OBVIOUS
<1>2. /\ Len(s) \in Nat
      /\ Chain(p) = {s[l] : l \in 1 .. Len(s)}
      /\ \A l \in 1 .. Len(s) : Cardinality(Walk(next, child[p], s[l])) = l - 1
  BY <1>1, ChildPlaces
<1>3. index \in Nat
  BY DEF NodeIds
<1>4. ASSUME NEW item \in Nth(p, index) PROVE index + 1 \in 1 .. Len(s) /\ item = s[index + 1]
  <2>1. item \in Chain(p) /\ Cardinality(Walk(next, child[p], item)) = index
    BY DEF Nth
  <2>2. PICK l \in 1 .. Len(s) : item = s[l]
    BY <1>2, <2>1
  <2>3. l = index + 1
    BY <1>2, <1>3, <2>1, <2>2
  <2> QED
    BY <2>2, <2>3
<1>5. ASSUME ~(index >= Len(s)) PROVE Nth(p, index) # {}
  <2>1. PICK l \in 1 .. Len(s) : l = index + 1
    BY <1>2, <1>3, <1>5
  <2>2. s[l] \in Chain(p) /\ Cardinality(Walk(next, child[p], s[l])) = index
    BY <1>2, <1>3, <2>1
  <2> QED
    BY <2>2 DEF Nth
<1> QED
  BY <1>1, <1>3, <1>4, <1>5

\* An index is the position in the list, for inserting, detaching and deleting
\* (arena.rs, insert_item_in_array, get_array_item).
THEOREM AnIndexIsThePosition == TreeSpec => IndexIsPosition
<1> DEFINE Step ==
      \A p \in Live : OwnsList(p) =>
        /\ \A i \in NodeIds : MayLink(p, i) =>
             \A index \in NodeIds : InsertItemInArray(p, index, i) =>
               Kids(p)' = IF index < Len(Kids(p)) THEN InsertAt(Kids(p), index + 1, i)
                                                  ELSE Append(Kids(p), i)
        /\ \A index \in NodeIds :
             DetachItemFromArray(p, index) \/ DeleteItemFromArray(p, index) =>
               Kids(p)' = RemoveAt(Kids(p), index + 1)
<1>1. ForestInv /\ TreeInv' => Step
  <2> SUFFICES ASSUME ForestInv, TreeInv', NEW p \in Live, OwnsList(p), NEW index \in NodeIds
               PROVE  /\ \A i \in NodeIds : MayLink(p, i) => (InsertItemInArray(p, index, i) =>
                           Kids(p)' = IF index < Len(Kids(p)) THEN InsertAt(Kids(p), index + 1, i)
                                                              ELSE Append(Kids(p), i))
                      /\ DetachItemFromArray(p, index) \/ DeleteItemFromArray(p, index) =>
                           Kids(p)' = RemoveAt(Kids(p), index + 1)
    OBVIOUS
  <2>1. p \in NodeIds /\ Kids(p) = KidsOf[p] /\ Kids(p)' = KidsOf'[p] /\ KidsOf \in [NodeIds -> Seq(NodeIds)]
    BY InvFacts DEF ForestInv, KidsOf
  <2>2. /\ Len(KidsOf[p]) \in Nat /\ index \in Nat
        /\ \A l, m \in 1 .. Len(KidsOf[p]) : KidsOf[p][l] = KidsOf[p][m] => l = m
        /\ \A item \in Nth(p, index) :
             index + 1 \in 1 .. Len(KidsOf[p]) /\ item = KidsOf[p][index + 1]
        /\ Nth(p, index) = {} => index >= Len(KidsOf[p])
    BY ChildPlaces, NthIs DEF ForestInv
  <2>3. ASSUME NEW i \in NodeIds, MayLink(p, i), InsertItemInArray(p, index, i)
        PROVE  Kids(p)' = IF index < Len(Kids(p)) THEN InsertAt(Kids(p), index + 1, i)
                                                  ELSE Append(Kids(p), i)
    <3>1. UNCHANGED <<size, deleted, isRef>>
      BY <2>3 DEF InsertItemInArray
    <3>2. CASE Nth(p, index) = {} /\ LinkLast(p, i, None)
      <4>1. KidsOf' = [KidsOf EXCEPT ![p] = Append(KidsOf[p], i)]
        BY <2>1, <2>3, <3>1, <3>2, AddMaps
      <4>2. ~(index < Len(KidsOf[p]))
        BY <2>2, <3>2
      <4> QED
        BY <2>1, <4>1, <4>2
    <3>3. ASSUME NEW before \in Nth(p, index),
                 next' = [n \in NodeIds |-> IF n = prev[before] THEN i
                                            ELSE IF n = i THEN before ELSE next[n]],
                 child' = IF prev[before] = None THEN [child EXCEPT ![p] = i] ELSE child,
                 key' = [key EXCEPT ![i] = None]
          PROVE  Kids(p)' = IF index < Len(Kids(p)) THEN InsertAt(Kids(p), index + 1, i)
                                                    ELSE Append(Kids(p), i)
      <4>1. before \in Chain(p)
        BY DEF Nth
      <4>2. PICK pos \in 1 .. Len(KidsOf[p]) :
              /\ KidsOf[p][pos] = before
              /\ KidsOf' = [KidsOf EXCEPT ![p] = InsertAt(KidsOf[p], pos, i)]
        BY <2>1, <2>3, <3>1, <3>3, <4>1, InsertMaps
      <4>3. index + 1 \in 1 .. Len(KidsOf[p]) /\ pos = index + 1
        BY <2>2, <4>2
      <4>4. index < Len(KidsOf[p])
        BY <2>2, <4>3
      <4> QED
        BY <2>1, <4>2, <4>3, <4>4
    <3> QED
      BY <2>3, <3>2, <3>3 DEF InsertItemInArray
  <2>4. ASSUME DetachItemFromArray(p, index) PROVE Kids(p)' = RemoveAt(Kids(p), index + 1)
    <3>1. PICK item \in Nth(p, index) : DetachItemViaPointer(p, item)
      BY <2>4 DEF DetachItemFromArray
    <3>2. item \in NodeIds
      BY ChildrenAreIds
    <3>3. PICK pos \in 1 .. Len(KidsOf[p]) :
            /\ KidsOf[p][pos] = item
            /\ KidsOf' = [KidsOf EXCEPT ![p] = RemoveAt(KidsOf[p], pos)]
      BY <2>1, <3>1, <3>2, DetachMaps
    <3>4. pos = index + 1
      BY <2>2, <3>3
    <3> QED
      BY <2>1, <3>3, <3>4
  <2>5. ASSUME DeleteItemFromArray(p, index) PROVE Kids(p)' = RemoveAt(Kids(p), index + 1)
    <3>1. PICK item \in Nth(p, index) : DetachAndDelete(p, item)
      BY <2>5 DEF DeleteItemFromArray
    <3>2. item \in NodeIds
      BY ChildrenAreIds
    <3>3. PICK pos \in 1 .. Len(KidsOf[p]) :
            KidsOf[p][pos] = item /\ KidsOf[p]' = RemoveAt(KidsOf[p], pos)
      BY <2>1, <3>1, <3>2, DetachAndDeleteMaps
    <3>4. pos = index + 1
      BY <2>2, <3>3
    <3> QED
      BY <2>1, <3>3, <3>4
  <2> QED
    BY <2>3, <2>4, <2>5
<1>2. IndexIsPosition <=> [][Step]_vars
  BY DEF IndexIsPosition
<1> QED
  BY <1>1, <1>2, InitMaps, StepMaps, TreeInvAlways, PTL DEF TreeSpec

\* The children of p that k names, in ky; and the first of them.
Named(ky, p, k, cs, j) == KeyMatches(ky[KidsOf[p][j]], k, cs)
First(ky, p, k, cs, j) ==
  /\ j \in 1 .. Len(KidsOf[p]) /\ Named(ky, p, k, cs, j)
  /\ \A l \in 1 .. j - 1 : ~Named(ky, p, k, cs, l)

LEMMA FoundIsFirst ==
  ASSUME TreeInv, NEW p, OwnsList(p), NEW k, NEW cs, NEW ky
  PROVE  /\ \A item \in FindObjectChild(ky, p, k, cs) :
              \E j : First(ky, p, k, cs, j) /\ item = KidsOf[p][j]
         /\ \A j : First(ky, p, k, cs, j) => KidsOf[p][j] \in FindObjectChild(ky, p, k, cs)
<1> DEFINE s == KidsOf[p]
<1>1. /\ Len(s) \in Nat
      /\ Chain(p) = {s[l] : l \in 1 .. Len(s)}
      /\ \A l \in 1 .. Len(s) : Walk(next, child[p], s[l]) = {s[m] : m \in 1 .. l - 1}
  BY ChildPlaces
<1>2. ASSUME NEW item \in FindObjectChild(ky, p, k, cs)
      PROVE  \E j : First(ky, p, k, cs, j) /\ item = s[j]
  <2>1. /\ item \in Chain(p) /\ KeyMatches(ky[item], k, cs)
        /\ \A m \in Walk(next, child[p], item) : ~KeyMatches(ky[m], k, cs)
    BY DEF FindObjectChild
  <2>2. PICK j \in 1 .. Len(s) : item = s[j]
    BY <1>1, <2>1
  <2>3. \A l \in 1 .. j - 1 : s[l] \in Walk(next, child[p], item)
    BY <1>1, <2>2
  <2>4. First(ky, p, k, cs, j)
    BY <2>1, <2>2, <2>3 DEF First, Named
  <2> QED
    BY <2>2, <2>4
<1>3. ASSUME NEW j, First(ky, p, k, cs, j) PROVE s[j] \in FindObjectChild(ky, p, k, cs)
  <2>1. /\ j \in 1 .. Len(s) /\ KeyMatches(ky[s[j]], k, cs)
        /\ \A l \in 1 .. j - 1 : ~KeyMatches(ky[s[l]], k, cs)
    BY <1>3 DEF First, Named
  <2>2. s[j] \in Chain(p)
    BY <1>1, <2>1
  <2>3. Walk(next, child[p], s[j]) = {s[m] : m \in 1 .. j - 1}
    BY <1>1, <2>1
  <2>4. ASSUME NEW n \in Walk(next, child[p], s[j]) PROVE ~KeyMatches(ky[n], k, cs)
    <3>1. \E m \in 1 .. j - 1 : n = s[m]
      BY <2>3, <2>4
    <3>2. PICK m \in 1 .. j - 1 : n = s[m]
      BY <3>1
    <3> QED
      BY <2>1, <3>2
  <2> QED
    BY <2>1, <2>2, <2>4 DEF FindObjectChild
<1> QED
  BY <1>2, <1>3

LEMMA FirstIsNamed ==
  ASSUME TreeInv, NEW p, OwnsList(p), NEW k, NEW cs
  PROVE  /\ \A j : First(key, p, k, cs, j) => FirstNamed(p, k, cs) = j
         /\ (\E l \in 1 .. Len(KidsOf[p]) : Named(key, p, k, cs, l)) => \E j : First(key, p, k, cs, j)
<1>1. p \in NodeIds /\ KidsOf[p] = Kids(p) /\ Len(KidsOf[p]) \in Nat
  BY InvFacts DEF OwnsList, KidsOf
<1>2. ASSUME NEW j, First(key, p, k, cs, j) PROVE FirstNamed(p, k, cs) = j
  <2>1. \A i : First(key, p, k, cs, i) => i = j
    <3> SUFFICES ASSUME NEW i, First(key, p, k, cs, i) PROVE i = j
      OBVIOUS
    <3>1. i \in 1 .. Len(KidsOf[p]) /\ j \in 1 .. Len(KidsOf[p])
      BY <1>2 DEF First
    <3>2. ~(i < j)
      <4>1. i < j => i \in 1 .. j - 1
        BY <1>1, <3>1
      <4> QED
        BY <1>2, <4>1 DEF First
    <3>3. ~(j < i)
      <4>1. j < i => j \in 1 .. i - 1
        BY <1>1, <3>1
      <4> QED
        BY <1>2, <4>1 DEF First
    <3> QED
      BY <1>1, <3>1, <3>2, <3>3
  <2>2. \A i \in 1 .. Len(Kids(p)) :
          First(key, p, k, cs, i) <=> /\ KeyMatches(key[Kids(p)[i]], k, cs)
                                      /\ \A l \in 1 .. i - 1 : ~KeyMatches(key[Kids(p)[l]], k, cs)
    BY <1>1 DEF First, Named
  <2>3. j \in 1 .. Len(Kids(p))
    BY <1>1, <1>2 DEF First
  <2> HIDE DEF First
  <2> QED
    BY <1>2, <2>1, <2>2, <2>3 DEF FirstNamed
<1>3. ASSUME NEW l \in 1 .. Len(KidsOf[p]), Named(key, p, k, cs, l) PROVE \E j : First(key, p, k, cs, j)
  <2> DEFINE T == {i \in 1 .. Len(KidsOf[p]) : Named(key, p, k, cs, i)}
  <2>1. T \subseteq Nat /\ T # {}
    BY <1>1, <1>3
  <2>2. PICK j \in T : \A i \in T : j <= i
    BY <2>1, LeastNatural
  <2>3. j \in Nat /\ j \in 1 .. Len(KidsOf[p])
    BY <1>1, <2>2
  <2>4. \A i \in 1 .. j - 1 : i \in 1 .. Len(KidsOf[p]) /\ ~(j <= i)
    BY <1>1, <2>3
  <2> QED
    BY <2>2, <2>3, <2>4 DEF First
<1> QED
  BY <1>2, <1>3

\* A key means the first child that carries it; the name given to the new item before
\* the lookup does not change what is found (arena.rs, find_object_child,
\* replace_item_in_object_by_case).
THEOREM AKeyIsTheFirstMatch == TreeSpec => KeyIsFirstMatch
<1> DEFINE Step ==
      \A p \in Live, k \in Keys, cs \in BOOLEAN :
        /\ OwnsList(p) /\ (DetachItemFromObject(p, k, cs) \/ DeleteItemFromObject(p, k, cs)) =>
             Kids(p)' = RemoveAt(Kids(p), FirstNamed(p, k, cs))
        /\ \A i \in NodeIds : MayLink(p, i) /\ ReplaceItemInObject(p, k, i, cs) =>
             Kids(p)' = IF \E j \in 1 .. Len(Kids(p)) : KeyMatches(key[Kids(p)[j]], k, cs)
                          THEN ReplaceAt(Kids(p), FirstNamed(p, k, cs), i)
                          ELSE Kids(p)
<1>1. ForestInv /\ TreeInv' => Step
  <2> SUFFICES ASSUME ForestInv, TreeInv', NEW p \in Live, NEW k \in Keys, NEW cs \in BOOLEAN
               PROVE
        /\ OwnsList(p) /\ (DetachItemFromObject(p, k, cs) \/ DeleteItemFromObject(p, k, cs)) =>
             Kids(p)' = RemoveAt(Kids(p), FirstNamed(p, k, cs))
        /\ \A i \in NodeIds : MayLink(p, i) /\ ReplaceItemInObject(p, k, i, cs) =>
             Kids(p)' = IF \E j \in 1 .. Len(Kids(p)) : KeyMatches(key[Kids(p)[j]], k, cs)
                          THEN ReplaceAt(Kids(p), FirstNamed(p, k, cs), i)
                          ELSE Kids(p)
    OBVIOUS
  <2>1. p \in NodeIds /\ Kids(p) = KidsOf[p] /\ Kids(p)' = KidsOf'[p] /\ KidsOf \in [NodeIds -> Seq(NodeIds)]
    BY InvFacts DEF ForestInv, KidsOf
  <2>2. ASSUME OwnsList(p), NEW item \in FindObjectChild(key, p, k, cs),
               NEW pos \in 1 .. Len(KidsOf[p]), KidsOf[p][pos] = item
        PROVE  pos = FirstNamed(p, k, cs) /\ \E j \in 1 .. Len(KidsOf[p]) : KeyMatches(key[KidsOf[p][j]], k, cs)
    <3>1. PICK j : First(key, p, k, cs, j) /\ item = KidsOf[p][j]
      BY <2>2, FoundIsFirst DEF ForestInv
    <3>2. FirstNamed(p, k, cs) = j
      BY <2>2, <3>1, FirstIsNamed DEF ForestInv
    <3>3. j \in 1 .. Len(KidsOf[p]) /\ KeyMatches(key[KidsOf[p][j]], k, cs)
      BY <3>1 DEF First, Named
    <3>4. pos = j
      BY <2>2, <3>1, <3>3, ChildPlaces DEF ForestInv
    <3> QED
      BY <3>2, <3>3, <3>4
  <2>3. ASSUME OwnsList(p), DetachItemFromObject(p, k, cs)
        PROVE  Kids(p)' = RemoveAt(Kids(p), FirstNamed(p, k, cs))
    <3>1. PICK item \in FindObjectChild(key, p, k, cs) : DetachItemViaPointer(p, item)
      BY <2>3 DEF DetachItemFromObject
    <3>2. item \in NodeIds
      BY ChildrenAreIds
    <3>3. PICK pos \in 1 .. Len(KidsOf[p]) :
            /\ KidsOf[p][pos] = item
            /\ KidsOf' = [KidsOf EXCEPT ![p] = RemoveAt(KidsOf[p], pos)]
      BY <2>1, <2>3, <3>1, <3>2, DetachMaps
    <3>4. pos = FirstNamed(p, k, cs)
      BY <2>2, <2>3, <3>3
    <3> QED
      BY <2>1, <3>3, <3>4
  <2>4. ASSUME OwnsList(p), DeleteItemFromObject(p, k, cs)
        PROVE  Kids(p)' = RemoveAt(Kids(p), FirstNamed(p, k, cs))
    <3>1. PICK item \in FindObjectChild(key, p, k, cs) : DetachAndDelete(p, item)
      BY <2>4 DEF DeleteItemFromObject
    <3>2. item \in NodeIds
      BY ChildrenAreIds
    <3>3. PICK pos \in 1 .. Len(KidsOf[p]) :
            KidsOf[p][pos] = item /\ KidsOf[p]' = RemoveAt(KidsOf[p], pos)
      BY <2>1, <2>4, <3>1, <3>2, DetachAndDeleteMaps
    <3>4. pos = FirstNamed(p, k, cs)
      BY <2>2, <2>4, <3>3
    <3> QED
      BY <2>1, <3>3, <3>4
  <2>5. ASSUME NEW i \in NodeIds, MayLink(p, i), ReplaceItemInObject(p, k, i, cs)
        PROVE  Kids(p)' = IF \E j \in 1 .. Len(Kids(p)) : KeyMatches(key[Kids(p)[j]], k, cs)
                            THEN ReplaceAt(Kids(p), FirstNamed(p, k, cs), i)
                            ELSE Kids(p)
    <3>1. PICK ky : ky = [key EXCEPT ![i] = k]
      OBVIOUS
    <3>2. OwnsList(p) /\ Held(i) /\ p # i
      BY <2>5, MayLinkMeans DEF MayLink, ForestInv
\* The item is no child of p, so its new name is not found.
    <3>3. FindObjectChild(ky, p, k, cs) = FindObjectChild(key, p, k, cs)
      <4>1. /\ Len(KidsOf[p]) \in Nat
            /\ Chain(p) = {KidsOf[p][l] : l \in 1 .. Len(KidsOf[p])}
            /\ \A l \in 1 .. Len(KidsOf[p]) :
                 Walk(next, child[p], KidsOf[p][l]) = {KidsOf[p][m] : m \in 1 .. l - 1}
        BY <3>2, ChildPlaces DEF ForestInv
      <4>2. \A l \in 1 .. Len(KidsOf[p]) : KidsOf[p][l] # i
        <5>1. \A l \in 1 .. Len(KidsOf[p]) : ~Unheld(Live, isRef, next, child, KidsOf[p][l])
          BY <2>1, InvFacts, ListFacts DEF ForestInv
        <5>2. Unheld(Live, isRef, next, child, i)
          BY <2>5, MayLinkMeans DEF ForestInv
        <5> QED
          BY <5>1, <5>2
      <4>3. \A m \in Chain(p) : ky[m] = key[m]
        <5>1. key \in [NodeIds -> Keys \cup {None}]
          BY InvFacts DEF ForestInv
        <5> QED
          BY <3>1, <4>1, <4>2, <5>1
      <4>4. \A n \in Chain(p) : Walk(next, child[p], n) \subseteq Chain(p)
        <5> SUFFICES ASSUME NEW n \in Chain(p) PROVE Walk(next, child[p], n) \subseteq Chain(p)
          OBVIOUS
        <5>1. PICK l \in 1 .. Len(KidsOf[p]) : n = KidsOf[p][l]
          BY <4>1
        <5>2. \A m \in 1 .. l - 1 : m \in 1 .. Len(KidsOf[p])
          BY <4>1
        <5>3. Walk(next, child[p], KidsOf[p][l]) = {KidsOf[p][m] : m \in 1 .. l - 1}
          BY <4>1
        <5>4. ASSUME NEW x \in Walk(next, child[p], KidsOf[p][l]) PROVE x \in Chain(p)
          <6>1. \E m \in 1 .. l - 1 : x = KidsOf[p][m]
            BY <5>3, <5>4
          <6>2. PICK m \in 1 .. l - 1 : x = KidsOf[p][m]
            BY <6>1
          <6>3. m \in 1 .. Len(KidsOf[p])
            BY <5>2
          <6> QED
            BY <4>1, <6>2, <6>3
        <5> QED
          BY <5>1, <5>4
      <4> QED
        BY <4>3, <4>4 DEF FindObjectChild
    <3>4. ASSUME NEW old \in FindObjectChild(ky, p, k, cs), Replace(p, old, i, ky)
          PROVE  Kids(p)' = IF \E j \in 1 .. Len(Kids(p)) : KeyMatches(key[Kids(p)[j]], k, cs)
                              THEN ReplaceAt(Kids(p), FirstNamed(p, k, cs), i)
                              ELSE Kids(p)
      <4>1. old \in NodeIds /\ k \in Keys \cup {None}
        BY ChildrenAreIds
      <4>2. PICK pos \in 1 .. Len(KidsOf[p]) :
              KidsOf[p][pos] = old /\ KidsOf[p]' = ReplaceAt(KidsOf[p], pos, i)
        BY <2>1, <2>5, <3>1, <3>4, <4>1, ReplaceMaps
      <4>3. /\ pos = FirstNamed(p, k, cs)
            /\ \E j \in 1 .. Len(KidsOf[p]) : KeyMatches(key[KidsOf[p][j]], k, cs)
        BY <2>2, <3>2, <3>3, <3>4, <4>2
      <4> QED
        BY <2>1, <4>2, <4>3
    <3>5. ASSUME FindObjectChild(ky, p, k, cs) = {}
          PROVE  ~\E j \in 1 .. Len(KidsOf[p]) : KeyMatches(key[KidsOf[p][j]], k, cs)
      <4>1. ~\E j : First(key, p, k, cs, j)
        BY <3>2, <3>3, <3>5, FoundIsFirst DEF ForestInv
      <4> QED
        BY <3>2, <4>1, FirstIsNamed DEF ForestInv, Named
    <3>6. CASE /\ \/ FindObjectChild(ky, p, k, cs) = {} /\ WalkEnds(p)
                  \/ FindObjectChild(ky, p, k, cs) # {} /\ p = i
                  \/ ~(FindObjectChild(ky, p, k, cs) \subseteq Live)
               /\ key' = ky
               /\ UNCHANGED <<size, deleted, links, isRef>>
      <4>1. FindObjectChild(ky, p, k, cs) \subseteq Live
        <5>1. FindObjectChild(ky, p, k, cs) \subseteq Chain(p)
          BY DEF FindObjectChild
        <5>2. \A l \in 1 .. Len(KidsOf[p]) : KidsOf[p][l] \in Live
          BY <2>1, InvFacts, ListFacts DEF ForestInv
        <5> QED
          BY <3>2, <5>1, <5>2, ChildPlaces DEF ForestInv
      <4>2. FindObjectChild(ky, p, k, cs) = {}
        BY <3>2, <3>6, <4>1
      <4>3. KidsOf' = KidsOf
        <5>1. key' = [key EXCEPT ![i] = k] /\ UNCHANGED <<size, deleted, links, isRef>>
          BY <3>1, <3>6
        <5> QED
          BY <3>2, <5>1, RenameMaps
      <4> QED
        BY <2>1, <3>5, <4>2, <4>3
    <3> QED
      BY <2>5, <3>1, <3>4, <3>6 DEF ReplaceItemInObject
  <2> QED
    BY <2>3, <2>4, <2>5
<1>2. KeyIsFirstMatch <=> [][Step]_vars
  BY DEF KeyIsFirstMatch
<1> QED
  BY <1>1, <1>2, InitMaps, StepMaps, TreeInvAlways, PTL DEF TreeSpec

\* An item created for an object is its last child or was never there
\* (arena.rs, add_created_to_object).
THEOREM ACreatedItemHangsOrIsGone == TreeSpec => CreatedHangsOrIsGone
<1> DEFINE Step ==
      \A p \in NodeIds, k \in Keys : (p \in Live => OwnsList(p)) /\ AddCreatedToObject(p, k) =>
        IF p \in Live
          THEN Kids(p)' = Append(Kids(p), size) /\ key'[size] = k /\ Live' = Live \cup {size}
          ELSE Live' = Live /\ \A q \in Live : Kids(q)' = Kids(q)
<1>1. ForestInv /\ TreeInv' => Step
  <2> SUFFICES ASSUME ForestInv, TreeInv', NEW p \in NodeIds, NEW k \in Keys,
                      p \in Live => OwnsList(p), AddCreatedToObject(p, k)
               PROVE
        IF p \in Live
          THEN Kids(p)' = Append(Kids(p), size) /\ key'[size] = k /\ Live' = Live \cup {size}
          ELSE Live' = Live /\ \A q \in Live : Kids(q)' = Kids(q)
    OBVIOUS
  <2>1. \A q \in NodeIds : Kids(q) = KidsOf[q] /\ Kids(q)' = KidsOf'[q]
    BY DEF KidsOf
  <2>2. KidsOf \in [NodeIds -> Seq(NodeIds)] /\ Live \subseteq NodeIds
    BY InvFacts DEF ForestInv
  <2>3. IF p \in Live
          THEN /\ KidsOf' = [KidsOf EXCEPT ![p] = Append(KidsOf[p], size)]
               /\ key'[size] = k /\ Live' = Live \cup {size}
          ELSE Live' = Live /\ KidsOf' = KidsOf
    BY AddCreatedMaps
  <2>4. CASE p \in Live
    BY <2>1, <2>2, <2>3, <2>4
  <2>5. CASE p \notin Live
    BY <2>1, <2>2, <2>3, <2>5
  <2> QED
    BY <2>4, <2>5
<1>2. CreatedHangsOrIsGone <=> [][Step]_vars
  BY DEF CreatedHangsOrIsGone
<1> QED
  BY <1>1, <1>2, InitMaps, StepMaps, TreeInvAlways, PTL DEF TreeSpec
=============================================================================
