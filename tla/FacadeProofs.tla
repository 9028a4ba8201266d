---------------------------- MODULE FacadeProofs ----------------------------
(***************************************************************************)
(* For every heap, every allocator and every set of documents: the calls   *)
(* of the C interface leave no block behind, share none and free none      *)
(* twice, wherever a request for memory is refused; and what a call builds *)
(* is the document it was asked for.                                       *)
(*                                                                         *)
(* The blocks are parted by owner: each belongs to the tree of one root.   *)
(* Three edits make up all the calls, each with a lemma:                   *)
(*                                                                         *)
(*   GrowSafe   one more block, a root of its own                          *)
(*   HangSafe   a root is hung in a pointer that was null                  *)
(*   DropSafe   a root is freed, with all that is reached from it          *)
(*                                                                         *)
(* For the documents, each struct that a call has linked is labelled with  *)
(* what is to be spelled from it on, to the end of its list.  A struct is  *)
(* younger than its parent and its elder siblings, so that the labels can  *)
(* be read off from the youngest to the oldest.                            *)
(***************************************************************************)
EXTENDS Facade, NaturalLemmas, FiniteSetTheorems, SequenceTheorems, TLAPS

-----------------------------------------------------------------------------
(* The inductive invariant, as a predicate on the blocks and pointers: A is *)
(* what is allocated, R the roots, and own says which root a block is of.   *)

Pointees(nx, ch, vs, st, m) == {nx[m], ch[m], vs[m], st[m]}

\* Pointers lead to allocated blocks, and what is free points nowhere.
Typed(A, nx, pv, ch, vs, st) ==
  /\ A \subseteq Blocks
  /\ \A f \in {nx, pv, ch, vs, st} :
       /\ f \in [Blocks -> Pointer]
       /\ \A m \in A : f[m] \in A \cup {Null}
       /\ \A m \in Blocks \ A : f[m] = Null

\* No block is pointed at twice.
Once(A, nx, ch, vs, st) ==
  /\ \A m, n \in A, c \in A :
       c \in Pointees(nx, ch, vs, st, m) /\ c \in Pointees(nx, ch, vs, st, n) => m = n
  /\ \A m \in A :
       /\ nx[m] # Null => nx[m] \notin {ch[m], vs[m], st[m]}
       /\ ch[m] # Null => ch[m] \notin {vs[m], st[m]}
       /\ vs[m] # Null => vs[m] # st[m]

\* Pointers stay in the tree of one root, and never lead to a root.
Parted(A, R, nx, ch, vs, st, own) ==
  /\ R \subseteq A
  /\ own \in [A -> R]
  /\ \A r \in R : own[r] = r
  /\ \A m \in A, c \in A : c \in Pointees(nx, ch, vs, st, m) => own[c] = own[m] /\ c \notin R

Closed(nx, ch, vs, st, S) == \A m \in S : Pointees(nx, ch, vs, st, m) \subseteq S \cup {Null}

\* Everything is reached from the roots.
Needed(A, R, nx, ch, vs, st) ==
  \A S \in SUBSET Blocks : R \subseteq S /\ Closed(nx, ch, vs, st, S) => A \subseteq S

\* prev mirrors next, and neither roots nor first children have a prev.
Sided(A, R, nx, pv, ch) ==
  /\ \A a, b \in A : nx[a] = b <=> pv[b] = a
  /\ \A r \in R : pv[r] = Null /\ nx[r] = Null
  /\ \A a \in A : ch[a] # Null => pv[ch[a]] = Null

Trees(A, R, nx, pv, ch, vs, st, own) ==
  /\ Typed(A, nx, pv, ch, vs, st)
  /\ Once(A, nx, ch, vs, st)
  /\ Parted(A, R, nx, ch, vs, st, own)
  /\ Needed(A, R, nx, ch, vs, st)
  /\ Sided(A, R, nx, pv, ch)

-----------------------------------------------------------------------------
(* The inductive invariant of the state. *)

Steps == {"struct", "value", "string", "kids"}

Frames(documents) == [doc : documents, ptr : Pointer, step : Steps, done : Nat, tail : Pointer]

\* The calls of a build: all but the innermost wait for a child, and none has
\* allocated what it is about to allocate.
FrameInv(i) ==
  /\ calls[i].ptr = Null <=> calls[i].step = "struct"
  /\ i # Len(calls) => calls[i].step = "kids"
  /\ calls[i].ptr # Null => calls[i].ptr \in allocated \ held
  /\ calls[i].step = "value" => valuestring[calls[i].ptr] = Null /\ string[calls[i].ptr] = Null
  /\ calls[i].step = "string" => string[calls[i].ptr] = Null /\ calls[i].doc.key
  /\ calls[i].tail = Null /\ calls[i].ptr # Null => child[calls[i].ptr] = Null
  /\ calls[i].tail # Null => /\ calls[i].ptr # Null
                             /\ calls[i].tail \in allocated
                             /\ calls[i].tail # calls[i].ptr
                             /\ next[calls[i].tail] = Null

CallsInv ==
  /\ \A i \in DOMAIN calls : FrameInv(i)
  /\ \A i, j \in DOMAIN calls : calls[i].ptr = calls[j].ptr /\ calls[i].ptr # Null => i = j

\* Only a member that is being added to an object has a key.
KeysInv ==
  /\ \A h \in held : string[h] = Null
  /\ calls = <<>> => target = Null
  /\ calls # <<>> /\ target = Null =>
       ~calls[1].doc.key /\ (calls[1].ptr # Null => string[calls[1].ptr] = Null)

\* The last child is in the tree of its parent, the object added to in one that is
\* held, and what the function installed would not take is too.
OwnersInv(own) ==
  /\ \A i \in DOMAIN calls : calls[i].tail # Null => own[calls[i].tail] = calls[i].ptr
  /\ target # Null => target \in allocated /\ own[target] \in held
  /\ \A b \in allocated : own[b] \in held \/ from[b] = hooks.free

PlainInv ==
  /\ used \in 0 .. MaxBlocks
  /\ allocated \subseteq 0 .. used - 1
  /\ held \subseteq allocated
  /\ hooks \in [malloc : Allocators, free : Allocators]
  /\ calls # <<>> => HooksMatch
  /\ from \in [Blocks -> Allocators \cup {Null}]
  /\ astray = {}
  /\ {errorPtr, lastText} \subseteq Texts \cup {Null}
  /\ \E documents : calls \in Seq(Frames(documents))

HeapInv ==
  /\ PlainInv
  /\ CallsInv
  /\ KeysInv
  /\ \E own : Trees(allocated, Roots, next, prev, child, valuestring, string, own) /\ OwnersInv(own)

LEMMA NullIsNoBlock == Null \notin Blocks
BY NullAssumption

-----------------------------------------------------------------------------
(* The three edits. *)

\* One more block that points nowhere, a root of its own.
LEMMA GrowSafe ==
  ASSUME NEW A, NEW R, NEW nx, NEW pv, NEW ch, NEW vs, NEW st, NEW own,
         Trees(A, R, nx, pv, ch, vs, st, own),
         NEW id \in Blocks \ A,
         NEW own2, own2 \in [A \cup {id} -> R \cup {id}], own2[id] = id,
         \A m \in A : own2[m] = own[m]
  PROVE  Trees(A \cup {id}, R \cup {id}, nx, pv, ch, vs, st, own2)
<1> USE NullIsNoBlock
<1> DEFINE A2 == A \cup {id}
           R2 == R \cup {id}
<1>1. /\ A \subseteq Blocks /\ R \subseteq A
      /\ \A m \in A : {nx[m], pv[m], ch[m], vs[m], st[m]} \subseteq A \cup {Null}
      /\ nx[id] = Null /\ pv[id] = Null /\ ch[id] = Null /\ vs[id] = Null /\ st[id] = Null
  BY DEF Trees, Typed, Parted
<1>2. Typed(A2, nx, pv, ch, vs, st)
  BY <1>1 DEF Trees, Typed
<1>3. \A m \in A2, c \in A2 : c \in Pointees(nx, ch, vs, st, m) => m \in A /\ c \in A
  BY <1>1 DEF Pointees
<1>4. Once(A2, nx, ch, vs, st)
  BY <1>1, <1>3 DEF Trees, Once
<1>5. Parted(A2, R2, nx, ch, vs, st, own2)
  BY <1>1, <1>3 DEF Trees, Parted
<1>6. Needed(A2, R2, nx, ch, vs, st)
  BY DEF Trees, Needed
<1>7. Sided(A2, R2, nx, pv, ch)
  BY <1>1 DEF Trees, Sided
<1> QED
  BY <1>2, <1>4, <1>5, <1>6, <1>7 DEF Trees

\* The root r is hung in one pointer of m, which was null: everything but that
\* pointer, prev of r and the owner of the tree of r is what it was.
Hung(A, R, nx, pv, ch, vs, st, own, m, r, nx2, pv2, ch2, vs2, st2, own2) ==
  /\ m \in A /\ r \in R /\ own[m] # r
  /\ nx2 \in [Blocks -> Pointer] /\ pv2 \in [Blocks -> Pointer] /\ ch2 \in [Blocks -> Pointer]
  /\ vs2 \in [Blocks -> Pointer] /\ st2 \in [Blocks -> Pointer]
  /\ \A b \in Blocks \ {m} : nx2[b] = nx[b] /\ ch2[b] = ch[b] /\ vs2[b] = vs[b] /\ st2[b] = st[b]
  /\ \A b \in Blocks \ {r} : pv2[b] = pv[b]
  /\ \/ /\ m \notin R
        /\ nx[m] = Null /\ nx2[m] = r /\ pv2[r] = m
        /\ ch2[m] = ch[m] /\ vs2[m] = vs[m] /\ st2[m] = st[m]
     \/ /\ nx2[m] = nx[m] /\ pv2[r] = pv[r]
        /\ \/ ch[m] = Null /\ ch2[m] = r /\ vs2[m] = vs[m] /\ st2[m] = st[m]
           \/ vs[m] = Null /\ vs2[m] = r /\ ch2[m] = ch[m] /\ st2[m] = st[m]
           \/ st[m] = Null /\ st2[m] = r /\ ch2[m] = ch[m] /\ vs2[m] = vs[m]
  /\ own2 \in [A -> R \ {r}]
  /\ \A b \in A : (own2[b] = own[b] /\ own[b] # r) \/ (own2[b] = own[m] /\ own[b] = r)

LEMMA HangSafe ==
  ASSUME NEW A, NEW R, NEW nx, NEW pv, NEW ch, NEW vs, NEW st, NEW own,
         Trees(A, R, nx, pv, ch, vs, st, own),
         NEW m, NEW r, NEW nx2, NEW pv2, NEW ch2, NEW vs2, NEW st2, NEW own2,
         Hung(A, R, nx, pv, ch, vs, st, own, m, r, nx2, pv2, ch2, vs2, st2, own2)
  PROVE  Trees(A, R \ {r}, nx2, pv2, ch2, vs2, st2, own2)
<1> USE NullIsNoBlock DEF Hung
<1> DEFINE R2 == R \ {r}
<1>1. /\ A \subseteq Blocks /\ R \subseteq A /\ m \in Blocks /\ r \in Blocks /\ r \in A
      /\ \A b \in A : nx[b] \in A \cup {Null} /\ pv[b] \in A \cup {Null} /\ ch[b] \in A \cup {Null}
                      /\ vs[b] \in A \cup {Null} /\ st[b] \in A \cup {Null}
      /\ \A b \in Blocks \ A : nx[b] = Null /\ pv[b] = Null /\ ch[b] = Null /\ vs[b] = Null /\ st[b] = Null
  BY DEF Trees, Typed, Parted
<1>2. Typed(A, nx2, pv2, ch2, vs2, st2)
  BY <1>1 DEF Typed
\* What the edit does to the pointers, whichever it is.
<1>3. \A b \in A : \A c \in Blocks :
        c \in Pointees(nx2, ch2, vs2, st2, b) <=> c \in Pointees(nx, ch, vs, st, b) \/ (b = m /\ c = r)
  BY <1>1 DEF Pointees
<1>4. \A b \in A, c \in A : c \in Pointees(nx, ch, vs, st, b) => own[c] = own[b] /\ c \notin R
  BY DEF Trees, Parted
<1>5. Once(A, nx2, ch2, vs2, st2)
  <2>1. ASSUME NEW b \in A, NEW d \in A, NEW c \in A,
               c \in Pointees(nx2, ch2, vs2, st2, b), c \in Pointees(nx2, ch2, vs2, st2, d)
        PROVE  b = d
    BY <1>1, <1>3, <1>4, <2>1 DEF Trees, Once
  <2>2. ASSUME NEW b \in A
        PROVE  /\ nx2[b] # Null => nx2[b] \notin {ch2[b], vs2[b], st2[b]}
               /\ ch2[b] # Null => ch2[b] \notin {vs2[b], st2[b]}
               /\ vs2[b] # Null => vs2[b] # st2[b]
    <3>1. /\ nx[b] # Null => nx[b] \notin {ch[b], vs[b], st[b]}
          /\ ch[b] # Null => ch[b] \notin {vs[b], st[b]}
          /\ vs[b] # Null => vs[b] # st[b]
      BY DEF Trees, Once
    <3>2. r \notin {nx[b], ch[b], vs[b], st[b]} /\ r # Null
      BY <1>1, <1>4 DEF Pointees
    <3> QED
      BY <1>1, <3>1, <3>2
  <2> QED
    BY <2>1, <2>2 DEF Once
<1>6. Parted(A, R2, nx2, ch2, vs2, st2, own2)
  <2>1. own \in [A -> R] /\ \A q \in R : own[q] = q
    BY DEF Trees, Parted
  <2>2. \A q \in R2 : own2[q] = q
    BY <1>1, <2>1
  <2>3. ASSUME NEW b \in A, NEW c \in A, c \in Pointees(nx2, ch2, vs2, st2, b)
        PROVE  own2[c] = own2[b] /\ c \notin R2
    <3>1. CASE c \in Pointees(nx, ch, vs, st, b)
      BY <1>4, <3>1
    <3>2. CASE b = m /\ c = r
      BY <1>1, <2>1, <3>2
    <3> QED
      BY <1>1, <1>3, <2>3, <3>1, <3>2
  <2> QED
    BY <1>1, <2>2, <2>3 DEF Parted
<1>7. Needed(A, R2, nx2, ch2, vs2, st2)
  <2> SUFFICES ASSUME NEW S \in SUBSET Blocks, R2 \subseteq S, Closed(nx2, ch2, vs2, st2, S)
               PROVE  A \subseteq S
    BY DEF Needed
  <2> DEFINE T == {b \in A : own[b] = r}
  <2>1. \A b \in Blocks : Pointees(nx, ch, vs, st, b) \subseteq Pointees(nx2, ch2, vs2, st2, b) \cup {Null}
    BY <1>1 DEF Pointees
  <2>2. Closed(nx, ch, vs, st, S)
    BY <2>1 DEF Closed
  <2>3. Closed(nx, ch, vs, st, T)
    <3>1. \A b \in A : Pointees(nx, ch, vs, st, b) \subseteq A \cup {Null}
      BY <1>1 DEF Pointees
    <3> QED
      BY <1>4, <3>1 DEF Closed
  <2>4. Closed(nx, ch, vs, st, S \cup T) /\ S \cup T \in SUBSET Blocks /\ r \in T
    BY <1>1, <2>2, <2>3 DEF Closed, Trees, Parted
  <2>5. A \subseteq S \cup T
    BY <2>4 DEF Trees, Needed
  <2>6. m \in S /\ r \in Pointees(nx2, ch2, vs2, st2, m)
    BY <1>1, <1>3, <2>5
  <2>7. r \in S
    BY <1>1, <2>6 DEF Closed
  <2> QED
    BY <2>2, <2>7 DEF Trees, Needed
<1>8. Sided(A, R2, nx2, pv2, ch2)
  <2>1. /\ \A a, b \in A : nx[a] = b <=> pv[b] = a
        /\ \A q \in R : pv[q] = Null /\ nx[q] = Null
        /\ \A a \in A : ch[a] # Null => pv[ch[a]] = Null
    BY DEF Trees, Sided
  <2>2. \A a \in A : nx[a] # r /\ ch[a] # r
    BY <1>1, <1>4 DEF Pointees
  <2>3. \A a, b \in A : nx2[a] = b <=> pv2[b] = a
    BY <1>1, <2>1, <2>2
  <2>4. \A q \in R2 : pv2[q] = Null /\ nx2[q] = Null
    BY <1>1, <2>1
  <2>5. \A a \in A : ch2[a] # Null => pv2[ch2[a]] = Null
    BY <1>1, <2>1, <2>2
  <2> QED
    BY <2>3, <2>4, <2>5 DEF Sided
<1> QED
  BY <1>2, <1>5, <1>6, <1>7, <1>8 DEF Trees

\* The tree of a root is what is reached from it.
LEMMA TreeOf ==
  ASSUME NEW A, NEW R, NEW nx, NEW pv, NEW ch, NEW vs, NEW st, NEW own,
         Trees(A, R, nx, pv, ch, vs, st, own), NEW r \in R,
         NEW T, T \subseteq Blocks, r \in T, Closed(nx, ch, vs, st, T)
  PROVE  {b \in A : own[b] = r} \subseteq T
<1> USE NullIsNoBlock
<1> DEFINE S == T \cup {b \in A : own[b] # r}
<1>1. /\ A \subseteq Blocks /\ R \subseteq A /\ \A q \in R : own[q] = q
      /\ \A b \in A : Pointees(nx, ch, vs, st, b) \subseteq A \cup {Null}
      /\ \A b \in A, c \in A : c \in Pointees(nx, ch, vs, st, b) => own[c] = own[b]
  BY DEF Trees, Typed, Parted, Pointees
<1>2. Closed(nx, ch, vs, st, S)
  BY <1>1 DEF Closed
<1>3. S \in SUBSET Blocks /\ R \subseteq S
  BY <1>1
<1>4. A \subseteq S
  BY <1>2, <1>3 DEF Trees, Needed
<1> QED
  BY <1>4

\* A root is freed with its tree.
LEMMA DropSafe ==
  ASSUME NEW A, NEW R, NEW nx, NEW pv, NEW ch, NEW vs, NEW st, NEW own,
         Trees(A, R, nx, pv, ch, vs, st, own), NEW r \in R,
         NEW D, D = {b \in A : own[b] = r},
         NEW own2, own2 \in [A \ D -> R \ {r}], \A b \in A \ D : own2[b] = own[b]
  PROVE  Trees(A \ D, R \ {r}, Freed(nx, D), Freed(pv, D), Freed(ch, D), Freed(vs, D), Freed(st, D), own2)
<1> USE NullIsNoBlock
<1>1. /\ A \subseteq Blocks /\ R \subseteq A /\ \A q \in R : own[q] = q
      /\ \A b \in A : nx[b] \in A \cup {Null} /\ pv[b] \in A \cup {Null} /\ ch[b] \in A \cup {Null}
                      /\ vs[b] \in A \cup {Null} /\ st[b] \in A \cup {Null}
      /\ \A b \in Blocks \ A : nx[b] = Null /\ pv[b] = Null /\ ch[b] = Null /\ vs[b] = Null /\ st[b] = Null
      /\ \A f \in {nx, pv, ch, vs, st} : f \in [Blocks -> Pointer]
  BY DEF Trees, Typed, Parted
<1>2. \A b \in A, c \in A : c \in Pointees(nx, ch, vs, st, b) => own[c] = own[b] /\ c \notin R
  BY DEF Trees, Parted
<1>3. /\ \A a, b \in A : nx[a] = b <=> pv[b] = a
      /\ \A q \in R : pv[q] = Null /\ nx[q] = Null
      /\ \A a \in A : ch[a] # Null => pv[ch[a]] = Null
  BY DEF Trees, Sided
<1> DEFINE A2 == A \ D
           R2 == R \ {r}
           nx2 == Freed(nx, D)
           pv2 == Freed(pv, D)
           ch2 == Freed(ch, D)
           vs2 == Freed(vs, D)
           st2 == Freed(st, D)
<1>4. /\ \A f \in {nx2, pv2, ch2, vs2, st2} : f \in [Blocks -> Pointer]
      /\ \A b \in D : nx2[b] = Null /\ pv2[b] = Null /\ ch2[b] = Null /\ vs2[b] = Null /\ st2[b] = Null
      /\ \A b \in Blocks \ D : nx2[b] = nx[b] /\ pv2[b] = pv[b] /\ ch2[b] = ch[b]
                               /\ vs2[b] = vs[b] /\ st2[b] = st[b]
  BY <1>1 DEF Freed, Pointer
<1> HIDE DEF nx2, pv2, ch2, vs2, st2
<1>5. \A b \in A2 : /\ nx[b] \in A2 \cup {Null} /\ pv[b] \in A2 \cup {Null} /\ ch[b] \in A2 \cup {Null}
                    /\ vs[b] \in A2 \cup {Null} /\ st[b] \in A2 \cup {Null}
  BY <1>1, <1>2, <1>3 DEF Pointees
<1>6. Typed(A2, nx2, pv2, ch2, vs2, st2)
  BY <1>1, <1>4, <1>5 DEF Typed
<1>7. \A b \in A2 : Pointees(nx2, ch2, vs2, st2, b) = Pointees(nx, ch, vs, st, b)
  BY <1>1, <1>4 DEF Pointees
<1>8. Once(A2, nx2, ch2, vs2, st2)
  BY <1>1, <1>4, <1>7 DEF Trees, Once
<1>9. Parted(A2, R2, nx2, ch2, vs2, st2, own2)
  BY <1>1, <1>2, <1>7 DEF Parted
<1>10. Needed(A2, R2, nx2, ch2, vs2, st2)
  <2> SUFFICES ASSUME NEW S \in SUBSET Blocks, R2 \subseteq S, Closed(nx2, ch2, vs2, st2, S)
               PROVE  A2 \subseteq S
    BY DEF Needed
  <2>1. \A b \in A : Pointees(nx, ch, vs, st, b) \subseteq A \cup {Null}
    BY <1>1 DEF Pointees
  <2>2. \A b \in D : Pointees(nx, ch, vs, st, b) \subseteq D \cup {Null}
    BY <1>2, <2>1
  <2>3. \A b \in Blocks \ D : Pointees(nx2, ch2, vs2, st2, b) = Pointees(nx, ch, vs, st, b)
    BY <1>4 DEF Pointees
  <2>4. Closed(nx, ch, vs, st, S \cup D)
    BY <2>2, <2>3 DEF Closed
  <2>5. S \cup D \in SUBSET Blocks /\ R \subseteq S \cup D
    BY <1>1
  <2>6. A \subseteq S \cup D
    BY <2>4, <2>5 DEF Trees, Needed
  <2> QED
    BY <2>6
<1>11. Sided(A2, R2, nx2, pv2, ch2)
  BY <1>1, <1>3, <1>4, <1>5 DEF Sided
<1> QED
  BY <1>6, <1>8, <1>9, <1>10, <1>11 DEF Trees, nx2, pv2, ch2, vs2, st2

-----------------------------------------------------------------------------
(* What the walks reach. *)

LEMMA NextReach ==
  ASSUME NEW b, NEW S \in SUBSET Blocks, b \in S, \A m \in S : next[m] \in S \cup {Null}
  PROVE  Reach(b, <<next>>) \subseteq S
BY DEF Reach

LEMMA StructReach ==
  ASSUME NEW b, NEW S \in SUBSET Blocks, b \in S,
         \A m \in S : next[m] \in S \cup {Null} /\ child[m] \in S \cup {Null}
  PROVE  Reach(b, <<next, child>>) \subseteq S
<1>1. \A m \in S, i \in DOMAIN <<next, child>> : <<next, child>>[i][m] \in S \cup {Null}
  <2> SUFFICES ASSUME NEW m \in S, NEW i \in {1, 2} PROVE <<next, child>>[i][m] \in S \cup {Null}
    OBVIOUS
  <2> QED
    OBVIOUS
<1> QED
  BY <1>1 DEF Reach

LEMMA ReachStarts == \A fs : \A b \in Blocks : b \in Reach(b, fs)
BY DEF Reach

\* cJSON_Delete of a root frees its tree.
LEMMA OwnedIsTree ==
  ASSUME NEW A, NEW R, NEW own,
         Trees(A, R, next, prev, child, valuestring, string, own), NEW r \in R
  PROVE  OwnedBlocks(r) = {b \in A : own[b] = r}
<1> USE NullIsNoBlock
<1> DEFINE fs == <<next, child, valuestring, string>>
           T == {b \in A : own[b] = r}
<1>1. \A S : Closed(next, child, valuestring, string, S)
               <=> \A m \in S, i \in DOMAIN fs : fs[i][m] \in S \cup {Null}
  <2> SUFFICES ASSUME NEW S
               PROVE  Closed(next, child, valuestring, string, S)
                        <=> \A m \in S, i \in {1, 2, 3, 4} : fs[i][m] \in S \cup {Null}
    OBVIOUS
  <2>1. fs[1] = next /\ fs[2] = child /\ fs[3] = valuestring /\ fs[4] = string
    OBVIOUS
  <2> HIDE DEF fs
  <2> QED
    BY <2>1 DEF Closed, Pointees
<1> HIDE DEF fs
<1>2. \A m : m \in OwnedBlocks(r) <=>
        m \in Blocks /\ \A S \in SUBSET Blocks : r \in S /\ Closed(next, child, valuestring, string, S) => m \in S
  BY <1>1 DEF OwnedBlocks, Reach, fs
<1>3. /\ A \subseteq Blocks /\ R \subseteq A /\ own[r] = r
      /\ \A b \in A : Pointees(next, child, valuestring, string, b) \subseteq A \cup {Null}
      /\ \A b \in A, c \in A : c \in Pointees(next, child, valuestring, string, b) => own[c] = own[b]
  BY DEF Trees, Typed, Parted, Pointees
<1>4. Closed(next, child, valuestring, string, T) /\ T \in SUBSET Blocks /\ r \in T
  BY <1>3 DEF Closed
<1>5. \A S \in SUBSET Blocks : r \in S /\ Closed(next, child, valuestring, string, S) => T \subseteq S
  BY TreeOf
<1>6. \A m : m \in OwnedBlocks(r) <=> m \in T
  <2> HIDE DEF T
  <2> QED
    BY <1>2, <1>4, <1>5
<1> QED
  BY <1>6

-----------------------------------------------------------------------------
(* Sequences. *)

LEMMA SeqWiden ==
  ASSUME NEW S, NEW T, S \subseteq T, NEW s \in Seq(S)
  PROVE  s \in Seq(T)
OBVIOUS

LEMMA PushFacts ==
  ASSUME NEW S, NEW s \in Seq(S), NEW w \in S
  PROVE  /\ Append(s, w) \in Seq(S)
         /\ Append(s, w) # <<>>
         /\ Len(s) \in Nat
         /\ Len(Append(s, w)) = Len(s) + 1
         /\ DOMAIN s = 1 .. Len(s)
         /\ DOMAIN Append(s, w) = DOMAIN s \cup {Len(s) + 1}
         /\ Len(s) + 1 \notin DOMAIN s
         /\ Append(s, w)[Len(s) + 1] = w
         /\ \A i \in DOMAIN s : Append(s, w)[i] = s[i] /\ s[i] \in S
OBVIOUS

LEMMA PopFacts ==
  ASSUME NEW S, NEW s \in Seq(S), s # <<>>
  PROVE  /\ Front(s) \in Seq(S)
         /\ Len(s) \in Nat \ {0} /\ Len(s) \in DOMAIN s /\ Len(Front(s)) = Len(s) - 1
         /\ Last(s) = s[Len(s)]
         /\ DOMAIN s = 1 .. Len(s)
         /\ DOMAIN Front(s) = DOMAIN s \ {Len(s)}
         /\ \A i \in DOMAIN s : s[i] \in S
         /\ \A i \in DOMAIN Front(s) : Front(s)[i] = s[i]
<1> DEFINE n == Len(s) - 1
<1>1. /\ n \in Nat /\ 1 \in Int /\ n \in Int /\ \A i \in 1 .. n : s[i] \in S
      /\ Len(s) \in Nat \ {0} /\ Len(s) \in DOMAIN s /\ DOMAIN s = 1 .. Len(s)
      /\ \A i \in DOMAIN s : s[i] \in S
  OBVIOUS
<1>2. /\ SubSeq(s, 1, n) \in Seq(S)
      /\ Len(SubSeq(s, 1, n)) = IF 1 <= n THEN n - 1 + 1 ELSE 0
      /\ \A i \in 1 .. n - 1 + 1 : SubSeq(s, 1, n)[i] = s[1 + i - 1]
  BY <1>1, SubSeqProperties
<1>3. Front(s) = SubSeq(s, 1, n) /\ Last(s) = s[Len(s)]
  BY DEF Front, Last
<1> DEFINE t == SubSeq(s, 1, n)
<1>4. t \in Seq(S) /\ Len(t) = n /\ DOMAIN t = 1 .. n /\ \A i \in 1 .. n : t[i] = s[i]
  <2> HIDE DEF t, n
  <2>1. /\ t \in Seq(S) /\ Len(t) = (IF 1 <= n THEN n - 1 + 1 ELSE 0)
        /\ \A i \in 1 .. n - 1 + 1 : t[i] = s[1 + i - 1]
    BY <1>2 DEF t
  <2>2. Len(t) = n /\ n - 1 + 1 = n
    BY <1>1, <2>1
  <2>3. \A i \in 1 .. n : t[i] = s[i]
    BY <1>1, <2>1, <2>2
  <2> QED
    BY <2>1, <2>2, <2>3
<1>5. 1 .. n = DOMAIN s \ {Len(s)}
  BY <1>1
<1> HIDE DEF t
<1>6. Front(s) = t
  BY <1>3 DEF t
<1> QED
  BY <1>1, <1>3, <1>4, <1>5, <1>6

\* The last element is replaced.
LEMMA SetLastFacts ==
  ASSUME NEW S, NEW s \in Seq(S), s # <<>>, NEW w \in S
  PROVE  /\ Append(Front(s), w) \in Seq(S)
         /\ Append(Front(s), w) # <<>>
         /\ Len(Append(Front(s), w)) = Len(s)
         /\ DOMAIN Append(Front(s), w) = DOMAIN s
         /\ Append(Front(s), w)[Len(s)] = w
         /\ \A i \in DOMAIN s : i # Len(s) => Append(Front(s), w)[i] = s[i]
<1> DEFINE t == Front(s)
<1>1. /\ t \in Seq(S) /\ Len(s) \in Nat \ {0} /\ Len(s) \in DOMAIN s /\ Len(t) = Len(s) - 1
      /\ DOMAIN t = DOMAIN s \ {Len(s)}
      /\ \A i \in DOMAIN t : t[i] = s[i]
  BY PopFacts
<1> HIDE DEF t
<1>2. /\ Append(t, w) \in Seq(S) /\ Append(t, w) # <<>>
      /\ Len(Append(t, w)) = Len(t) + 1
      /\ DOMAIN Append(t, w) = DOMAIN t \cup {Len(t) + 1}
      /\ Append(t, w)[Len(t) + 1] = w
      /\ \A i \in DOMAIN t : Append(t, w)[i] = t[i]
  BY <1>1, PushFacts
<1>3. Len(t) + 1 = Len(s) /\ DOMAIN t \cup {Len(s)} = DOMAIN s
  BY <1>1
<1>4. /\ Append(t, w) \in Seq(S) /\ Append(t, w) # <<>>
      /\ Len(Append(t, w)) = Len(s)
      /\ DOMAIN Append(t, w) = DOMAIN s
      /\ Append(t, w)[Len(s)] = w
      /\ \A i \in DOMAIN s : i # Len(s) => Append(t, w)[i] = s[i]
  BY <1>1, <1>2, <1>3
<1> QED
  BY <1>4 DEF t

-----------------------------------------------------------------------------
(* Facts every step may rely on. *)

LEMMA RootsAre == \A b : b \in Roots <=> b \in held \/ (b # Null /\ \E i \in DOMAIN calls : calls[i].ptr = b)
BY DEF Roots

LEMMA HeapFacts ==
  ASSUME HeapInv
  PROVE  /\ allocated \subseteq Blocks /\ used \notin allocated
         /\ used < MaxBlocks => used \in Blocks /\ used + 1 \in 0 .. MaxBlocks
         /\ Null \notin Blocks /\ Null \notin allocated
         /\ Roots \subseteq allocated /\ held \subseteq Roots
         /\ \A i \in DOMAIN calls : calls[i].ptr # Null => calls[i].ptr \in Roots
<1>1. /\ used \in 0 .. MaxBlocks /\ allocated \subseteq 0 .. used - 1 /\ held \subseteq allocated
      /\ \A i \in DOMAIN calls : calls[i].ptr # Null => calls[i].ptr \in allocated \ held
  BY DEF HeapInv, PlainInv, CallsInv, FrameInv
<1>2. /\ allocated \subseteq Blocks /\ used \notin allocated
      /\ used < MaxBlocks => used \in Blocks /\ used + 1 \in 0 .. MaxBlocks
  BY <1>1, MaxBlocksAssumption DEF Blocks
<1> QED
  BY <1>1, <1>2, NullIsNoBlock, RootsAre

LEMMA LinkTypes ==
  ASSUME NEW A, NEW R, NEW own, Trees(A, R, next, prev, child, valuestring, string, own)
  PROVE  /\ next \in [Blocks -> Pointer] /\ prev \in [Blocks -> Pointer] /\ child \in [Blocks -> Pointer]
         /\ valuestring \in [Blocks -> Pointer] /\ string \in [Blocks -> Pointer]
         /\ A \subseteq Blocks /\ R \subseteq A
         /\ \A m \in A : /\ next[m] \in A \cup {Null} /\ prev[m] \in A \cup {Null}
                         /\ child[m] \in A \cup {Null}
                         /\ valuestring[m] \in A \cup {Null} /\ string[m] \in A \cup {Null}
         /\ \A m \in Blocks \ A : /\ next[m] = Null /\ prev[m] = Null /\ child[m] = Null
                                  /\ valuestring[m] = Null /\ string[m] = Null
         /\ own \in [A -> R] /\ \A r \in R : own[r] = r /\ next[r] = Null /\ prev[r] = Null
BY DEF Trees, Typed, Parted, Sided

\* What is reached from a struct that is held is in its tree.
LEMMA HeldFacts ==
  ASSUME HeapInv, NEW own, Trees(allocated, Roots, next, prev, child, valuestring, string, own)
  PROVE  /\ \A h \in held : \A b \in Reach(h, <<next, child>>) : b \in allocated /\ own[b] = h
         /\ \A b \in HeldStructs : b \in allocated /\ own[b] \in held
<1>1. ASSUME NEW h \in held
      PROVE  \A b \in Reach(h, <<next, child>>) : b \in allocated /\ own[b] = h
  <2> DEFINE T == {b \in allocated : own[b] = h}
  <2>1. h \in Roots
    BY RootsAre
  <2>2. /\ allocated \subseteq Blocks /\ own[h] = h /\ h \in allocated
        /\ \A m \in allocated : next[m] \in allocated \cup {Null} /\ child[m] \in allocated \cup {Null}
    BY <2>1, LinkTypes
  <2>3. \A m \in allocated : /\ next[m] \in allocated => own[next[m]] = own[m]
                             /\ child[m] \in allocated => own[child[m]] = own[m]
    BY DEF Trees, Parted, Pointees
  <2>4. \A m \in T : next[m] \in T \cup {Null} /\ child[m] \in T \cup {Null}
    BY <2>2, <2>3
  <2>5. Reach(h, <<next, child>>) \subseteq T
    BY <2>2, <2>4, StructReach
  <2> QED
    BY <2>5
<1> QED
  BY <1>1 DEF HeldStructs

\* The innermost call.
LEMMA TopFacts ==
  ASSUME NEW documents, calls \in Seq(Frames(documents)), ~Idle
  PROVE  /\ Len(calls) \in DOMAIN calls /\ Len(calls) \in Nat \ {0} /\ DOMAIN calls = 1 .. Len(calls)
         /\ Top = calls[Len(calls)]
         /\ \A i \in DOMAIN calls : calls[i] \in Frames(documents)
<1>1. calls # <<>>
  BY DEF Idle
<1> HIDE DEF Frames
<1> QED
  BY <1>1, PopFacts DEF Top

-----------------------------------------------------------------------------
(* The steps that leave the heap alone. *)

LEMMA HeapInitInv == HeapInit => HeapInv
<1> SUFFICES ASSUME HeapInit PROVE HeapInv
  OBVIOUS
<1> USE NullIsNoBlock
<1>1. PlainInv
  <2>1. calls \in Seq(Frames({}))
    BY DEF HeapInit
  <2> QED
    BY <2>1, MaxBlocksAssumption, AllocatorsAssumption DEF HeapInit, PlainInv
<1>2. CallsInv /\ KeysInv
  BY DEF HeapInit, CallsInv, FrameInv, KeysInv
<1>3. Roots = {}
  BY DEF HeapInit, Roots
<1>4. PICK own : own = [b \in {} |-> b]
  OBVIOUS
<1>5. Trees({}, {}, next, prev, child, valuestring, string, own)
  BY <1>4 DEF HeapInit, Trees, Typed, Once, Parted, Needed, Sided, Pointer
<1> QED
  BY <1>1, <1>2, <1>3, <1>5 DEF HeapInv, HeapInit, OwnersInv

\* Nothing changes but what the texts of the caller are and, between calls, the hooks:
\* then all there is is held.
LEMMA SameKeeps ==
  ASSUME HeapInv, UNCHANGED <<heap, held, calls, target>>,
         hooks' \in [malloc : Allocators, free : Allocators], hooks' = hooks \/ calls = <<>>,
         {errorPtr', lastText'} \subseteq Texts \cup {Null}
  PROVE  HeapInv'
<1>1. /\ used' = used /\ allocated' = allocated /\ from' = from /\ held' = held /\ calls' = calls
      /\ target' = target /\ astray' = astray
      /\ next' = next /\ prev' = prev /\ child' = child /\ valuestring' = valuestring /\ string' = string
  BY DEF heap, blocks, fields
<1>2. Roots' = Roots
  BY <1>1 DEF Roots
<1>3. PlainInv'
  BY <1>1 DEF HeapInv, PlainInv, HooksMatch
<1>4. CallsInv' /\ KeysInv'
  BY <1>1 DEF HeapInv, CallsInv, FrameInv, KeysInv
<1>5. PICK own : Trees(allocated, Roots, next, prev, child, valuestring, string, own) /\ OwnersInv(own)
  BY DEF HeapInv
<1>6. OwnersInv(own)'
  <2>1. CASE hooks' = hooks
    BY <1>1, <1>5, <2>1 DEF OwnersInv
  <2>2. CASE calls = <<>>
    <3>1. \A b \in allocated : own[b] \in held
      <4>1. own \in [allocated -> Roots]
        BY <1>5, LinkTypes
      <4>2. \A b : b \in Roots => b \in held
        BY <2>2, RootsAre
      <4> QED
        BY <4>1, <4>2
    <3> QED
      BY <1>1, <1>5, <2>2, <3>1 DEF OwnersInv
  <2> QED
    BY <2>1, <2>2
<1>7. Trees(allocated', Roots', next', prev', child', valuestring', string', own)
  BY <1>1, <1>2, <1>5
<1> QED
  BY <1>3, <1>4, <1>6, <1>7 DEF HeapInv

LEMMA RefuseKeeps ==
  ASSUME HeapInv, Refuse
  PROVE  HeapInv'
BY SameKeeps DEF Refuse, globals, HeapInv, PlainInv

LEMMA RejectTextKeeps ==
  ASSUME HeapInv, NEW text \in Texts, RejectText(text)
  PROVE  HeapInv'
BY SameKeeps DEF RejectText, HeapInv, PlainInv

LEMMA ParseNullKeeps ==
  ASSUME HeapInv, ParseNull
  PROVE  HeapInv'
BY SameKeeps DEF ParseNull, HeapInv, PlainInv

LEMMA InitHooksKeeps ==
  ASSUME HeapInv, NEW malloc \in Allocators, NEW free \in Allocators, InitHooks(malloc, free)
  PROVE  HeapInv'
BY SameKeeps DEF InitHooks, Idle, HeapInv, PlainInv

\* A call begins, at the top or for a child: a frame that owns nothing yet.
LEMMA FrameFacts ==
  ASSUME NEW doc
  PROVE  /\ Frame(doc) \in Frames({doc})
         /\ Frame(doc).doc = doc /\ Frame(doc).ptr = Null /\ Frame(doc).step = "struct"
         /\ Frame(doc).tail = Null
BY DEF Frame, Frames, Steps, Pointer

LEMMA FramesWiden ==
  ASSUME NEW D, NEW E, D \subseteq E
  PROVE  Frames(D) \subseteq Frames(E)
BY DEF Frames

\* The roots, and with them the trees, are the same.
LEMMA BeginKeeps ==
  ASSUME HeapInv, UNCHANGED <<heap, held>>, hooks' = hooks,
         {errorPtr', lastText'} \subseteq Texts \cup {Null},
         NEW doc, \/ calls = <<>> /\ calls' = <<Frame(doc)>>
                  \/ /\ calls # <<>> /\ calls' = Append(calls, Frame(doc))
                     /\ calls[Len(calls)].step = "kids" /\ target' = target,
         HooksMatch,
         calls = <<>> => \/ target' = Null /\ ~doc.key
                         \/ target' \in HeldStructs
  PROVE  HeapInv'
<1> USE NullIsNoBlock
<1>1. /\ used' = used /\ allocated' = allocated /\ from' = from /\ held' = held /\ astray' = astray
      /\ next' = next /\ prev' = prev /\ child' = child /\ valuestring' = valuestring /\ string' = string
  BY DEF heap, blocks, fields
<1>2. PICK documents : calls \in Seq(Frames(documents))
  BY DEF HeapInv, PlainInv
<1> DEFINE f == Frame(doc)
           E == documents \cup {doc}
           last == Len(calls) + 1
           S == Frames(E)
<1>3. /\ f \in S /\ f.doc = doc /\ f.ptr = Null /\ f.step = "struct" /\ f.tail = Null
  <2>1. {doc} \subseteq E
    OBVIOUS
  <2>2. Frames({doc}) \subseteq Frames(E)
    BY <2>1, FramesWiden
  <2> QED
    BY <2>2, FrameFacts
<1>4. calls \in Seq(S)
  BY <1>2, FramesWiden, SeqWiden
<1> HIDE DEF f, S
<1>5. /\ calls' \in Seq(S) /\ calls' # <<>> /\ Len(calls) \in Nat
      /\ Len(calls') = last /\ DOMAIN calls' = DOMAIN calls \cup {last}
      /\ last \notin DOMAIN calls /\ DOMAIN calls = 1 .. Len(calls)
      /\ calls'[last] = f
      /\ \A i \in DOMAIN calls : calls'[i] = calls[i]
  <2>1. CASE calls = <<>>
    <3>1. calls' = <<f>>
      BY <2>1 DEF f
    <3>2. /\ <<f>> \in Seq(S) /\ Len(<<f>>) = 1 /\ DOMAIN <<f>> = {1} /\ <<f>>[1] = f /\ <<f>> # <<>>
      BY <1>3
    <3>3. Len(calls) = 0 /\ DOMAIN calls = {} /\ {} = 1 .. 0
      BY <2>1
    <3> QED
      BY <3>1, <3>2, <3>3
  <2>2. CASE calls # <<>>
    <3>1. calls' = Append(calls, f)
      BY <2>2 DEF f
    <3> QED
      BY <1>3, <1>4, <3>1, PushFacts DEF last
  <2> QED
    BY <2>1, <2>2
<1>6. PlainInv'
  BY <1>1, <1>5 DEF HeapInv, PlainInv, HooksMatch, S
<1> HIDE DEF last
<1>7. CallsInv'
  <2>1. \A i \in DOMAIN calls : calls[i].step = "kids" \/ i # Len(calls)
    BY <1>5 DEF last
  <2>2. \A i \in DOMAIN calls : calls[i].step = "kids"
    BY <2>1 DEF HeapInv, CallsInv, FrameInv
  <2> QED
    BY <1>1, <1>3, <1>5, <2>2 DEF HeapInv, CallsInv, FrameInv
<1>8. \A b : b \in Roots' <=> b \in Roots
  <2>1. \A b : b \in Roots' <=> b \in held \/ (b # Null /\ \E i \in DOMAIN calls' : calls'[i].ptr = b)
    BY <1>1 DEF Roots
  <2> QED
    BY <1>3, <1>5, <2>1, RootsAre
<1>9. PICK own : Trees(allocated, Roots, next, prev, child, valuestring, string, own) /\ OwnersInv(own)
  BY DEF HeapInv
<1>10. KeysInv'
  <2>1. CASE calls = <<>>
    <3>1. calls'[1] = f /\ calls' # <<>>
      BY <1>5, <2>1 DEF last
    <3>2. target' # Null \/ ~doc.key
      BY <1>9, <2>1, HeldFacts, HeapFacts
    <3> QED
      BY <1>1, <1>3, <3>1, <3>2 DEF HeapInv, KeysInv
  <2>2. CASE calls # <<>>
    <3>1. 1 \in DOMAIN calls
      BY <1>5, <2>2
    <3> QED
      BY <1>1, <1>5, <2>2, <3>1 DEF HeapInv, KeysInv
  <2> QED
    BY <2>1, <2>2
<1>11. OwnersInv(own)'
  <2>1. \A i \in DOMAIN calls' : calls'[i].tail # Null => own[calls'[i].tail] = calls'[i].ptr
    BY <1>3, <1>5, <1>9 DEF OwnersInv
  <2>2. target' # Null => target' \in allocated' /\ own[target'] \in held'
    <3>1. CASE target' = target \/ target' = Null
      BY <1>1, <1>9, <3>1 DEF OwnersInv
    <3>2. CASE target' \in HeldStructs
      BY <1>1, <1>9, <3>2, HeldFacts
    <3> QED
      BY <1>1, <3>1, <3>2
  <2>3. \A b \in allocated' : own[b] \in held' \/ from'[b] = hooks'.free
    BY <1>1, <1>9 DEF OwnersInv
  <2> QED
    BY <2>1, <2>2, <2>3 DEF OwnersInv
<1>12. Roots' = Roots
  BY <1>8
<1> QED
  BY <1>1, <1>6, <1>7, <1>9, <1>10, <1>11, <1>12 DEF HeapInv

LEMMA NextKidKeeps ==
  ASSUME HeapInv, NextKid
  PROVE  HeapInv'
<1> DEFINE doc == Top.doc.kids[Top.done + 1]
<1>1. PICK documents : calls \in Seq(Frames(documents))
  BY DEF HeapInv, PlainInv
<1>2. Top = calls[Len(calls)]
  BY <1>1, TopFacts DEF NextKid
<1>3. /\ calls # <<>> /\ Top.step = "kids" /\ calls' = Append(calls, Frame(doc)) /\ target' = target
      /\ UNCHANGED <<heap, held>> /\ hooks' = hooks
      /\ errorPtr' = errorPtr /\ lastText' = lastText
  BY DEF NextKid, Idle, globals
<1> HIDE DEF doc
<1>4. {errorPtr', lastText'} \subseteq Texts \cup {Null} /\ HooksMatch
  BY <1>3 DEF HeapInv, PlainInv
<1> QED
  BY <1>2, <1>3, <1>4, BeginKeeps

LEMMA StartBuildKeeps ==
  ASSUME HeapInv, NEW doc, NEW parent, HooksMatch, StartBuild(doc, parent),
         hooks' = hooks, {errorPtr', lastText'} \subseteq Texts \cup {Null},
         \/ parent = Null /\ ~doc.key
         \/ parent \in HeldStructs
  PROVE  HeapInv'
<1>1. /\ calls = <<>> /\ calls' = <<Frame(doc)>> /\ target' = parent /\ UNCHANGED <<heap, held>>
  BY DEF StartBuild, Idle
<1> QED
  BY <1>1, BeginKeeps

LEMMA CreateItemKeeps ==
  ASSUME HeapInv, NEW doc, HooksMatch, CreateItem(doc)
  PROVE  HeapInv'
BY StartBuildKeeps DEF CreateItem, globals, HeapInv, PlainInv

LEMMA AddNewToObjectKeeps ==
  ASSUME HeapInv, NEW object \in HeldStructs, NEW doc, HooksMatch,
         AddNewToObject(object, doc)
  PROVE  HeapInv'
BY StartBuildKeeps DEF AddNewToObject, globals, HeapInv, PlainInv

LEMMA ParseTextKeeps ==
  ASSUME HeapInv, NEW text \in Texts, NEW doc, HooksMatch, ParseText(text, doc)
  PROVE  HeapInv'
BY StartBuildKeeps DEF ParseText, HeapInv, PlainInv

-----------------------------------------------------------------------------
(* The requests that are granted. *)

\* A string of m: one more block, hung in a pointer that was null.
LEMMA LeafSafe ==
  ASSUME NEW A, NEW R, NEW nx, NEW pv, NEW ch, NEW vs, NEW st, NEW own,
         Trees(A, R, nx, pv, ch, vs, st, own),
         NEW m \in A, NEW id \in Blocks \ A,
         NEW vs2 \in [Blocks -> Pointer], NEW st2 \in [Blocks -> Pointer],
         \A b \in Blocks \ {m} : vs2[b] = vs[b] /\ st2[b] = st[b],
         \/ vs[m] = Null /\ vs2[m] = id /\ st2[m] = st[m]
         \/ st[m] = Null /\ st2[m] = id /\ vs2[m] = vs[m],
         NEW own2, own2 \in [A \cup {id} -> R], own2[id] = own[m],
         \A b \in A : own2[b] = own[b]
  PROVE  Trees(A \cup {id}, R, nx, pv, ch, vs2, st2, own2)
<1> DEFINE A2 == A \cup {id}
           R2 == R \cup {id}
<1>1. PICK own1 : own1 = [b \in A2 |-> IF b = id THEN id ELSE own[b]]
  OBVIOUS
<1>2. /\ own \in [A -> R] /\ R \subseteq A /\ A \subseteq Blocks
      /\ nx \in [Blocks -> Pointer] /\ pv \in [Blocks -> Pointer] /\ ch \in [Blocks -> Pointer]
  BY DEF Trees, Parted, Typed
<1>3. own1 \in [A2 -> R2] /\ own1[id] = id /\ (\A b \in A : own1[b] = own[b]) /\ own1[m] # id
  BY <1>1, <1>2
<1>4. Trees(A2, R2, nx, pv, ch, vs, st, own1)
  BY <1>3, GrowSafe
<1>5. R2 \ {id} = R
  BY <1>2
<1>6. /\ own2 \in [A2 -> R2 \ {id}] /\ m \in A2 /\ id \in R2
      /\ \A b \in A2 : (own2[b] = own1[b] /\ own1[b] # id) \/ (own2[b] = own1[m] /\ own1[b] = id)
  BY <1>2, <1>3, <1>5
<1> HIDE DEF A2, R2
<1>8. \A r \in R : r # id
  BY <1>2
<1>9. Hung(A2, R2, nx, pv, ch, vs, st, own1, m, id, nx, pv, ch, vs2, st2, own2)
  BY <1>2, <1>3, <1>6 DEF Hung
<1>7. Trees(A2, R2 \ {id}, nx, pv, ch, vs2, st2, own2)
  BY <1>4, <1>9, HangSafe
<1> QED
  BY <1>5, <1>7 DEF A2

LEMMA MallocFacts ==
  ASSUME HeapInv, Malloc
  PROVE  /\ used \in Blocks \ allocated /\ used # Null /\ used \notin held
         /\ allocated' = allocated \cup {used}
         /\ used' \in 0 .. MaxBlocks /\ allocated' \subseteq 0 .. used' - 1
         /\ from' \in [Blocks -> Allocators \cup {Null}] /\ astray' = {}
         /\ from'[used] = hooks.malloc /\ \A b \in allocated : from'[b] = from[b]
<1>1. /\ used \in 0 .. MaxBlocks /\ allocated \subseteq 0 .. used - 1 /\ held \subseteq allocated
      /\ hooks.malloc \in Allocators /\ from \in [Blocks -> Allocators \cup {Null}] /\ astray = {}
  BY DEF HeapInv, PlainInv
<1>2. used < MaxBlocks /\ used' = used + 1 /\ allocated' = allocated \cup {used}
      /\ from' = [from EXCEPT ![used] = hooks.malloc] /\ astray' = astray
  BY DEF Malloc
<1>3. used \in Blocks \ allocated /\ used # Null /\ used \notin held /\ allocated \subseteq Blocks
  BY <1>1, <1>2, HeapFacts
<1>4. used' \in 0 .. MaxBlocks /\ allocated' \subseteq 0 .. used' - 1
  BY <1>1, <1>2, MaxBlocksAssumption
<1>5. /\ from' \in [Blocks -> Allocators \cup {Null}] /\ astray' = {}
      /\ from'[used] = hooks.malloc /\ \A b \in allocated : from'[b] = from[b]
  BY <1>1, <1>2, <1>3
<1> QED
  BY <1>2, <1>3, <1>4, <1>5

LEMMA StepAfterFacts ==
  ASSUME NEW doc, NEW step \in Steps
  PROVE  /\ StepAfter(doc, step) \in Steps \ {"struct"}
         /\ StepAfter(doc, step) = "string" => doc.key
         /\ StepAfter(doc, step) = "value" => step = "struct"
BY DEF StepAfter, Steps

LEMMA SetTopFacts ==
  ASSUME NEW S, calls \in Seq(S), calls # <<>>, NEW g \in S, calls' = WithTop(g)
  PROVE  /\ calls' \in Seq(S) /\ calls' # <<>> /\ Len(calls') = Len(calls)
         /\ DOMAIN calls' = DOMAIN calls
         /\ calls'[Len(calls)] = g
         /\ \A i \in DOMAIN calls : i # Len(calls) => calls'[i] = calls[i]
<1> DEFINE t == Append(Front(calls), g)
<1>1. /\ t \in Seq(S) /\ t # <<>> /\ Len(t) = Len(calls) /\ DOMAIN t = DOMAIN calls
      /\ t[Len(calls)] = g /\ \A i \in DOMAIN calls : i # Len(calls) => t[i] = calls[i]
  BY SetLastFacts
<1>2. calls' = t
  BY DEF WithTop
<1> HIDE DEF t
<1> QED
  BY <1>1, <1>2

LEMMA AllocStructKeeps ==
  ASSUME HeapInv, AllocStruct
  PROVE  HeapInv'
<1> USE NullIsNoBlock
<1> DEFINE n == Len(calls)
           g == [Top EXCEPT !.ptr = used, !.step = StepAfter(Top.doc, "struct")]
<1>1. PICK documents : calls \in Seq(Frames(documents))
  BY DEF HeapInv, PlainInv
<1> DEFINE S == Frames(documents)
<1>2. /\ n \in DOMAIN calls /\ n \in Nat \ {0} /\ DOMAIN calls = 1 .. n /\ calls \in Seq(S)
      /\ Top = calls[n] /\ Top \in S /\ calls # <<>> /\ Top.step = "struct"
      /\ \A i \in DOMAIN calls : calls[i] \in S
  BY <1>1, TopFacts DEF AllocStruct, Idle
<1>3. /\ Malloc /\ calls' = WithTop(g)
      /\ held' = held /\ target' = target
      /\ hooks' = hooks /\ errorPtr' = errorPtr /\ lastText' = lastText
      /\ next' = next /\ prev' = prev /\ child' = child /\ valuestring' = valuestring /\ string' = string
  BY DEF AllocStruct, fields, globals
<1>4. /\ used \in Blocks \ allocated /\ used # Null /\ used \notin held
      /\ allocated' = allocated \cup {used}
      /\ used' \in 0 .. MaxBlocks /\ allocated' \subseteq 0 .. used' - 1
      /\ from' \in [Blocks -> Allocators \cup {Null}] /\ astray' = {}
      /\ from'[used] = hooks.malloc /\ \A b \in allocated : from'[b] = from[b]
  BY <1>3, MallocFacts
<1>5. /\ StepAfter(Top.doc, "struct") \in Steps \ {"struct"}
      /\ StepAfter(Top.doc, "struct") = "string" => Top.doc.key
  BY StepAfterFacts DEF Steps
<1>6. /\ g \in S /\ g.ptr = used /\ g.doc = Top.doc /\ g.tail = Top.tail
      /\ g.step \in Steps \ {"struct"} /\ (g.step = "string" => Top.doc.key)
  BY <1>2, <1>4, <1>5 DEF Frames, Pointer
<1> HIDE DEF g, S
<1>7. /\ calls' \in Seq(S) /\ calls' # <<>> /\ Len(calls') = n /\ DOMAIN calls' = DOMAIN calls
      /\ calls'[n] = g /\ \A i \in DOMAIN calls : i # n => calls'[i] = calls[i]
  BY <1>2, <1>3, <1>6, SetTopFacts DEF S
<1>8. PlainInv'
  <2>1. /\ held' \subseteq allocated' /\ {errorPtr', lastText'} \subseteq Texts \cup {Null}
        /\ hooks \in [malloc : Allocators, free : Allocators] /\ HooksMatch
    BY <1>2, <1>3, <1>4 DEF HeapInv, PlainInv
  <2> QED
    BY <1>3, <1>4, <1>7, <2>1 DEF PlainInv, HooksMatch, S
<1>9. PICK own : Trees(allocated, Roots, next, prev, child, valuestring, string, own) /\ OwnersInv(own)
  BY DEF HeapInv
<1>10. /\ allocated \subseteq Blocks /\ Roots \subseteq allocated /\ own \in [allocated -> Roots]
       /\ child[used] = Null /\ valuestring[used] = Null /\ string[used] = Null
  BY <1>4, <1>9, LinkTypes
<1>11. calls[n].ptr = Null /\ calls[n].tail = Null
  BY <1>2 DEF HeapInv, CallsInv, FrameInv
<1>12. CallsInv'
  <2>1. \A i \in DOMAIN calls : calls[i].ptr # Null => calls[i].ptr \in allocated \ held /\ calls[i].ptr # used
    BY <1>4 DEF HeapInv, CallsInv, FrameInv
  <2>2. ASSUME NEW i \in DOMAIN calls, i # n PROVE FrameInv(i)'
    BY <1>3, <1>4, <1>7, <2>2 DEF HeapInv, CallsInv, FrameInv
  <2>3. FrameInv(n)'
    BY <1>2, <1>3, <1>4, <1>6, <1>7, <1>10, <1>11 DEF FrameInv
  <2>4. \A i \in DOMAIN calls' : FrameInv(i)'
    BY <1>7, <2>2, <2>3
  <2>5. \A i, j \in DOMAIN calls' : calls'[i].ptr = calls'[j].ptr /\ calls'[i].ptr # Null => i = j
    BY <1>6, <1>7, <2>1 DEF HeapInv, CallsInv, FrameInv
  <2> QED
    BY <2>4, <2>5 DEF CallsInv
<1>13. KeysInv'
  <2>1. CASE n = 1
    BY <1>2, <1>3, <1>6, <1>7, <1>10, <2>1 DEF HeapInv, KeysInv
  <2>2. CASE n # 1
    <3>1. calls'[1] = calls[1]
      BY <1>2, <1>7, <2>2
    <3> QED
      BY <1>2, <1>3, <1>7, <3>1 DEF HeapInv, KeysInv
  <2> QED
    BY <2>1, <2>2
<1>14. Roots' = Roots \cup {used}
  <2>1. \A b : b \in Roots' <=> b \in held \/ (b # Null /\ \E i \in DOMAIN calls' : calls'[i].ptr = b)
    BY <1>3 DEF Roots
  <2>2. \A b : b \in Roots' <=> b \in Roots \cup {used}
    <3>1. \A b : (\E i \in DOMAIN calls' : calls'[i].ptr = b)
                  <=> b = used \/ \E i \in DOMAIN calls : i # n /\ calls[i].ptr = b
      BY <1>2, <1>6, <1>7
    <3> QED
      BY <1>4, <1>11, <2>1, <3>1, RootsAre
  <2> QED
    BY <2>2
<1>15. PICK own2 : own2 = [b \in allocated \cup {used} |-> IF b = used THEN used ELSE own[b]]
  OBVIOUS
<1>16. /\ own2 \in [allocated \cup {used} -> Roots \cup {used}] /\ own2[used] = used
       /\ \A b \in allocated : own2[b] = own[b]
  BY <1>4, <1>10, <1>15
<1>17. Trees(allocated \cup {used}, Roots \cup {used}, next, prev, child, valuestring, string, own2)
  BY <1>4, <1>9, <1>16, GrowSafe
<1>18. OwnersInv(own2)'
  <2>1. \A i \in DOMAIN calls : calls[i].tail # Null => calls[i].tail \in allocated
    BY DEF HeapInv, CallsInv, FrameInv
  <2>2. /\ \A i \in DOMAIN calls : calls[i].tail # Null => own[calls[i].tail] = calls[i].ptr
        /\ target # Null => target \in allocated /\ own[target] \in held
    BY <1>9 DEF OwnersInv
  <2>3. \A i \in DOMAIN calls' : calls'[i].tail # Null => own2[calls'[i].tail] = calls'[i].ptr
    BY <1>2, <1>6, <1>7, <1>11, <1>16, <2>1, <2>2
  <2>4. target' # Null => target' \in allocated' /\ own2[target'] \in held'
    BY <1>3, <1>4, <1>16, <2>2
  <2>5. HooksMatch /\ \A b \in allocated : own[b] \in held \/ from[b] = hooks.free
    BY <1>2, <1>9 DEF HeapInv, PlainInv, OwnersInv
  <2>6. \A b \in allocated' : own2[b] \in held' \/ from'[b] = hooks'.free
    BY <1>3, <1>4, <1>16, <2>5 DEF HooksMatch
  <2> QED
    BY <2>3, <2>4, <2>6 DEF OwnersInv
<1> QED
  BY <1>3, <1>4, <1>8, <1>12, <1>13, <1>14, <1>17, <1>18 DEF HeapInv

\* A string for the value or for the key of the struct on top.
LEMMA LeafKeeps ==
  ASSUME HeapInv, ~Idle, Malloc,
         UNCHANGED <<next, prev, child, held, target, globals>>,
         NEW step \in {"string", "kids"}, calls' = WithTop([Top EXCEPT !.step = step]),
         \/ /\ Top.step = "value" /\ (step = "string" => Top.doc.key)
            /\ valuestring' = [valuestring EXCEPT ![Top.ptr] = used] /\ string' = string
         \/ /\ Top.step = "string" /\ step = "kids"
            /\ string' = [string EXCEPT ![Top.ptr] = used] /\ valuestring' = valuestring
  PROVE  HeapInv'
<1> USE NullIsNoBlock
<1> DEFINE n == Len(calls)
           g == [Top EXCEPT !.step = step]
           p == Top.ptr
<1>1. PICK documents : calls \in Seq(Frames(documents))
  BY DEF HeapInv, PlainInv
<1> DEFINE S == Frames(documents)
<1>2. /\ n \in DOMAIN calls /\ n \in Nat \ {0} /\ DOMAIN calls = 1 .. n /\ calls \in Seq(S)
      /\ Top = calls[n] /\ Top \in S /\ calls # <<>>
      /\ \A i \in DOMAIN calls : calls[i] \in S
  BY <1>1, TopFacts DEF Idle
<1>3. /\ calls' = WithTop(g)
      /\ held' = held /\ target' = target
      /\ hooks' = hooks /\ errorPtr' = errorPtr /\ lastText' = lastText
      /\ next' = next /\ prev' = prev /\ child' = child
  BY DEF globals
<1>4. /\ used \in Blocks \ allocated /\ used # Null /\ used \notin held
      /\ allocated' = allocated \cup {used}
      /\ used' \in 0 .. MaxBlocks /\ allocated' \subseteq 0 .. used' - 1
      /\ from' \in [Blocks -> Allocators \cup {Null}] /\ astray' = {}
      /\ from'[used] = hooks.malloc /\ \A b \in allocated : from'[b] = from[b]
  BY MallocFacts
<1>5. step \in Steps
  BY DEF Steps
<1>6. g \in S /\ g.ptr = Top.ptr /\ g.doc = Top.doc /\ g.tail = Top.tail /\ g.step = step
  BY <1>2, <1>5 DEF Frames
<1> HIDE DEF g, S
<1>7. /\ calls' \in Seq(S) /\ calls' # <<>> /\ Len(calls') = n /\ DOMAIN calls' = DOMAIN calls
      /\ calls'[n] = g /\ \A i \in DOMAIN calls : i # n => calls'[i] = calls[i]
  BY <1>2, <1>3, <1>6, SetTopFacts
<1>8. PlainInv'
  <2>1. /\ held' \subseteq allocated' /\ {errorPtr', lastText'} \subseteq Texts \cup {Null}
        /\ hooks \in [malloc : Allocators, free : Allocators] /\ HooksMatch
    BY <1>2, <1>3, <1>4 DEF HeapInv, PlainInv
  <2> QED
    BY <1>3, <1>4, <1>7, <2>1 DEF PlainInv, HooksMatch, S
<1>9. PICK own : Trees(allocated, Roots, next, prev, child, valuestring, string, own) /\ OwnersInv(own)
  BY DEF HeapInv
<1>10. /\ allocated \subseteq Blocks /\ Roots \subseteq allocated /\ own \in [allocated -> Roots]
       /\ valuestring \in [Blocks -> Pointer] /\ string \in [Blocks -> Pointer]
  BY <1>9, LinkTypes
<1>11. /\ p \in allocated \ held /\ p # Null /\ FrameInv(n)
       /\ Top.step = "value" => valuestring[p] = Null /\ string[p] = Null
       /\ Top.step = "string" => string[p] = Null /\ calls[n].doc.key
  BY <1>2 DEF HeapInv, CallsInv, FrameInv
<1>12. /\ valuestring' \in [Blocks -> Pointer] /\ string' \in [Blocks -> Pointer]
       /\ \A b \in Blocks \ {p} : valuestring'[b] = valuestring[b] /\ string'[b] = string[b]
       /\ \/ valuestring[p] = Null /\ valuestring'[p] = used /\ string'[p] = string[p]
          \/ string[p] = Null /\ string'[p] = used /\ valuestring'[p] = valuestring[p]
       /\ step = "string" => string'[p] = Null /\ calls[n].doc.key
       /\ string'[p] # string[p] => calls[n].doc.key
  <2> DEFINE vs2 == valuestring'
             st2 == string'
  <2>1. used \in Pointer /\ p \in Blocks
    BY <1>4, <1>10, <1>11 DEF Pointer
  <2>2. CASE /\ Top.step = "value" /\ (step = "string" => Top.doc.key)
             /\ vs2 = [valuestring EXCEPT ![p] = used] /\ st2 = string
    BY <1>2, <1>10, <1>11, <2>1, <2>2
  <2>3. CASE /\ Top.step = "string" /\ step = "kids"
             /\ st2 = [string EXCEPT ![p] = used] /\ vs2 = valuestring
    BY <1>2, <1>10, <1>11, <2>1, <2>3
  <2> QED
    BY <2>2, <2>3
<1>13. \A i \in DOMAIN calls : i # n /\ calls[i].ptr # Null => calls[i].ptr # p /\ calls[i].ptr \in Blocks \ {p}
  BY <1>2, <1>10 DEF HeapInv, CallsInv, FrameInv
<1>14. CallsInv'
  <2>1. ASSUME NEW i \in DOMAIN calls, i # n PROVE FrameInv(i)'
    <3>1. FrameInv(i)
      BY DEF HeapInv, CallsInv
    <3>2. calls'[i] = calls[i] /\ calls[i].step = "kids" /\ Len(calls') = n
      BY <1>7, <2>1, <3>1 DEF FrameInv
    <3> QED
      BY <1>3, <1>4, <3>1, <3>2 DEF FrameInv
  <2>2. FrameInv(n)'
    <3>1. /\ used \in Blocks \ allocated /\ used # Null /\ used \notin held
          /\ allocated' = allocated \cup {used}
      BY <1>4
    <3> QED
      BY <1>2, <1>3, <1>6, <1>7, <1>11, <1>12, <3>1 DEF FrameInv
  <2>3. \A i \in DOMAIN calls' : FrameInv(i)'
    BY <1>7, <2>1, <2>2
  <2>4. \A i \in DOMAIN calls : calls'[i].ptr = calls[i].ptr
    BY <1>2, <1>6, <1>7
  <2> QED
    <3>1. \A i, j \in DOMAIN calls : calls[i].ptr = calls[j].ptr /\ calls[i].ptr # Null => i = j
      BY DEF HeapInv, CallsInv
    <3>2. \A i, j \in DOMAIN calls' : calls'[i].ptr = calls'[j].ptr /\ calls'[i].ptr # Null => i = j
      BY <1>7, <2>4, <3>1
    <3> QED
      BY <2>3, <3>2 DEF CallsInv
<1>15. KeysInv'
  <2>1. \A h \in held : string'[h] = Null
    BY <1>10, <1>11, <1>12, HeapFacts DEF HeapInv, KeysInv
  <2>2. ASSUME target = Null
        PROVE  ~calls'[1].doc.key /\ (calls'[1].ptr # Null => string'[calls'[1].ptr] = Null)
    <3>1. 1 \in DOMAIN calls /\ ~calls[1].doc.key /\ (calls[1].ptr # Null => string[calls[1].ptr] = Null)
      BY <1>2, <2>2 DEF HeapInv, KeysInv
    <3>2. CASE n = 1
      BY <1>2, <1>6, <1>7, <1>12, <3>1, <3>2
    <3>3. CASE n # 1
      BY <1>7, <1>12, <1>13, <3>1, <3>3
    <3> QED
      BY <3>2, <3>3
  <2> QED
    BY <1>3, <1>7, <2>1, <2>2 DEF KeysInv
<1>16. Roots' = Roots
  <2>1. \A b : b \in Roots' <=> b \in held \/ (b # Null /\ \E i \in DOMAIN calls' : calls'[i].ptr = b)
    BY <1>3 DEF Roots
  <2>2. \A i \in DOMAIN calls : calls'[i].ptr = calls[i].ptr
    BY <1>2, <1>6, <1>7
  <2>3. \A b : b \in Roots' <=> b \in Roots
    BY <1>7, <2>1, <2>2, RootsAre
  <2> QED
    BY <2>3
<1>17. PICK own2 : own2 = [b \in allocated \cup {used} |-> IF b = used THEN own[p] ELSE own[b]]
  OBVIOUS
<1>18. /\ own2 \in [allocated \cup {used} -> Roots] /\ own2[used] = own[p]
       /\ \A b \in allocated : own2[b] = own[b]
  BY <1>4, <1>10, <1>11, <1>17
<1>19. Trees(allocated', Roots', next', prev', child', valuestring', string', own2)
  <2> DEFINE vs2 == valuestring'
             st2 == string'
  <2>1. /\ Trees(allocated, Roots, next, prev, child, valuestring, string, own)
        /\ p \in allocated /\ used \in Blocks \ allocated
        /\ vs2 \in [Blocks -> Pointer] /\ st2 \in [Blocks -> Pointer]
        /\ \A b \in Blocks \ {p} : vs2[b] = valuestring[b] /\ st2[b] = string[b]
        /\ \/ valuestring[p] = Null /\ vs2[p] = used /\ st2[p] = string[p]
           \/ string[p] = Null /\ st2[p] = used /\ vs2[p] = valuestring[p]
    BY <1>4, <1>9, <1>11, <1>12
  <2> HIDE DEF vs2, st2, p
  <2>2. Trees(allocated \cup {used}, Roots, next, prev, child, vs2, st2, own2)
    BY <1>18, <2>1, LeafSafe
  <2> QED
    BY <1>3, <1>4, <1>16, <2>2 DEF vs2, st2
<1>20. OwnersInv(own2)'
  <2>1. /\ \A i \in DOMAIN calls : calls[i].tail # Null => /\ own[calls[i].tail] = calls[i].ptr
                                                          /\ calls[i].tail \in allocated
        /\ target # Null => target \in allocated /\ own[target] \in held
    BY <1>9 DEF OwnersInv, HeapInv, CallsInv, FrameInv
  <2>2. \A i \in DOMAIN calls : calls'[i].tail = calls[i].tail /\ calls'[i].ptr = calls[i].ptr
    BY <1>2, <1>6, <1>7
  <2>3. \A i \in DOMAIN calls' : calls'[i].tail # Null => own2[calls'[i].tail] = calls'[i].ptr
    BY <1>7, <1>18, <2>1, <2>2
  <2>4. target' # Null => target' \in allocated' /\ own2[target'] \in held'
    BY <1>3, <1>4, <1>18, <2>1
  <2>5. HooksMatch /\ \A b \in allocated : own[b] \in held \/ from[b] = hooks.free
    BY <1>2, <1>9 DEF HeapInv, PlainInv, OwnersInv
  <2>6. ASSUME NEW b \in allocated' PROVE own2[b] \in held' \/ from'[b] = hooks'.free
    <3>1. CASE b = used
      BY <1>3, <1>4, <2>5, <3>1 DEF HooksMatch
    <3>2. CASE b # used
      <4>1. b \in allocated /\ own2[b] = own[b] /\ from'[b] = from[b]
        BY <1>4, <1>18, <3>2
      <4> QED
        BY <1>3, <2>5, <4>1
    <3> QED
      BY <3>1, <3>2
  <2> QED
    BY <2>3, <2>4, <2>6 DEF OwnersInv
<1> QED
  BY <1>8, <1>14, <1>15, <1>19, <1>20 DEF HeapInv

LEMMA AllocValueKeeps ==
  ASSUME HeapInv, AllocValue
  PROVE  HeapInv'
<1> DEFINE step == StepAfter(Top.doc, "value")
<1>1. step \in {"string", "kids"} /\ (step = "string" => Top.doc.key)
  BY StepAfterFacts DEF Steps
<1>2. /\ ~Idle /\ Malloc /\ Top.step = "value" /\ calls' = WithTop([Top EXCEPT !.step = step])
      /\ valuestring' = [valuestring EXCEPT ![Top.ptr] = used] /\ string' = string
      /\ UNCHANGED <<next, prev, child, held, target, globals>>
  BY DEF AllocValue
<1> HIDE DEF step
<1> QED
  BY <1>1, <1>2, LeafKeeps

LEMMA AllocStringKeeps ==
  ASSUME HeapInv, AllocString
  PROVE  HeapInv'
<1>1. /\ ~Idle /\ Malloc /\ Top.step = "string" /\ calls' = WithTop([Top EXCEPT !.step = "kids"])
      /\ string' = [string EXCEPT ![Top.ptr] = used] /\ valuestring' = valuestring
      /\ UNCHANGED <<next, prev, child, held, target, globals>>
  BY DEF AllocString
<1> QED
  BY <1>1, LeafKeeps

-----------------------------------------------------------------------------
(* The steps that link a finished tree. *)

\* The roots but one: what is left of them when kid is hung below another.
\* The last two elements become one.
LEMMA FoldLastFacts ==
  ASSUME NEW S, NEW s \in Seq(S), NEW n, n = Len(s), n > 1
  PROVE  /\ s # <<>> /\ n \in Nat /\ n \in DOMAIN s /\ n - 1 \in DOMAIN s /\ n # n - 1 /\ DOMAIN s = 1 .. n
         /\ 1 \in DOMAIN s /\ 1 # n
         /\ \A i \in DOMAIN s : s[i] \in S
         /\ Last(s) = s[n] /\ Last(Front(s)) = s[n - 1]
         /\ \A w \in S : LET t == Append(Front(Front(s)), w) IN
              /\ t \in Seq(S) /\ t # <<>> /\ Len(t) = n - 1 /\ DOMAIN t = DOMAIN s \ {n}
              /\ t[n - 1] = w /\ \A i \in DOMAIN t : i # n - 1 => t[i] = s[i]
<1>1. s # <<>> /\ n \in Nat
  OBVIOUS
<1>2. /\ n \in DOMAIN s /\ n - 1 \in DOMAIN s /\ n # n - 1 /\ DOMAIN s = 1 .. n
      /\ 1 \in DOMAIN s /\ 1 # n
      /\ \A i \in DOMAIN s : s[i] \in S
  BY <1>1
<1> DEFINE u == Front(s)
<1>3. /\ u \in Seq(S) /\ Len(u) = n - 1 /\ Last(s) = s[n]
      /\ DOMAIN u = DOMAIN s \ {n}
      /\ \A i \in DOMAIN u : u[i] = s[i]
  BY <1>1, PopFacts
<1> HIDE DEF u
<1>4. u # <<>> /\ n - 1 \in DOMAIN u
  BY <1>1, <1>2, <1>3
<1>5. Last(u) = u[Len(u)]
  BY <1>3, <1>4, PopFacts
<1>6. Last(u) = s[n - 1]
  BY <1>3, <1>4, <1>5
<1>7. ASSUME NEW w \in S, NEW t, t = Append(Front(u), w)
      PROVE  /\ t \in Seq(S) /\ t # <<>> /\ Len(t) = n - 1 /\ DOMAIN t = DOMAIN s \ {n}
             /\ t[n - 1] = w /\ \A i \in DOMAIN t : i # n - 1 => t[i] = s[i]
  <2>1. /\ t \in Seq(S) /\ t # <<>> /\ Len(t) = Len(u) /\ DOMAIN t = DOMAIN u
        /\ t[Len(u)] = w /\ \A i \in DOMAIN u : i # Len(u) => t[i] = u[i]
    <3>1. u \in Seq(S) /\ u # <<>> /\ w \in S
      BY <1>3, <1>4
    <3> QED
      BY <1>7, <3>1, SetLastFacts
  <2> QED
    BY <1>3, <2>1
<1>8. \A w \in S : LET t == Append(Front(u), w) IN
        /\ t \in Seq(S) /\ t # <<>> /\ Len(t) = n - 1 /\ DOMAIN t = DOMAIN s \ {n}
        /\ t[n - 1] = w /\ \A i \in DOMAIN t : i # n - 1 => t[i] = s[i]
  BY <1>7
<1> QED
  BY <1>1, <1>2, <1>3, <1>6, <1>8 DEF u

LEMMA FinishKidKeeps ==
  ASSUME HeapInv, FinishKid
  PROVE  HeapInv'
<1> USE NullIsNoBlock
<1>0. PICK n, above, kid, p, g :
        /\ n = Len(calls) /\ above = Last(Front(calls)) /\ kid = Top.ptr /\ p = above.ptr
        /\ g = [above EXCEPT !.done = @ + 1, !.tail = kid]
  OBVIOUS
<1>1. PICK documents : calls \in Seq(Frames(documents))
  BY DEF HeapInv, PlainInv
<1>2. PICK S : S = Frames(documents)
  OBVIOUS
<1>3. /\ LinkKid(above, kid) /\ calls' = Append(Front(Front(calls)), g)
      /\ held' = held /\ target' = target /\ valuestring' = valuestring /\ string' = string
      /\ used' = used /\ allocated' = allocated /\ from' = from /\ astray' = astray
      /\ hooks' = hooks /\ errorPtr' = errorPtr /\ lastText' = lastText
      /\ n > 1 /\ Top.step = "kids"
  BY <1>0 DEF FinishKid, globals, blocks, Finished
<1>4. /\ calls # <<>> /\ n \in Nat /\ n \in DOMAIN calls /\ n - 1 \in DOMAIN calls /\ n # n - 1
      /\ 1 \in DOMAIN calls /\ 1 # n
      /\ \A i \in DOMAIN calls : calls[i] \in S
      /\ Top = calls[n] /\ above = calls[n - 1]
      /\ \A w \in S : LET t == Append(Front(Front(calls)), w) IN
           /\ t \in Seq(S) /\ t # <<>> /\ Len(t) = n - 1 /\ DOMAIN t = DOMAIN calls \ {n}
           /\ t[n - 1] = w /\ \A i \in DOMAIN t : i # n - 1 => t[i] = calls[i]
  <2>1. calls \in Seq(S) /\ n = Len(calls) /\ n > 1
    BY <1>0, <1>1, <1>2, <1>3
  <2>2. /\ calls # <<>> /\ n \in Nat /\ n \in DOMAIN calls /\ n - 1 \in DOMAIN calls /\ n # n - 1
        /\ 1 \in DOMAIN calls /\ 1 # n
        /\ \A i \in DOMAIN calls : calls[i] \in S
        /\ Last(calls) = calls[n] /\ Last(Front(calls)) = calls[n - 1]
        /\ \A w \in S : LET t == Append(Front(Front(calls)), w) IN
             /\ t \in Seq(S) /\ t # <<>> /\ Len(t) = n - 1 /\ DOMAIN t = DOMAIN calls \ {n}
             /\ t[n - 1] = w /\ \A i \in DOMAIN t : i # n - 1 => t[i] = calls[i]
    BY <2>1, FoldLastFacts
  <2> QED
    BY <1>0, <2>2 DEF Top
<1>5. g \in S /\ g.ptr = p /\ g.doc = above.doc /\ g.tail = kid /\ g.step = above.step
  <2>1. above \in S /\ calls[n] \in S /\ kid = calls[n].ptr
    BY <1>0, <1>4
  <2>2. kid \in Pointer /\ above \in Frames(documents) /\ above.done + 1 \in Nat
    BY <1>2, <2>1 DEF Frames
  <2>3. /\ g \in Frames(documents) /\ g.ptr = above.ptr /\ g.doc = above.doc
        /\ g.tail = kid /\ g.step = above.step
    <3>1. g = [above EXCEPT !.done = above.done + 1, !.tail = kid]
      BY <1>0
    <3> QED
      BY <2>2, <3>1 DEF Frames
  <2> QED
    BY <1>0, <1>2, <2>3
<1>6. /\ calls' \in Seq(S) /\ calls' # <<>> /\ Len(calls') = n - 1 /\ DOMAIN calls' = DOMAIN calls \ {n}
      /\ calls'[n - 1] = g /\ \A i \in DOMAIN calls' : i # n - 1 => calls'[i] = calls[i]
  BY <1>3, <1>4, <1>5
<1>7. PlainInv'
  BY <1>2, <1>3, <1>4, <1>6 DEF HeapInv, PlainInv, HooksMatch
<1>8. PICK own : Trees(allocated, Roots, next, prev, child, valuestring, string, own) /\ OwnersInv(own)
  BY DEF HeapInv
<1>9. /\ FrameInv(n) /\ FrameInv(n - 1)
      /\ \A i, j \in DOMAIN calls : calls[i].ptr = calls[j].ptr /\ calls[i].ptr # Null => i = j
  BY <1>4 DEF HeapInv, CallsInv
<1>10. /\ kid \in allocated \ held /\ kid # Null /\ p \in allocated \ held /\ p # Null /\ p # kid
       /\ above.step = "kids" /\ kid \in Roots /\ p \in Roots
  <2>1. above.step = "kids"
    BY <1>0, <1>4, <1>9 DEF FrameInv
  <2>2. kid # Null /\ p # Null /\ kid \in allocated \ held /\ p \in allocated \ held
    BY <1>0, <1>3, <1>4, <1>9, <2>1 DEF FrameInv
  <2>3. p # kid
    BY <1>0, <1>4, <1>9, <2>2
  <2> QED
    BY <1>0, <1>4, <2>1, <2>2, <2>3, RootsAre
<1>11. /\ next \in [Blocks -> Pointer] /\ prev \in [Blocks -> Pointer] /\ child \in [Blocks -> Pointer]
       /\ valuestring \in [Blocks -> Pointer] /\ string \in [Blocks -> Pointer]
       /\ allocated \subseteq Blocks /\ Roots \subseteq allocated
       /\ own \in [allocated -> Roots] /\ \A r \in Roots : own[r] = r /\ next[r] = Null /\ prev[r] = Null
  BY <1>8, LinkTypes
\* The block that is made to point at the child: the parent, or the last child.
<1>21. PICK m : m = IF above.tail = Null THEN p ELSE above.tail
  OBVIOUS
<1>12. /\ m \in allocated /\ own[m] = p /\ m # kid
       /\ above.tail = Null => child[p] = Null
       /\ above.tail # Null => next[m] = Null /\ m \notin Roots
  <2>1. CASE above.tail = Null
    BY <1>0, <1>4, <1>9, <1>10, <1>11, <1>21, <2>1 DEF FrameInv
  <2>2. CASE above.tail # Null
    <3>1. above.tail \in allocated /\ above.tail # p /\ next[above.tail] = Null
      BY <1>0, <1>4, <1>9, <2>2 DEF FrameInv
    <3>2. own[above.tail] = p
      BY <1>0, <1>4, <1>8, <2>2 DEF OwnersInv
    <3> QED
      BY <1>10, <1>11, <1>21, <2>2, <3>1, <3>2
  <2> QED
    BY <2>1, <2>2
<1>13. /\ next' \in [Blocks -> Pointer] /\ prev' \in [Blocks -> Pointer] /\ child' \in [Blocks -> Pointer]
       /\ \A b \in Blocks \ {m} : next'[b] = next[b] /\ child'[b] = child[b]
       /\ \A b \in Blocks \ {kid} : prev'[b] = prev[b]
       /\ \/ /\ m \notin Roots /\ next[m] = Null /\ next'[m] = kid /\ prev'[kid] = m /\ child'[m] = child[m]
          \/ next'[m] = next[m] /\ prev'[kid] = prev[kid] /\ child[m] = Null /\ child'[m] = kid
  <2>1. kid \in Blocks /\ p \in Blocks /\ m \in Blocks /\ kid \in Pointer /\ m \in Pointer
    BY <1>10, <1>11, <1>12 DEF Pointer
  <2>2. CASE above.tail = Null
    <3>1. child' = [child EXCEPT ![p] = kid] /\ next' = next /\ prev' = prev
      BY <1>0, <1>3, <2>2 DEF LinkKid
    <3> QED
      BY <1>11, <1>12, <1>21, <2>1, <2>2, <3>1
  <2>3. CASE above.tail # Null
    <3>1. child' = child /\ next' = [next EXCEPT ![m] = kid] /\ prev' = [prev EXCEPT ![kid] = m]
      BY <1>0, <1>3, <1>21, <2>3 DEF LinkKid
    <3> QED
      BY <1>11, <1>12, <2>1, <2>3, <3>1
  <2> QED
    BY <2>2, <2>3
<1>14. PICK own2 : /\ own2 \in [allocated -> Roots \ {kid}]
                   /\ \A b \in allocated : (own2[b] = own[b] /\ own[b] # kid) \/ (own2[b] = p /\ own[b] = kid)
  <2>1. PICK o : o = [b \in allocated |-> IF own[b] = kid THEN p ELSE own[b]]
    OBVIOUS
  <2>2. o \in [allocated -> Roots \ {kid}]
    BY <1>10, <1>11, <2>1
  <2>3. \A b \in allocated : (o[b] = own[b] /\ own[b] # kid) \/ (o[b] = p /\ own[b] = kid)
    BY <2>1
  <2> QED
    BY <2>2, <2>3
<1>15. Trees(allocated, Roots \ {kid}, next', prev', child', valuestring, string, own2)
  <2>1. Hung(allocated, Roots, next, prev, child, valuestring, string, own, m, kid,
             next', prev', child', valuestring, string, own2)
    BY <1>10, <1>11, <1>12, <1>13, <1>14 DEF Hung
  <2> QED
    BY <1>8, <2>1, HangSafe
<1>16. \A i \in DOMAIN calls : i # n /\ i # n - 1 =>
         /\ calls[i].ptr # kid /\ calls[i].ptr # p
         /\ calls[i].tail # Null => /\ calls[i].tail \in allocated /\ own[calls[i].tail] = calls[i].ptr
                                    /\ calls[i].ptr # Null /\ calls[i].tail # m
  <2> SUFFICES ASSUME NEW i \in DOMAIN calls, i # n, i # n - 1
               PROVE  /\ calls[i].ptr # kid /\ calls[i].ptr # p
                      /\ calls[i].tail # Null =>
                           /\ calls[i].tail \in allocated /\ own[calls[i].tail] = calls[i].ptr
                           /\ calls[i].ptr # Null /\ calls[i].tail # m
    OBVIOUS
  <2>1. calls[i].ptr # kid /\ calls[i].ptr # p
    BY <1>0, <1>4, <1>9, <1>10
  <2>2. calls[i].tail # Null => /\ calls[i].tail \in allocated /\ own[calls[i].tail] = calls[i].ptr
                                /\ calls[i].ptr # Null
    BY <1>8 DEF HeapInv, CallsInv, FrameInv, OwnersInv
  <2> QED
    BY <1>12, <2>1, <2>2
\* The call above is the innermost one now; of it, only the last child is new.
<1>22. PICK k : k = n - 1
  OBVIOUS
<1>23. /\ n = Len(calls) /\ k = Len(calls') /\ k # n /\ k \in DOMAIN calls
       /\ DOMAIN calls' = DOMAIN calls \ {n}
       /\ \A i \in DOMAIN calls' : i # k => calls'[i] = calls[i]
       /\ calls'[k].ptr = p /\ calls[k].ptr = p /\ calls'[k].doc = calls[k].doc
       /\ calls'[k].step = "kids" /\ calls'[k].tail = kid
       /\ calls[n].ptr = kid
  BY <1>0, <1>4, <1>5, <1>6, <1>10, <1>22
<1>24. \A i \in DOMAIN calls' : i \in DOMAIN calls /\ calls'[i].ptr = calls[i].ptr /\ calls'[i].doc = calls[i].doc
  <2> SUFFICES ASSUME NEW i \in DOMAIN calls'
               PROVE  i \in DOMAIN calls /\ calls'[i].ptr = calls[i].ptr /\ calls'[i].doc = calls[i].doc
    OBVIOUS
  <2>1. CASE i = k
    BY <1>23, <2>1
  <2>2. CASE i # k
    BY <1>23, <2>2
  <2> QED
    BY <2>1, <2>2
<1>17. CallsInv'
  <2>1. ASSUME NEW i \in DOMAIN calls', i # k PROVE FrameInv(i)'
    <3>1. i \in DOMAIN calls /\ i # Len(calls) /\ i # n /\ i # n - 1 /\ calls'[i] = calls[i]
      BY <1>22, <1>23, <2>1
    <3>2. FrameInv(i) /\ calls[i].step = "kids"
      BY <3>1 DEF HeapInv, CallsInv, FrameInv
    <3>3. calls[i].ptr # Null /\ calls[i].ptr \in allocated \ held
      BY <3>2 DEF FrameInv
    <3>4. calls[i].tail = Null => child'[calls[i].ptr] = Null
      <4>1. calls[i].ptr # m \/ child'[m] = child[m]
        BY <1>11, <1>12, <1>13, <1>16, <3>1, <3>3, RootsAre
      <4>2. calls[i].tail = Null => child[calls[i].ptr] = Null
        BY <3>2, <3>3 DEF FrameInv
      <4> QED
        BY <1>11, <1>13, <3>3, <4>1, <4>2
    <3>5. calls[i].tail # Null => next'[calls[i].tail] = Null
      <4>1. calls[i].tail # Null => next[calls[i].tail] = Null
        BY <3>2 DEF FrameInv
      <4> QED
        BY <1>11, <1>13, <1>16, <3>1, <4>1
    <3> QED
      BY <1>3, <3>1, <3>2, <3>3, <3>4, <3>5 DEF FrameInv
  <2>2. FrameInv(k)'
    <3>1. next'[kid] = Null
      BY <1>10, <1>11, <1>12, <1>13
    <3>2. p \in allocated' \ held' /\ kid \in allocated' /\ kid # p /\ kid # Null /\ p # Null
      BY <1>3, <1>10
    <3> QED
      BY <1>23, <3>1, <3>2 DEF FrameInv
  <2>3. \A i \in DOMAIN calls' : FrameInv(i)'
    <3> SUFFICES ASSUME NEW i \in DOMAIN calls' PROVE FrameInv(i)'
      OBVIOUS
    <3>1. CASE i = k
      BY <2>2, <3>1
    <3> QED
      BY <2>1, <3>1
  <2>4. \A i, j \in DOMAIN calls' : calls'[i].ptr = calls'[j].ptr /\ calls'[i].ptr # Null => i = j
    BY <1>9, <1>24
  <2> QED
    BY <2>3, <2>4 DEF CallsInv
<1>18. KeysInv'
  <2>1. 1 \in DOMAIN calls' /\ calls'[1].doc = calls[1].doc /\ calls'[1].ptr = calls[1].ptr
    BY <1>4, <1>23, <1>24
  <2> QED
    BY <1>3, <1>4, <1>6, <2>1 DEF HeapInv, KeysInv
<1>19. Roots' = Roots \ {kid}
  <2>1. \A b : b \in Roots' <=> b \in held \/ (b # Null /\ \E i \in DOMAIN calls' : calls'[i].ptr = b)
    BY <1>3 DEF Roots
  <2>2. \A b : (\E i \in DOMAIN calls' : calls'[i].ptr = b) <=> \E i \in DOMAIN calls : i # n /\ calls[i].ptr = b
    BY <1>23, <1>24
  <2>3. \A i \in DOMAIN calls : calls[i].ptr = kid <=> i = n
    BY <1>4, <1>9, <1>10, <1>23
  <2>4. \A b : b \in Roots' <=> b \in Roots \ {kid}
    BY <1>10, <2>1, <2>2, <2>3, RootsAre
  <2> QED
    BY <2>4
<1>20. OwnersInv(own2)'
  <2>1. ASSUME NEW i \in DOMAIN calls', calls'[i].tail # Null
        PROVE  own2[calls'[i].tail] = calls'[i].ptr
    <3>1. CASE i = k
      BY <1>10, <1>11, <1>14, <1>23, <3>1
    <3>2. CASE i # k
      <4>1. i \in DOMAIN calls /\ i # n /\ i # n - 1 /\ calls'[i] = calls[i]
        BY <1>22, <1>23, <3>2
      <4> QED
        BY <1>14, <1>16, <2>1, <4>1
    <3> QED
      BY <3>1, <3>2
  <2>2. target' # Null => target' \in allocated' /\ own2[target'] \in held'
    <3>1. target # Null => target \in allocated /\ own[target] \in held
      BY <1>8 DEF OwnersInv
    <3> QED
      BY <1>3, <1>10, <1>14, <3>1
  <2>3. \A b \in allocated' : own2[b] \in held' \/ from'[b] = hooks'.free
    BY <1>3, <1>8, <1>10, <1>14 DEF OwnersInv
  <2> QED
    BY <2>1, <2>2, <2>3 DEF OwnersInv
<1> QED
  BY <1>3, <1>7, <1>15, <1>17, <1>18, <1>19, <1>20 DEF HeapInv

-----------------------------------------------------------------------------
(* Items are linked into trees, and trees are freed. *)

\* append_to_parent hangs the item in child of the parent or in next of its last child.
LEMMA LinkLastSafe ==
  ASSUME NEW A, NEW R, NEW st, NEW own,
         Trees(A, R, next, prev, child, valuestring, st, own),
         NEW p \in A, NEW item \in R, own[p] # item, LinkLast(p, item)
  PROVE  \E own2 : Trees(A, R \ {item}, next', prev', child', valuestring, st, own2)
<1> USE NullIsNoBlock
<1>1. /\ next \in [Blocks -> Pointer] /\ prev \in [Blocks -> Pointer] /\ child \in [Blocks -> Pointer]
      /\ valuestring \in [Blocks -> Pointer] /\ st \in [Blocks -> Pointer]
      /\ A \subseteq Blocks /\ R \subseteq A /\ own \in [A -> R] /\ \A r \in R : own[r] = r
      /\ \A m \in A : next[m] \in A \cup {Null} /\ child[m] \in A \cup {Null}
  BY DEF Trees, Typed, Parted
<1>2. \A m \in A, c \in A : c = next[m] \/ c = child[m] => own[c] = own[m] /\ c \notin R
  BY DEF Trees, Parted, Pointees
<1>3. PICK own2 : own2 = [b \in A |-> IF own[b] = item THEN own[p] ELSE own[b]]
  OBVIOUS
<1>4. own2 \in [A -> R \ {item}]
  BY <1>1, <1>3
<1>5. \A b \in A : (own2[b] = own[b] /\ own[b] # item) \/ (own2[b] = own[p] /\ own[b] = item)
  BY <1>3
<1>6. \E m : Hung(A, R, next, prev, child, valuestring, st, own, m, item,
                  next', prev', child', valuestring, st, own2)
  <2>1. CASE child[p] = Null
    <3>1. child' = [child EXCEPT ![p] = item] /\ next' = next /\ prev' = prev
      BY <2>1 DEF LinkLast
    <3>2. p \in Blocks /\ item \in Pointer
      BY <1>1 DEF Pointer
    <3>3. /\ child' \in [Blocks -> Pointer] /\ child'[p] = item
          /\ \A b \in Blocks \ {p} : child'[b] = child[b]
      BY <1>1, <3>1, <3>2
    <3>4. Hung(A, R, next, prev, child, valuestring, st, own, p, item,
               next', prev', child', valuestring, st, own2)
      BY <1>1, <1>4, <1>5, <2>1, <3>1, <3>3 DEF Hung
    <3> QED
      BY <3>4
  <2>2. CASE child[p] # Null
    <3>1. PICK last \in Reach(child[p], <<next>>) :
            /\ next[last] = Null
            /\ next' = [next EXCEPT ![last] = item]
            /\ prev' = [prev EXCEPT ![item] = last]
      BY <2>2 DEF LinkLast
    <3>2. child' = child
      BY <2>2 DEF LinkLast
    <3>3. PICK S : S = {b \in A : own[b] = own[p] /\ b \notin R}
      OBVIOUS
    <3>4. child[p] \in S /\ S \in SUBSET Blocks
      BY <1>1, <1>2, <2>2, <3>3
    <3>5. \A m \in S : next[m] \in S \cup {Null}
      BY <1>1, <1>2, <3>3
    <3>6. last \in S
      BY <3>1, <3>4, <3>5, NextReach
    <3>7. last \in A /\ last \in Blocks /\ own[last] = own[p] /\ last \notin R /\ last \in Pointer
          /\ item \in Blocks /\ item \in Pointer
      BY <1>1, <3>3, <3>6 DEF Pointer
    <3>8. /\ next' \in [Blocks -> Pointer] /\ next'[last] = item
          /\ \A b \in Blocks \ {last} : next'[b] = next[b]
          /\ prev' \in [Blocks -> Pointer] /\ prev'[item] = last
          /\ \A b \in Blocks \ {item} : prev'[b] = prev[b]
      BY <1>1, <3>1, <3>7
    <3>9. Hung(A, R, next, prev, child, valuestring, st, own, last, item,
               next', prev', child', valuestring, st, own2)
      BY <1>1, <1>4, <1>5, <3>1, <3>2, <3>7, <3>8 DEF Hung
    <3> QED
      BY <3>9
  <2> QED
    BY <2>1, <2>2
<1> QED
  BY <1>6, HangSafe

LEMMA FinishKeeps ==
  ASSUME HeapInv, Finish
  PROVE  HeapInv'
<1> USE NullIsNoBlock
<1>1. PICK documents : calls \in Seq(Frames(documents))
  BY DEF HeapInv, PlainInv
<1>2. /\ ~Idle /\ Len(calls) = 1 /\ Top.step = "kids"
      /\ calls' = <<>> /\ target' = Null /\ valuestring' = valuestring /\ string' = string
      /\ used' = used /\ allocated' = allocated /\ from' = from /\ astray' = astray
      /\ hooks' = hooks /\ errorPtr' = errorPtr /\ lastText' = lastText
  BY DEF Finish, Finished, globals, blocks
<1>3. DOMAIN calls = {1} /\ Top = calls[1] /\ calls # <<>>
  BY <1>1, <1>2, TopFacts DEF Idle
<1>4. PICK kid : kid = Top.ptr
  OBVIOUS
<1>5. kid # Null /\ kid \in allocated \ held /\ kid \in Roots
  <2>1. FrameInv(1)
    BY <1>3 DEF HeapInv, CallsInv
  <2> QED
    BY <1>2, <1>3, <1>4, <2>1, RootsAre DEF FrameInv
<1>6. \A b : b \in Roots <=> b \in held \/ b = kid
  BY <1>3, <1>4, <1>5, RootsAre
<1>7. \A b : b \in Roots' <=> b \in held'
  BY <1>2 DEF Roots
<1>8. PICK own : Trees(allocated, Roots, next, prev, child, valuestring, string, own) /\ OwnersInv(own)
  BY DEF HeapInv
<1>9. /\ CallsInv'
      /\ \A o : Trees(allocated', Roots', next', prev', child', valuestring', string', o) => OwnersInv(o)'
  <2>1. CallsInv'
    BY <1>2 DEF CallsInv
  <2>2. ASSUME NEW o, Trees(allocated', Roots', next', prev', child', valuestring', string', o)
        PROVE  OwnersInv(o)'
    <3>1. o \in [allocated' -> Roots']
      BY <2>2 DEF Trees, Parted
    <3>2. \A b \in allocated' : o[b] \in held'
      BY <1>7, <3>1
    <3> QED
      BY <1>2, <3>2 DEF OwnersInv
  <2> QED
    BY <2>1, <2>2
<1>10. calls' \in Seq(Frames(documents))
  BY <1>2
<1>11. CASE target = Null
  <2>1. held' = held \cup {kid} /\ next' = next /\ prev' = prev /\ child' = child
    BY <1>4, <1>11 DEF Finish
  <2>2. PlainInv'
    BY <1>2, <1>5, <1>10, <2>1 DEF HeapInv, PlainInv
  <2>3. KeysInv'
    BY <1>2, <1>3, <1>4, <1>5, <1>11, <2>1 DEF HeapInv, KeysInv
  <2>4. Roots' = Roots
    <3>1. \A b : b \in Roots' <=> b \in Roots
      BY <1>6, <1>7, <2>1
    <3> QED
      BY <3>1
  <2> QED
    BY <1>2, <1>8, <1>9, <2>1, <2>2, <2>3, <2>4 DEF HeapInv
<1>12. CASE target # Null
  <2>1. held' = held /\ LinkLast(target, kid)
    BY <1>4, <1>12 DEF Finish
  <2>2. PlainInv'
    BY <1>2, <1>5, <1>10, <2>1 DEF HeapInv, PlainInv
  <2>3. KeysInv'
    BY <1>2, <2>1 DEF HeapInv, KeysInv
  <2>4. Roots' = Roots \ {kid}
    <3>1. \A b : b \in Roots' <=> b \in Roots \ {kid}
      BY <1>5, <1>6, <1>7, <2>1
    <3> QED
      BY <3>1
  <2>5. target \in allocated /\ own[target] # kid
    BY <1>5, <1>8, <1>12 DEF OwnersInv
  <2>6. \E o : Trees(allocated, Roots \ {kid}, next', prev', child', valuestring, string, o)
    BY <1>5, <1>8, <2>1, <2>5, LinkLastSafe
  <2> QED
    BY <1>2, <1>9, <2>2, <2>3, <2>4, <2>6 DEF HeapInv
<1> QED
  BY <1>11, <1>12

\* The tree D of the root r is freed, and nothing else changes.
TakenAway(r, own, D, own2) ==
  /\ D = {b \in allocated : own[b] = r}
  /\ used' = used /\ allocated' = allocated \ D
  /\ \A b \in Blocks \ D : child'[b] = child[b] /\ next'[b] = next[b]
  /\ \A b \in Blocks : string[b] = Null => string'[b] = Null
  /\ from' \in [Blocks -> Allocators \cup {Null}] /\ astray' = {}
  /\ \A b \in allocated' : from'[b] = from[b]
  /\ \A b \in allocated \ D : own2[b] = own[b]
  /\ Trees(allocated', Roots \ {r}, next', prev', child', valuestring', string', own2)

\* cJSON_Delete of a root does that, when the function installed takes all of it.
LEMMA FreeFacts ==
  ASSUME HeapInv, NEW own, Trees(allocated, Roots, next, prev, child, valuestring, string, own),
         NEW r \in Roots, Free(r), \A b \in allocated : own[b] = r => from[b] = hooks.free
  PROVE  \E D, own2 : TakenAway(r, own, D, own2)
<1> USE NullIsNoBlock
<1>1. PICK D : D = {b \in allocated : own[b] = r}
  OBVIOUS
<1>2. OwnedBlocks(r) = D
  BY <1>1, OwnedIsTree
<1>3. /\ used' = used /\ allocated' = allocated \ D /\ from' = Freed(from, D)
      /\ next' = Freed(next, D) /\ prev' = Freed(prev, D) /\ child' = Freed(child, D)
      /\ valuestring' = Freed(valuestring, D) /\ string' = Freed(string, D)
      /\ astray' = astray \cup {d \in D : from[d] # hooks.free}
  BY <1>2 DEF Free
<1>4. /\ \A b \in Blocks \ D : child'[b] = child[b] /\ next'[b] = next[b]
      /\ \A b \in Blocks : string[b] = Null => string'[b] = Null
  BY <1>3 DEF Freed
<1>5. /\ from' \in [Blocks -> Allocators \cup {Null}] /\ \A b \in allocated' : from'[b] = from[b]
      /\ astray' = {}
  <2>1. from \in [Blocks -> Allocators \cup {Null}] /\ astray = {} /\ allocated \subseteq Blocks
    BY HeapFacts DEF HeapInv, PlainInv
  <2>2. \A d \in D : from[d] = hooks.free
    BY <1>1
  <2> QED
    BY <1>3, <2>1, <2>2 DEF Freed
<1>6. own \in [allocated -> Roots]
  BY LinkTypes
<1>7. PICK own2 : own2 = [b \in allocated \ D |-> own[b]]
  OBVIOUS
<1>8. own2 \in [allocated \ D -> Roots \ {r}] /\ \A b \in allocated \ D : own2[b] = own[b]
  BY <1>1, <1>6, <1>7
<1>9. Trees(allocated \ D, Roots \ {r}, Freed(next, D), Freed(prev, D), Freed(child, D),
            Freed(valuestring, D), Freed(string, D), own2)
  BY <1>1, <1>8, DropSafe
<1>10. TakenAway(r, own, D, own2)
  BY <1>1, <1>3, <1>4, <1>5, <1>8, <1>9 DEF TakenAway
<1> QED
  BY <1>10

LEMMA UnwindKeeps ==
  ASSUME HeapInv, Unwind
  PROVE  HeapInv'
<1> USE NullIsNoBlock
<1>1. PICK documents : calls \in Seq(Frames(documents))
  BY DEF HeapInv, PlainInv
<1>2. PICK S, n, r : S = Frames(documents) /\ n = Len(calls) /\ r = Top.ptr
  OBVIOUS
<1>3. /\ ~Idle /\ calls' = Front(calls) /\ held' = held
      /\ target' = (IF n > 1 THEN target ELSE Null)
      /\ hooks' = hooks /\ errorPtr' = errorPtr /\ lastText' = lastText
  BY <1>2 DEF Unwind, globals
<1>4. /\ calls' \in Seq(S) /\ calls # <<>> /\ n \in Nat \ {0} /\ n \in DOMAIN calls
      /\ DOMAIN calls = 1 .. n /\ DOMAIN calls' = DOMAIN calls \ {n} /\ Len(calls') = n - 1
      /\ \A i \in DOMAIN calls' : calls'[i] = calls[i]
      /\ Top = calls[n]
  <2>1. calls \in Seq(S) /\ calls # <<>>
    BY <1>1, <1>2, <1>3 DEF Idle
  <2>2. /\ Front(calls) \in Seq(S)
        /\ Len(calls) \in Nat \ {0} /\ Len(calls) \in DOMAIN calls /\ Len(Front(calls)) = Len(calls) - 1
        /\ Last(calls) = calls[Len(calls)]
        /\ DOMAIN calls = 1 .. Len(calls)
        /\ DOMAIN Front(calls) = DOMAIN calls \ {Len(calls)}
        /\ \A i \in DOMAIN Front(calls) : Front(calls)[i] = calls[i]
    BY <2>1, PopFacts
  <2> QED
    BY <1>2, <1>3, <2>1, <2>2 DEF Top
<1>5. PICK own : Trees(allocated, Roots, next, prev, child, valuestring, string, own) /\ OwnersInv(own)
  BY DEF HeapInv
<1>6. /\ own \in [allocated -> Roots] /\ Roots \subseteq allocated /\ allocated \subseteq Blocks
      /\ \A q \in Roots : own[q] = q
  BY <1>5, LinkTypes
<1>15. r \notin held /\ (r # Null => r \in Roots)
  <2>1. FrameInv(n)
    BY <1>4 DEF HeapInv, CallsInv
  <2>2. Null \notin held
    BY HeapFacts
  <2> QED
    BY <1>2, <1>4, <2>1, <2>2, RootsAre DEF FrameInv
<1>7. PICK D, own2 : TakenAway(r, own, D, own2)
  <2>1. CASE r = Null
    <3>1. /\ used' = used /\ allocated' = allocated /\ from' = from /\ next' = next /\ prev' = prev
          /\ child' = child /\ valuestring' = valuestring /\ string' = string /\ astray' = astray
      BY <1>2, <2>1 DEF Unwind, heap, blocks, fields
    <3>2. PICK D : D = {b \in allocated : own[b] = r}
      OBVIOUS
    <3>3. D = {} /\ Roots \ {r} = Roots /\ allocated \ D = allocated
      BY <1>6, <2>1, <3>2
    <3>4. from \in [Blocks -> Allocators \cup {Null}] /\ astray = {}
      BY DEF HeapInv, PlainInv
    <3>5. Trees(allocated, Roots \ {r}, next, prev, child, valuestring, string, own)
      BY <1>5, <3>3
    <3>6. TakenAway(r, own, D, own)
      BY <3>1, <3>2, <3>3, <3>4, <3>5 DEF TakenAway
    <3> QED
      BY <3>6
  <2>2. CASE r # Null
    <3>1. Free(r)
      BY <1>2, <2>2 DEF Unwind
    <3>2. r \in Roots /\ \A b \in allocated : own[b] = r => from[b] = hooks.free
      BY <1>5, <1>15, <2>2 DEF OwnersInv
    <3> QED
      BY <1>5, <3>1, <3>2, FreeFacts
  <2> QED
    BY <2>1, <2>2
<1>16. /\ D = {b \in allocated : own[b] = r}
       /\ used' = used /\ allocated' = allocated \ D
       /\ \A b \in Blocks \ D : child'[b] = child[b] /\ next'[b] = next[b]
       /\ \A b \in Blocks : string[b] = Null => string'[b] = Null
       /\ from' \in [Blocks -> Allocators \cup {Null}] /\ astray' = {}
       /\ \A b \in allocated' : from'[b] = from[b]
       /\ \A b \in allocated \ D : own2[b] = own[b]
       /\ Trees(allocated', Roots \ {r}, next', prev', child', valuestring', string', own2)
  BY <1>7 DEF TakenAway
\* What the outer calls built is in trees of their own.
<1>8. \A h \in held : h \notin D /\ h \in allocated
  <2>1. held \subseteq Roots
    BY RootsAre
  <2> QED
    BY <1>6, <1>15, <1>16, <2>1
<1>9. ASSUME NEW i \in DOMAIN calls'
      PROVE  /\ FrameInv(i) /\ i \in DOMAIN calls /\ i # n /\ calls'[i] = calls[i] /\ calls[i].step = "kids"
             /\ calls[i].ptr \in allocated \ D /\ calls[i].ptr # Null /\ calls[i].ptr # r
             /\ calls[i].tail # Null => calls[i].tail \in allocated \ D
  <2>1. i \in DOMAIN calls /\ i # n /\ i # Len(calls) /\ calls'[i] = calls[i]
    BY <1>2, <1>4
  <2>2. FrameInv(i)
    BY <2>1 DEF HeapInv, CallsInv
  <2>3. calls[i].step = "kids" /\ calls[i].ptr # Null /\ calls[i].ptr \in allocated
    BY <2>1, <2>2 DEF FrameInv
  <2>4. calls[i].ptr # r /\ calls[i].ptr \in Roots
    BY <1>2, <1>4, <2>1, <2>3, RootsAre DEF HeapInv, CallsInv
  <2>5. calls[i].tail # Null => calls[i].tail \in allocated /\ own[calls[i].tail] = calls[i].ptr
    BY <1>5, <2>1, <2>2 DEF FrameInv, OwnersInv
  <2> QED
    BY <1>6, <1>16, <2>1, <2>2, <2>3, <2>4, <2>5
<1>10. PlainInv'
  <2>1. used' \in 0 .. MaxBlocks /\ allocated' \subseteq 0 .. used' - 1
    BY <1>16 DEF HeapInv, PlainInv
  <2>2. held' \subseteq allocated'
    BY <1>3, <1>16, <1>8
  <2>3. /\ hooks \in [malloc : Allocators, free : Allocators] /\ HooksMatch
        /\ {errorPtr', lastText'} \subseteq Texts \cup {Null}
    BY <1>3, <1>4 DEF HeapInv, PlainInv
  <2> QED
    BY <1>2, <1>3, <1>4, <1>16, <2>1, <2>2, <2>3 DEF PlainInv, HooksMatch
<1>11. CallsInv'
  <2>1. ASSUME NEW i \in DOMAIN calls' PROVE FrameInv(i)'
    <3>1. /\ FrameInv(i) /\ i # n /\ calls'[i] = calls[i] /\ calls[i].step = "kids"
          /\ calls[i].ptr \in allocated \ D /\ calls[i].ptr # Null
          /\ calls[i].tail # Null => calls[i].tail \in allocated \ D
      BY <1>9
    <3>2. /\ calls[i].tail = Null => child'[calls[i].ptr] = Null
          /\ calls[i].tail # Null => next'[calls[i].tail] = Null
          /\ calls[i].tail # calls[i].ptr
          /\ calls[i].ptr \in allocated' \ held'
          /\ calls[i].tail # Null => calls[i].tail \in allocated'
      BY <1>3, <1>6, <1>16, <3>1 DEF FrameInv
    <3> QED
      BY <3>1, <3>2 DEF FrameInv
  <2>2. \A i, j \in DOMAIN calls' : calls'[i].ptr = calls'[j].ptr /\ calls'[i].ptr # Null => i = j
    BY <1>9 DEF HeapInv, CallsInv
  <2> QED
    BY <2>1, <2>2 DEF CallsInv
<1>12. KeysInv'
  <2>1. \A h \in held' : string'[h] = Null
    BY <1>3, <1>6, <1>16, <1>8 DEF HeapInv, KeysInv
  <2>2. calls' = <<>> => target' = Null
    BY <1>3, <1>4
  <2>3. ASSUME calls' # <<>>, target' = Null
        PROVE  ~calls'[1].doc.key /\ (calls'[1].ptr # Null => string'[calls'[1].ptr] = Null)
    <3>1. n > 1 /\ 1 \in DOMAIN calls' /\ target = Null
      <4>1. Len(calls') # 0
        BY <1>4, <2>3
      <4> QED
        BY <1>3, <1>4, <2>3, <4>1
    <3>2. calls'[1] = calls[1] /\ calls[1].ptr \in allocated
      BY <1>9, <3>1
    <3>3. ~calls[1].doc.key /\ (calls[1].ptr # Null => string[calls[1].ptr] = Null)
      BY <1>4, <3>1 DEF HeapInv, KeysInv
    <3> QED
      BY <1>6, <1>16, <3>2, <3>3
  <2> QED
    BY <2>1, <2>2, <2>3 DEF KeysInv
<1>13. Roots' = Roots \ {r}
  <2>1. \A b : b \in Roots' <=> b \in held \/ (b # Null /\ \E i \in DOMAIN calls' : calls'[i].ptr = b)
    BY <1>3 DEF Roots
  <2>2. \A i \in DOMAIN calls : i \in DOMAIN calls' \/ i = n
    BY <1>4
  <2>4. calls[n].ptr = r
    BY <1>2, <1>4
  <2>5. \A b : b \in Roots' <=> b \in Roots \ {r}
    BY <1>9, <1>15, <2>1, <2>2, <2>4, RootsAre
  <2> QED
    BY <2>5
<1>14. OwnersInv(own2)'
  <2>1. \A i \in DOMAIN calls' : calls'[i].tail # Null => own2[calls'[i].tail] = calls'[i].ptr
    BY <1>5, <1>16, <1>9 DEF OwnersInv
  <2>2. ASSUME target' # Null PROVE target' \in allocated' /\ own2[target'] \in held'
    <3>1. target' = target /\ target \in allocated /\ own[target] \in held
      BY <1>3, <1>5, <2>2 DEF OwnersInv
    <3> QED
      BY <1>3, <1>15, <1>16, <3>1
  <2>3. \A b \in allocated' : own2[b] \in held' \/ from'[b] = hooks'.free
    BY <1>3, <1>5, <1>16 DEF OwnersInv
  <2> QED
    BY <2>1, <2>2, <2>3 DEF OwnersInv
<1> QED
  BY <1>16, <1>10, <1>11, <1>12, <1>13, <1>14 DEF HeapInv

LEMMA DeleteItemKeeps ==
  ASSUME HeapInv, NEW item \in held, MayDelete(item), DeleteItem(item)
  PROVE  HeapInv'
<1> USE NullIsNoBlock
<1>1. /\ calls = <<>> /\ calls' = <<>> /\ held' = held \ {item} /\ Free(item) /\ target' = target
      /\ hooks' = hooks /\ errorPtr' = errorPtr /\ lastText' = lastText
  BY DEF DeleteItem, Idle, globals
<1>2. target = Null
  BY <1>1 DEF HeapInv, KeysInv
<1>3. PICK own : Trees(allocated, Roots, next, prev, child, valuestring, string, own) /\ OwnersInv(own)
  BY DEF HeapInv
<1>4. item \in Roots
  BY RootsAre
<1>12. \A b \in allocated : own[b] = item => from[b] = hooks.free
  BY <1>3, <1>4, OwnedIsTree DEF MayDelete
<1>11. PICK D, own2 : TakenAway(item, own, D, own2)
  BY <1>1, <1>3, <1>4, <1>12, FreeFacts
<1>5. /\ used' = used /\ allocated' = allocated \ {b \in allocated : own[b] = item}
      /\ \A b \in Blocks : string[b] = Null => string'[b] = Null
      /\ from' \in [Blocks -> Allocators \cup {Null}] /\ astray' = {}
      /\ Trees(allocated', Roots \ {item}, next', prev', child', valuestring', string', own2)
  BY <1>11 DEF TakenAway
<1>6. \A h \in held : h \in allocated /\ h \in Blocks /\ own[h] = h
  BY <1>3, LinkTypes, HeapFacts
<1>7. PlainInv'
  <2>1. held' \subseteq allocated'
    BY <1>1, <1>5, <1>6
  <2>2. used' \in 0 .. MaxBlocks /\ allocated' \subseteq 0 .. used' - 1
    BY <1>5 DEF HeapInv, PlainInv
  <2>3. calls' \in Seq(Frames({}))
    BY <1>1
  <2> QED
    BY <1>1, <1>5, <2>1, <2>2, <2>3 DEF HeapInv, PlainInv
<1>9. KeysInv'
  BY <1>1, <1>2, <1>5, <1>6 DEF HeapInv, KeysInv
<1>10. Roots' = Roots \ {item} /\ \A b : b \in Roots \ {item} <=> b \in held'
  <2>1. \A b : (b \in Roots' <=> b \in held \ {item}) /\ (b \in Roots <=> b \in held)
    BY <1>1 DEF Roots
  <2> QED
    BY <1>1, <2>1
<1>8. CallsInv' /\ OwnersInv(own2)'
  <2>1. \A b \in allocated' : own2[b] \in held'
    BY <1>5, <1>10 DEF Trees, Parted
  <2> QED
    BY <1>1, <1>2, <2>1 DEF CallsInv, OwnersInv
<1> QED
  BY <1>5, <1>7, <1>8, <1>9, <1>10 DEF HeapInv

\* An item that is held goes into another tree that is held.
LEMMA GivenAwayKeeps ==
  ASSUME HeapInv, NEW item \in held, calls = <<>>, calls' = <<>>, target' = target,
         held' = held \ {item}, used' \in 0 .. MaxBlocks, allocated \subseteq allocated',
         allocated' \subseteq 0 .. used' - 1,
         from' \in [Blocks -> Allocators \cup {Null}], astray' = {},
         hooks' = hooks, errorPtr' = errorPtr, lastText' = lastText,
         \A b \in Blocks \ {item} : string'[b] = string[b],
         NEW own2, Trees(allocated', Roots \ {item}, next', prev', child', valuestring', string', own2)
  PROVE  HeapInv'
<1> USE NullIsNoBlock
<1>1. target = Null
  BY DEF HeapInv, KeysInv
<1>2. \A h \in held : h \in allocated /\ h \in Blocks
  BY HeapFacts
<1>3. PlainInv'
  <2>1. held' \subseteq allocated' /\ calls' \in Seq(Frames({}))
    BY <1>2
  <2> QED
    BY <2>1 DEF HeapInv, PlainInv
<1>5. KeysInv'
  BY <1>1, <1>2 DEF HeapInv, KeysInv
<1>6. Roots' = Roots \ {item} /\ \A b : b \in Roots \ {item} <=> b \in held'
  <2>1. \A b : (b \in Roots' <=> b \in held \ {item}) /\ (b \in Roots <=> b \in held)
    BY DEF Roots
  <2> QED
    BY <2>1
<1>4. CallsInv' /\ OwnersInv(own2)'
  <2>1. \A b \in allocated' : own2[b] \in held'
    BY <1>6 DEF Trees, Parted
  <2> QED
    BY <1>1, <2>1 DEF CallsInv, OwnersInv
<1> QED
  BY <1>3, <1>4, <1>5, <1>6 DEF HeapInv

\* The parent is in another tree than the item.
LEMMA OtherTree ==
  ASSUME HeapInv, NEW item \in held, NEW parent \in HeldStructs \ Reach(item, <<next, child>>),
         NEW own, Trees(allocated, Roots, next, prev, child, valuestring, string, own)
  PROVE  parent \in allocated /\ own[parent] # item
<1>1. PICK h \in held : parent \in Reach(h, <<next, child>>)
  BY DEF HeldStructs
<1>2. parent \in allocated /\ own[parent] = h
  BY <1>1, HeldFacts
<1>3. h # item
  BY <1>1
<1> QED
  BY <1>2, <1>3

LEMMA AddItemToArrayKeeps ==
  ASSUME HeapInv, NEW item \in held, NEW parent \in HeldStructs \ Reach(item, <<next, child>>),
         AddItemToArray(parent, item)
  PROVE  HeapInv'
<1>1. /\ calls = <<>> /\ calls' = <<>> /\ held' = held \ {item} /\ target' = target
      /\ LinkLast(parent, item) /\ string' = [string EXCEPT ![item] = Null]
      /\ used' = used /\ allocated' = allocated /\ from' = from /\ valuestring' = valuestring
      /\ astray' = astray
      /\ hooks' = hooks /\ errorPtr' = errorPtr /\ lastText' = lastText
  BY DEF AddItemToArray, Idle, globals, blocks
<1>2. PICK own : Trees(allocated, Roots, next, prev, child, valuestring, string, own)
  BY DEF HeapInv
<1>3. parent \in allocated /\ own[parent] # item /\ item \in Roots
  BY <1>2, OtherTree, RootsAre
<1>4. PICK own2 : Trees(allocated, Roots \ {item}, next', prev', child', valuestring, string, own2)
  BY <1>1, <1>2, <1>3, LinkLastSafe
<1>5. string' = string
  <2>1. string \in [Blocks -> Pointer] /\ string[item] = Null
    BY <1>2, LinkTypes DEF HeapInv, KeysInv
  <2> QED
    BY <1>1, <2>1
<1>6. /\ used' \in 0 .. MaxBlocks /\ allocated' \subseteq 0 .. used' - 1
      /\ from' \in [Blocks -> Allocators \cup {Null}] /\ astray' = {}
  BY <1>1 DEF HeapInv, PlainInv
<1>7. Trees(allocated', Roots \ {item}, next', prev', child', valuestring', string', own2)
  BY <1>1, <1>4, <1>5
<1>8. allocated \subseteq allocated' /\ \A b \in Blocks \ {item} : string'[b] = string[b]
  BY <1>1, <1>5
<1> QED
  BY <1>1, <1>6, <1>7, <1>8, GivenAwayKeeps

LEMMA AddItemToObjectKeeps ==
  ASSUME HeapInv, NEW item \in held, NEW parent \in HeldStructs \ Reach(item, <<next, child>>),
         AddItemToObject(parent, item)
  PROVE  HeapInv'
<1> USE NullIsNoBlock
<1>1. /\ calls = <<>> /\ calls' = <<>> /\ held' = held \ {item} /\ target' = target
      /\ Malloc /\ LinkLast(parent, item) /\ string' = [string EXCEPT ![item] = used]
      /\ valuestring' = valuestring
      /\ hooks' = hooks /\ errorPtr' = errorPtr /\ lastText' = lastText
  BY DEF AddItemToObject, Idle, globals
<1>2. PICK own : Trees(allocated, Roots, next, prev, child, valuestring, string, own)
  BY DEF HeapInv
<1>3. parent \in allocated /\ own[parent] # item /\ item \in Roots
  BY <1>2, OtherTree, RootsAre
<1>4. /\ used \in Blocks \ allocated /\ used # Null /\ used \notin held
      /\ allocated' = allocated \cup {used}
      /\ used' \in 0 .. MaxBlocks /\ allocated' \subseteq 0 .. used' - 1
      /\ from' \in [Blocks -> Allocators \cup {Null}] /\ astray' = {}
  BY <1>1, MallocFacts
<1>5. /\ string \in [Blocks -> Pointer] /\ valuestring \in [Blocks -> Pointer] /\ string[item] = Null
      /\ Roots \subseteq allocated /\ allocated \subseteq Blocks /\ own \in [allocated -> Roots]
      /\ item \in allocated
  BY <1>2, <1>3, LinkTypes DEF HeapInv, KeysInv
<1>6. PICK st : st = [string EXCEPT ![item] = used]
  OBVIOUS
<1>7. /\ st \in [Blocks -> Pointer] /\ st[item] = used
      /\ \A b \in Blocks \ {item} : st[b] = string[b]
  BY <1>4, <1>5, <1>6 DEF Pointer
<1>8. PICK own1 : own1 = [b \in allocated \cup {used} |-> IF b = used THEN own[item] ELSE own[b]]
  OBVIOUS
<1>9. /\ own1 \in [allocated \cup {used} -> Roots] /\ own1[used] = own[item]
      /\ \A b \in allocated : own1[b] = own[b]
  BY <1>4, <1>5, <1>8
<1>10. Trees(allocated \cup {used}, Roots, next, prev, child, valuestring, st, own1)
  <2>1. /\ item \in allocated /\ used \in Blocks \ allocated
        /\ valuestring \in [Blocks -> Pointer] /\ st \in [Blocks -> Pointer]
        /\ \A b \in Blocks \ {item} : valuestring[b] = valuestring[b] /\ st[b] = string[b]
        /\ string[item] = Null /\ st[item] = used /\ valuestring[item] = valuestring[item]
        /\ own1 \in [allocated \cup {used} -> Roots] /\ own1[used] = own[item]
        /\ \A b \in allocated : own1[b] = own[b]
    BY <1>4, <1>5, <1>7, <1>9
  <2> QED
    BY <1>2, <2>1, LeafSafe
<1>11. own1[parent] # item /\ parent \in allocated \cup {used}
  BY <1>3, <1>9
<1>12. PICK own2 : Trees(allocated \cup {used}, Roots \ {item}, next', prev', child', valuestring, st, own2)
  BY <1>1, <1>3, <1>10, <1>11, LinkLastSafe
<1>13. Trees(allocated', Roots \ {item}, next', prev', child', valuestring', string', own2)
  BY <1>1, <1>4, <1>6, <1>12
<1>14. allocated \subseteq allocated' /\ \A b \in Blocks \ {item} : string'[b] = string[b]
  BY <1>1, <1>4, <1>6, <1>7
<1> QED
  BY <1>1, <1>4, <1>13, <1>14, GivenAwayKeeps

-----------------------------------------------------------------------------
(* Every step of every call. *)

LEMMA HeapStep ==
  ASSUME HeapInv, [HeapNext]_hvars
  PROVE  HeapInv'
<1>1. CASE UNCHANGED hvars
  BY <1>1, SameKeeps DEF hvars, globals, HeapInv, PlainInv
<1>2. CASE AllocStruct
  BY <1>2, AllocStructKeeps
<1>3. CASE AllocValue
  BY <1>3, AllocValueKeeps
<1>4. CASE AllocString
  BY <1>4, AllocStringKeeps
<1>5. CASE Refuse
  BY <1>5, RefuseKeeps
<1>6. CASE NextKid
  BY <1>6, NextKidKeeps
<1>7. CASE FinishKid
  BY <1>7, FinishKidKeeps
<1>8. CASE Finish
  BY <1>8, FinishKeeps
<1>9. CASE Unwind
  BY <1>9, UnwindKeeps
<1>10. CASE NextCall
  <2>1. CASE \E doc \in Docs : HooksMatch /\ CreateItem(doc)
    BY <2>1, CreateItemKeeps
  <2>2. CASE \E object \in HeldStructs, doc \in Docs : HooksMatch /\ AddNewToObject(object, doc)
    BY <2>2, AddNewToObjectKeeps
  <2>3. CASE \E text \in Texts, doc \in Docs : HooksMatch /\ ParseText(text, doc)
    BY <2>3, ParseTextKeeps
  <2>4. CASE \E text \in Texts : RejectText(text)
    BY <2>4, RejectTextKeeps
  <2>5. CASE ParseNull
    BY <2>5, ParseNullKeeps
  <2>6. CASE \E malloc, free \in Allocators : InitHooks(malloc, free)
    BY <2>6, InitHooksKeeps
  <2>7. CASE \E item \in held : MayDelete(item) /\ DeleteItem(item)
    BY <2>7, DeleteItemKeeps
  <2>8. CASE \E item \in held : \E parent \in HeldStructs \ Reach(item, <<next, child>>) :
               AddItemToArray(parent, item) \/ AddItemToObject(parent, item)
    BY <2>8, AddItemToArrayKeeps, AddItemToObjectKeeps
  <2> QED
    BY <1>10, <2>1, <2>2, <2>3, <2>4, <2>5, <2>6, <2>7, <2>8 DEF NextCall
<1> QED
  BY <1>1, <1>2, <1>3, <1>4, <1>5, <1>6, <1>7, <1>8, <1>9, <1>10 DEF HeapNext

LEMMA HeapInvAlways == HeapSpec => []HeapInv
<1>1. HeapInit => HeapInv
  BY HeapInitInv
<1>2. HeapInv /\ [HeapNext]_hvars => HeapInv'
  BY HeapStep
<1> QED
  BY <1>1, <1>2, PTL DEF HeapSpec

-----------------------------------------------------------------------------
(* The theorems. *)

\* Pointers lead to blocks, what is held is allocated, and a call has a struct once
\* it has allocated it, for every number of blocks and all documents.
THEOREM HeapTypes == HeapSpec => []HeapTypeOK
<1>1. HeapInv => HeapTypeOK
  <2> SUFFICES ASSUME HeapInv PROVE HeapTypeOK
    OBVIOUS
  <2>1. PICK own : Trees(allocated, Roots, next, prev, child, valuestring, string, own) /\ OwnersInv(own)
    BY DEF HeapInv
  <2>2. /\ used \in 0 .. MaxBlocks /\ allocated \subseteq 0 .. used - 1 /\ held \subseteq allocated
        /\ hooks \in [malloc : Allocators, free : Allocators] /\ astray \subseteq Blocks
        /\ from \in [Blocks -> Allocators \cup {Null}]
        /\ {errorPtr, lastText} \subseteq Texts \cup {Null}
    BY DEF HeapInv, PlainInv
  <2>3. \A f \in {next, prev, child, valuestring, string} : f \in [Blocks -> Pointer]
    BY <2>1, LinkTypes
  <2>4. \A i \in DOMAIN calls : /\ calls[i].ptr \in allocated \cup {Null}
                                /\ calls[i].ptr = Null <=> calls[i].step = "struct"
    BY DEF HeapInv, CallsInv, FrameInv
  <2>5. target \in allocated \cup {Null}
    BY <2>1 DEF OwnersInv
  <2> QED
    BY <2>2, <2>3, <2>4, <2>5 DEF HeapTypeOK
<1> QED
  BY <1>1, HeapInvAlways, PTL

\* cJSON_InitHooks, called at any time and for either function: whatever is alive by
\* then and however calls fail after it, no block goes to the free of another allocator.
THEOREM BlocksGoBackWhereTheyCameFrom == HeapSpec => []FreedByItsAllocator
<1>1. HeapInv => FreedByItsAllocator
  BY DEF HeapInv, PlainInv, FreedByItsAllocator
<1> QED
  BY <1>1, HeapInvAlways, PTL

\* The siblings of every list are linked both ways, also in what a call is building.
THEOREM SiblingsStayLinked == HeapSpec => []SiblingsLinkedBothWays
<1>1. HeapInv => SiblingsLinkedBothWays
  BY DEF HeapInv, Trees, Sided, SiblingsLinkedBothWays
<1> QED
  BY <1>1, HeapInvAlways, PTL

\* Two places that point at the same block are the same place.
LEMMA OnePointer ==
  ASSUME NEW own, Trees(allocated, Roots, next, prev, child, valuestring, string, own),
         NEW c \in Blocks,
         NEW m \in allocated, NEW i \in 1 .. 4, <<next, child, valuestring, string>>[i][m] = c,
         NEW n \in allocated, NEW j \in 1 .. 4, <<next, child, valuestring, string>>[j][n] = c
  PROVE  m = n /\ i = j
<1> USE NullIsNoBlock
<1>1. /\ \A k \in 1 .. 4 : k \in {1, 2, 3, 4}
      /\ <<next, child, valuestring, string>>[1] = next /\ <<next, child, valuestring, string>>[2] = child
      /\ <<next, child, valuestring, string>>[3] = valuestring
      /\ <<next, child, valuestring, string>>[4] = string
  OBVIOUS
<1>2. c \in allocated /\ c # Null
  BY <1>1, LinkTypes
<1>3. c \in Pointees(next, child, valuestring, string, m) /\ c \in Pointees(next, child, valuestring, string, n)
  BY <1>1 DEF Pointees
<1>4. m = n
  BY <1>2, <1>3 DEF Trees, Once
<1>5. /\ next[m] # Null => next[m] \notin {child[m], valuestring[m], string[m]}
      /\ child[m] # Null => child[m] \notin {valuestring[m], string[m]}
      /\ valuestring[m] # Null => valuestring[m] # string[m]
  BY DEF Trees, Once
<1>6. i = j
  BY <1>1, <1>2, <1>4, <1>5
<1> QED
  BY <1>4, <1>6

\* A set without two different elements has at most one.
LEMMA AtMostOne ==
  ASSUME NEW S, \A x, y \in S : x = y
  PROVE  Cardinality(S) <= 1
<1>1. CASE S = {}
  BY <1>1, FS_EmptySet
<1>2. CASE S # {}
  <2>1. PICK x : x \in S
    BY <1>2
  <2>2. S = {x}
    BY <2>1
  <2>3. Cardinality({x}) = 1
    BY FS_Singleton
  <2> QED
    BY <2>2, <2>3
<1> QED
  BY <1>1, <1>2

\* Whichever request is refused, in whatever build of whatever document: no block
\* is leaked, none is in two trees, none is pointed at twice.
THEOREM NothingLeaks == HeapSpec => []NothingLeakedOrShared
<1>1. HeapInv => NothingLeakedOrShared
  <2> SUFFICES ASSUME HeapInv PROVE NothingLeakedOrShared
    OBVIOUS
  <2>1. PICK own : Trees(allocated, Roots, next, prev, child, valuestring, string, own)
    BY DEF HeapInv
  <2>2. \A r \in Roots : OwnedBlocks(r) = {b \in allocated : own[b] = r}
    BY <2>1, OwnedIsTree
  <2>3. own \in [allocated -> Roots]
    BY <2>1, LinkTypes
  <2>4. allocated = UNION {OwnedBlocks(r) : r \in Roots}
    <3>1. \A b : b \in allocated <=> \E r \in Roots : b \in OwnedBlocks(r)
      BY <2>2, <2>3
    <3> QED
      BY <3>1
  <2>5. \A q, r \in Roots : q # r => OwnedBlocks(q) \cap OwnedBlocks(r) = {}
    BY <2>2
  <2>6. ASSUME NEW c \in Blocks
        PROVE  Cardinality({p \in allocated \X DOMAIN <<next, child, valuestring, string>> :
                              <<next, child, valuestring, string>>[p[2]][p[1]] = c}) <= 1
    <3>1. DOMAIN <<next, child, valuestring, string>> = 1 .. 4
      OBVIOUS
    <3> DEFINE P == {p \in allocated \X DOMAIN <<next, child, valuestring, string>> :
                       <<next, child, valuestring, string>>[p[2]][p[1]] = c}
    <3>2. ASSUME NEW x \in P, NEW y \in P PROVE x = y
      <4>1. /\ x[1] \in allocated /\ x[2] \in 1 .. 4 /\ x = <<x[1], x[2]>>
            /\ <<next, child, valuestring, string>>[x[2]][x[1]] = c
        BY <3>1
      <4>2. /\ y[1] \in allocated /\ y[2] \in 1 .. 4 /\ y = <<y[1], y[2]>>
            /\ <<next, child, valuestring, string>>[y[2]][y[1]] = c
        BY <3>1
      <4>3. x[1] = y[1] /\ x[2] = y[2]
        BY <2>1, <4>1, <4>2, OnePointer
      <4> QED
        BY <4>1, <4>2, <4>3
    <3> HIDE DEF P
    <3>3. Cardinality(P) <= 1
      BY <3>2, AtMostOne
    <3> QED
      BY <3>3 DEF P
  <2> QED
    BY <2>4, <2>5, <2>6 DEF NothingLeakedOrShared
<1> QED
  BY <1>1, HeapInvAlways, PTL

-----------------------------------------------------------------------------
(* What a call builds. *)

\* What is left of a list when its first n elements are dropped.
Rest(s, n) == SubSeq(s, n + 1, Len(s))

\* A value and a key are there when the document says so.
Says(doc, b) == (doc.value <=> valuestring[b] # Null) /\ (doc.key <=> string[b] # Null)

\* A struct that a call has linked, when rest[m] is what the call is to spell from
\* the struct m to the end of its list.  Only the last one of a list still waits for
\* what comes next.
LinkedInv(F, rest, b) ==
  /\ rest[b] \in Seq(Docs) /\ rest[b] # <<>>
  /\ Says(rest[b][1], b)
  /\ IF child[b] = Null THEN rest[b][1].kids = <<>>
     ELSE child[b] \in F /\ b < child[b] /\ rest[child[b]] = rest[b][1].kids
  /\ IF next[b] = Null THEN Rest(rest[b], 1) = <<>> \/ \E i \in DOMAIN calls : calls[i].tail = b
     ELSE next[b] \in F /\ b < next[b] /\ rest[next[b]] = Rest(rest[b], 1)

\* A frame: its strings as far as they were made, and its children so far.
FrameSays(F, rest, frame, first, value, key) ==
  /\ frame.doc \in Docs
  /\ frame.done \in 0 .. Len(frame.doc.kids)
  /\ frame.ptr \notin F
  /\ frame.step = "value" => frame.doc.value
  /\ frame.step \in {"string", "kids"} => (frame.doc.value <=> value # Null)
  /\ frame.step = "kids" => (frame.doc.key <=> key # Null)
  /\ frame.tail = Null <=> frame.done = 0
  /\ frame.tail # Null =>
       /\ frame.tail \in F
       /\ Rest(rest[frame.tail], 1) = Rest(frame.doc.kids, frame.done)
       /\ first \in F
       /\ frame.ptr < first
       /\ rest[first] = frame.doc.kids

FrameBuilt(F, rest, i) ==
  FrameSays(F, rest, calls[i], child[calls[i].ptr], valuestring[calls[i].ptr], string[calls[i].ptr])

\* A frame builds the child its parent is at, and its struct is younger.
Nested(i, j) ==
  /\ j = i + 1 => /\ calls[i].done < Len(calls[i].doc.kids)
                  /\ calls[j].doc = calls[i].doc.kids[calls[i].done + 1]
  /\ calls[j].ptr # Null => /\ calls[i].ptr < calls[j].ptr
                            /\ calls[i].tail # Null => calls[i].tail < calls[j].ptr

BuiltSoFar(F, rest) ==
  /\ F \subseteq allocated
  /\ \A b \in F : LinkedInv(F, rest, b)
  /\ \A i \in DOMAIN calls : FrameBuilt(F, rest, i)
  /\ \A i, j \in DOMAIN calls : i < j => Nested(i, j)

BuildInv == refused \/ \E F, rest : BuiltSoFar(F, rest)

\* What is left behind the first n elements, and one by one less of it.
LEMMA RestFacts ==
  ASSUME NEW S, NEW s \in Seq(S), NEW n \in 0 .. Len(s)
  PROVE  /\ Rest(s, n) \in Seq(S)
         /\ Rest(s, 0) = s
         /\ n = Len(s) => Rest(s, n) = <<>>
         /\ n < Len(s) => /\ Rest(s, n) # <<>> /\ Rest(s, n)[1] = s[n + 1] /\ s[n + 1] \in S
                          /\ Rest(Rest(s, n), 1) = Rest(s, n + 1)
<1>1. Rest(s, n) \in Seq(S) /\ Rest(s, 0) = s /\ (n = Len(s) => Rest(s, n) = <<>>)
  BY DEF Rest
<1>2. ASSUME n < Len(s)
      PROVE  Rest(s, n) # <<>> /\ Rest(s, n)[1] = s[n + 1] /\ s[n + 1] \in S
  <2>1. n + 1 \in 1 .. Len(s) /\ s[n + 1] \in S
    BY <1>2
  <2>2. Len(Rest(s, n)) = Len(s) - n /\ Len(s) - n # 0
    BY <1>2 DEF Rest
  <2>3. Rest(s, n)[1] = s[n + 1]
    BY <1>2, <2>1 DEF Rest
  <2>4. Rest(s, n) # <<>>
    BY <2>2
  <2> QED
    BY <2>1, <2>3, <2>4
<1>3. ASSUME n < Len(s)
      PROVE  Rest(Rest(s, n), 1) = Rest(s, n + 1)
  BY <1>3 DEF Rest
<1> QED
  BY <1>1, <1>2, <1>3

\* A list is its first element and what is left.
LEMMA ConsFacts ==
  ASSUME NEW S, NEW s \in Seq(S), s # <<>>
  PROVE  s[1] \in S /\ <<s[1]>> \o Rest(s, 1) = s
BY DEF Rest

\* A document of Docs is a record of these three fields, and so are its children.
LEMMA DocFacts ==
  ASSUME NEW doc \in Docs
  PROVE  /\ doc.kids \in Seq(Docs) /\ doc.value \in BOOLEAN /\ doc.key \in BOOLEAN
         /\ doc = [value |-> doc.value, key |-> doc.key, kids |-> doc.kids]
<1>1. doc \in [value : BOOLEAN, key : BOOLEAN, kids : Seq(Docs)]
  BY DocsAssumption
<1> QED
  BY <1>1

\* A struct with the strings of a document, and its children, spells it.
LEMMA DocIs ==
  ASSUME NEW doc \in Docs, NEW b, Says(doc, b), NEW kids, kids = doc.kids
  PROVE  [value |-> valuestring[b] # Null, key |-> string[b] # Null, kids |-> kids] = doc
<1>1. doc.value \in BOOLEAN /\ doc.key \in BOOLEAN
      /\ doc = [value |-> doc.value, key |-> doc.key, kids |-> doc.kids]
  BY DocFacts
<1>2. doc.value = (valuestring[b] # Null) /\ doc.key = (string[b] # Null)
  BY <1>1, Zenon DEF Says
<1> QED
  BY <1>1, <1>2, Zenon

\* The struct on top gets a block, itself or a string of its own: nothing is linked.
LEMMA GrantKeepsBuilt ==
  ASSUME HeapInv, ~Idle, NEW F, NEW rest, BuiltSoFar(F, rest),
         allocated \subseteq allocated', next' = next, child' = child,
         NEW documents, calls \in Seq(Frames(documents)),
         NEW g \in Frames(documents), calls' = WithTop(g),
         g.doc = Top.doc, g.done = Top.done, g.tail = Top.tail, g.ptr \notin F, g.ptr \in Blocks,
         \A b \in allocated : b # g.ptr => valuestring'[b] = valuestring[b] /\ string'[b] = string[b],
         Top.ptr # Null => Top.ptr = g.ptr,
         Top.ptr = Null => g.ptr \notin allocated /\ \A b \in allocated : b < g.ptr,
         g.step = "value" => Top.doc.value,
         g.step \in {"string", "kids"} => (Top.doc.value <=> valuestring'[g.ptr] # Null),
         g.step = "kids" => (Top.doc.key <=> string'[g.ptr] # Null)
  PROVE  BuiltSoFar(F, rest)'
<1> USE NullIsNoBlock
<1>0. PICK n : n = Len(calls)
  OBVIOUS
<1>1. /\ n \in DOMAIN calls /\ n \in Nat \ {0} /\ DOMAIN calls = 1 .. n
      /\ Top = calls[n] /\ calls # <<>>
  BY <1>0, TopFacts DEF Idle
<1>2. /\ DOMAIN calls' = DOMAIN calls /\ Len(calls') = n
      /\ calls'[n] = g /\ \A i \in DOMAIN calls : i # n => calls'[i] = calls[i]
  BY <1>0, <1>1, SetTopFacts
<1>3. /\ \A i \in DOMAIN calls : /\ calls'[i].doc = calls[i].doc /\ calls'[i].done = calls[i].done
                                 /\ calls'[i].tail = calls[i].tail
      /\ \A i \in DOMAIN calls : i # n => calls'[i] = calls[i]
  BY <1>1, <1>2
<1>4. /\ F \subseteq allocated /\ \A b \in F : LinkedInv(F, rest, b)
      /\ \A i \in DOMAIN calls : FrameBuilt(F, rest, i)
      /\ \A i, j \in DOMAIN calls : i < j => Nested(i, j)
  BY DEF BuiltSoFar
<1>5. /\ \A i \in DOMAIN calls : /\ calls[i].ptr # Null => calls[i].ptr \in allocated
                                 /\ i # n => calls[i].ptr # Null
                                 /\ calls[i].tail # Null => calls[i].ptr # Null /\ calls[i].tail \in allocated
      /\ \A i, j \in DOMAIN calls : calls[i].ptr = calls[j].ptr /\ calls[i].ptr # Null => i = j
  BY <1>0, <1>1 DEF HeapInv, CallsInv, FrameInv
<1>6. \A b \in F : LinkedInv(F, rest, b)'
  <2> SUFFICES ASSUME NEW b \in F PROVE LinkedInv(F, rest, b)'
    OBVIOUS
  <2>1. LinkedInv(F, rest, b) /\ b \in allocated /\ b # g.ptr
    BY <1>4
  <2>2. Says(rest[b][1], b)'
    BY <2>1 DEF LinkedInv, Says
  <2>3. (\E i \in DOMAIN calls : calls[i].tail = b) => (\E i \in DOMAIN calls' : calls'[i].tail = b)
    BY <1>2, <1>3
  <2> QED
    BY <2>1, <2>2, <2>3 DEF LinkedInv
<1>7. ASSUME NEW i \in DOMAIN calls, i # n PROVE FrameBuilt(F, rest, i)'
  <2>1. calls[i].ptr # g.ptr /\ calls[i].ptr \in allocated
    BY <1>1, <1>5, <1>7
  <2>2. /\ calls'[i] = calls[i] /\ child' = child
        /\ valuestring'[calls[i].ptr] = valuestring[calls[i].ptr]
        /\ string'[calls[i].ptr] = string[calls[i].ptr]
    BY <1>3, <1>7, <2>1
  <2>3. FrameBuilt(F, rest, i)
    BY <1>4
  <2> QED
    BY ONLY <2>2, <2>3 DEF FrameBuilt
<1>8. FrameBuilt(F, rest, n)'
  <2>1. calls[n].tail # Null => g.ptr = calls[n].ptr
    BY <1>1, <1>5
  <2>2. FrameSays(F, rest, calls[n], child[calls[n].ptr], valuestring[calls[n].ptr], string[calls[n].ptr])
    BY <1>1, <1>4 DEF FrameBuilt
  <2>3. calls[n].tail # Null => child'[g.ptr] = child[calls[n].ptr] /\ g.ptr = calls[n].ptr
    BY <2>1
  <2>4. FrameSays(F, rest, g, child'[g.ptr], valuestring'[g.ptr], string'[g.ptr])
    BY <1>1, <2>2, <2>3 DEF FrameSays
  <2> QED
    BY <1>2, <2>4 DEF FrameBuilt
<1>9. \A i, j \in DOMAIN calls : i < j => Nested(i, j)'
  <2> SUFFICES ASSUME NEW i \in DOMAIN calls, NEW j \in DOMAIN calls, i < j PROVE Nested(i, j)'
    OBVIOUS
  <2>1. i # n /\ calls'[i] = calls[i] /\ calls[i].ptr \in allocated
    BY <1>1, <1>3, <1>5
  <2>2. Nested(i, j)
    BY <1>4
  <2>3. CASE j # n
    BY <1>3, <2>1, <2>2, <2>3 DEF Nested
  <2>4. CASE j = n /\ calls[n].ptr = g.ptr
    BY <1>1, <1>2, <2>1, <2>2, <2>4 DEF Nested
  <2>5. CASE j = n /\ calls[n].ptr = Null
    BY <1>1, <1>2, <1>5, <2>1, <2>2, <2>5 DEF Nested
  <2> QED
    BY <1>1, <2>3, <2>4, <2>5
<1>10. F \subseteq allocated'
  BY <1>4
<1>11. \A i \in DOMAIN calls' : FrameBuilt(F, rest, i)'
  <2>1. \A i \in DOMAIN calls : FrameBuilt(F, rest, i)'
    BY <1>7, <1>8
  <2> QED
    BY ONLY <1>2, <2>1
<1>12. \A i, j \in DOMAIN calls' : i < j => Nested(i, j)'
  BY <1>2, <1>9
<1> QED
  BY ONLY <1>6, <1>10, <1>12, <1>11 DEF BuiltSoFar

\* A fresh struct has no string yet, and is younger than every other.
LEMMA AllocStructBuilds ==
  ASSUME HeapInv, AllocStruct, NEW F, NEW rest, BuiltSoFar(F, rest)
  PROVE  BuiltSoFar(F, rest)'
<1> USE NullIsNoBlock
<1>0. PICK n, g : n = Len(calls) /\ g = [Top EXCEPT !.ptr = used, !.step = StepAfter(Top.doc, "struct")]
  OBVIOUS
<1>1. PICK documents : calls \in Seq(Frames(documents))
  BY DEF HeapInv, PlainInv
<1>2. /\ n \in DOMAIN calls /\ Top = calls[n] /\ Top \in Frames(documents) /\ Top.step = "struct" /\ ~Idle
  BY <1>0, <1>1, TopFacts DEF AllocStruct
<1>3. /\ Malloc /\ calls' = WithTop(g)
      /\ next' = next /\ child' = child /\ valuestring' = valuestring /\ string' = string
  BY <1>0 DEF AllocStruct, fields
<1>4. /\ used \in Blocks \ allocated /\ allocated' = allocated \cup {used}
  BY <1>3, MallocFacts
<1>5. \A b \in allocated : b < used
  BY MaxBlocksAssumption DEF HeapInv, PlainInv
<1>6. PICK own : Trees(allocated, Roots, next, prev, child, valuestring, string, own)
  BY DEF HeapInv
<1>7. valuestring[used] = Null /\ string[used] = Null
  BY <1>4, <1>6, LinkTypes
<1>8. Top.ptr = Null
  BY <1>2 DEF HeapInv, CallsInv, FrameInv
<1>9. /\ g \in Frames(documents) /\ g.ptr = used /\ g.doc = Top.doc /\ g.done = Top.done
      /\ g.tail = Top.tail /\ g.step = StepAfter(Top.doc, "struct")
  <2>1. StepAfter(Top.doc, "struct") \in Steps
    BY StepAfterFacts DEF Steps
  <2> QED
    BY <1>0, <1>2, <1>4, <2>1 DEF Frames, Pointer
<1>10. /\ F \subseteq allocated
       /\ g.step = "value" => Top.doc.value
       /\ g.step \in {"string", "kids"} => ~Top.doc.value
       /\ g.step = "kids" => ~Top.doc.key
  BY <1>9 DEF BuiltSoFar, StepAfter
<1>11. /\ g.step \in {"string", "kids"} => (Top.doc.value <=> valuestring'[g.ptr] # Null)
       /\ g.step = "kids" => (Top.doc.key <=> string'[g.ptr] # Null)
  BY <1>3, <1>7, <1>9, <1>10
<1>12. /\ allocated \subseteq allocated' /\ g.ptr \notin F /\ g.ptr \in Blocks
       /\ Top.ptr = Null => g.ptr \notin allocated /\ \A b \in allocated : b < g.ptr
       /\ \A b \in allocated : b # g.ptr => valuestring'[b] = valuestring[b] /\ string'[b] = string[b]
  BY <1>3, <1>4, <1>5, <1>9, <1>10
<1> QED
  BY <1>1, <1>2, <1>3, <1>8, <1>9, <1>10, <1>11, <1>12, GrantKeepsBuilt

\* The value and the key.
LEMMA StringBuilds ==
  ASSUME HeapInv, ~Idle, Malloc, next' = next, child' = child,
         NEW F, NEW rest, BuiltSoFar(F, rest),
         NEW step \in {"string", "kids"}, calls' = WithTop([Top EXCEPT !.step = step]),
         Top.ptr # Null,
         \A b \in Blocks : b # Top.ptr => valuestring'[b] = valuestring[b] /\ string'[b] = string[b],
         Top.doc.value <=> valuestring'[Top.ptr] # Null,
         step = "kids" => (Top.doc.key <=> string'[Top.ptr] # Null)
  PROVE  BuiltSoFar(F, rest)'
<1> USE NullIsNoBlock
<1>0. PICK n, g : n = Len(calls) /\ g = [Top EXCEPT !.step = step]
  OBVIOUS
<1>1. PICK documents : calls \in Seq(Frames(documents))
  BY DEF HeapInv, PlainInv
<1>2. n \in DOMAIN calls /\ Top = calls[n] /\ Top \in Frames(documents)
  BY <1>0, <1>1, TopFacts
<1>3. /\ g \in Frames(documents) /\ g.ptr = Top.ptr /\ g.doc = Top.doc /\ g.done = Top.done
      /\ g.tail = Top.tail /\ g.step = step /\ calls' = WithTop(g)
  BY <1>0, <1>2 DEF Frames, Steps
<1>4. /\ allocated \subseteq allocated' /\ g.ptr \notin F /\ g.ptr \in Blocks /\ allocated \subseteq Blocks
  <2>1. Top.ptr \in allocated /\ allocated \subseteq Blocks
    BY <1>2, HeapFacts DEF HeapInv, CallsInv, FrameInv
  <2>2. Top.ptr \notin F
    BY <1>2 DEF BuiltSoFar, FrameBuilt, FrameSays
  <2> QED
    BY <1>3, <2>1, <2>2, MallocFacts
<1>5. \A b \in allocated : b # g.ptr => valuestring'[b] = valuestring[b] /\ string'[b] = string[b]
  BY <1>3, <1>4
<1>6. /\ g.step # "value"
      /\ g.step \in {"string", "kids"} => (Top.doc.value <=> valuestring'[g.ptr] # Null)
      /\ g.step = "kids" => (Top.doc.key <=> string'[g.ptr] # Null)
  BY <1>3
<1> QED
  BY <1>1, <1>3, <1>4, <1>5, <1>6, GrantKeepsBuilt

LEMMA AllocValueBuilds ==
  ASSUME HeapInv, AllocValue, NEW F, NEW rest, BuiltSoFar(F, rest)
  PROVE  BuiltSoFar(F, rest)'
<1> USE NullIsNoBlock
<1>0. PICK n, step : n = Len(calls) /\ step = StepAfter(Top.doc, "value")
  OBVIOUS
<1>1. PICK documents : calls \in Seq(Frames(documents))
  BY DEF HeapInv, PlainInv
<1>2. n \in DOMAIN calls /\ Top = calls[n] /\ Top.step = "value" /\ ~Idle
  BY <1>0, <1>1, TopFacts DEF AllocValue
<1>3. /\ Malloc /\ calls' = WithTop([Top EXCEPT !.step = step])
      /\ next' = next /\ child' = child /\ string' = string
      /\ valuestring' = [valuestring EXCEPT ![Top.ptr] = used]
  BY <1>0 DEF AllocValue
<1>4. used \in Blocks /\ used # Null
  BY <1>3, MallocFacts
<1>5. PICK own : Trees(allocated, Roots, next, prev, child, valuestring, string, own)
  BY DEF HeapInv
<1>6. Top.ptr # Null /\ Top.ptr \in Blocks /\ string[Top.ptr] = Null /\ valuestring \in [Blocks -> Pointer]
  BY <1>2, <1>5, HeapFacts, LinkTypes DEF HeapInv, CallsInv, FrameInv
<1>7. Top.doc.value
  BY <1>2 DEF BuiltSoFar, FrameBuilt, FrameSays
<1>8. step \in {"string", "kids"} /\ (step = "kids" => ~Top.doc.key)
  BY <1>0 DEF StepAfter
<1>9. /\ \A b \in Blocks : b # Top.ptr => valuestring'[b] = valuestring[b] /\ string'[b] = string[b]
      /\ valuestring'[Top.ptr] = used /\ string'[Top.ptr] = Null
  BY <1>3, <1>6
<1>10. /\ Top.doc.value <=> valuestring'[Top.ptr] # Null
       /\ step = "kids" => (Top.doc.key <=> string'[Top.ptr] # Null)
  BY <1>4, <1>7, <1>8, <1>9
<1> QED
  BY <1>2, <1>3, <1>6, <1>8, <1>9, <1>10, StringBuilds

LEMMA AllocStringBuilds ==
  ASSUME HeapInv, AllocString, NEW F, NEW rest, BuiltSoFar(F, rest)
  PROVE  BuiltSoFar(F, rest)'
<1> USE NullIsNoBlock
<1>0. PICK n : n = Len(calls)
  OBVIOUS
<1>1. PICK documents : calls \in Seq(Frames(documents))
  BY DEF HeapInv, PlainInv
<1>2. n \in DOMAIN calls /\ Top = calls[n] /\ Top.step = "string" /\ ~Idle
  BY <1>0, <1>1, TopFacts DEF AllocString
<1>3. /\ Malloc /\ calls' = WithTop([Top EXCEPT !.step = "kids"])
      /\ next' = next /\ child' = child /\ valuestring' = valuestring
      /\ string' = [string EXCEPT ![Top.ptr] = used]
  BY DEF AllocString
<1>4. used \in Blocks /\ used # Null
  BY <1>3, MallocFacts
<1>5. PICK own : Trees(allocated, Roots, next, prev, child, valuestring, string, own)
  BY DEF HeapInv
<1>6. Top.ptr # Null /\ Top.ptr \in Blocks /\ Top.doc.key /\ string \in [Blocks -> Pointer]
  BY <1>2, <1>5, HeapFacts, LinkTypes DEF HeapInv, CallsInv, FrameInv
<1>7. Top.doc.value <=> valuestring[Top.ptr] # Null
  BY <1>2 DEF BuiltSoFar, FrameBuilt, FrameSays
<1>8. /\ \A b \in Blocks : b # Top.ptr => valuestring'[b] = valuestring[b] /\ string'[b] = string[b]
      /\ valuestring'[Top.ptr] = valuestring[Top.ptr] /\ string'[Top.ptr] = used
  BY <1>3, <1>6
<1>9. /\ Top.doc.value <=> valuestring'[Top.ptr] # Null
      /\ Top.doc.key <=> string'[Top.ptr] # Null
  BY <1>4, <1>6, <1>7, <1>8
<1> QED
  BY <1>2, <1>3, <1>6, <1>8, <1>9, StringBuilds

\* A frame for the next child, which is still all to build.
LEMMA NewFrameSays ==
  ASSUME NEW doc \in Docs, NEW F, F \subseteq Blocks, NEW rest, NEW first, NEW value, NEW key
  PROVE  FrameSays(F, rest, Frame(doc), first, value, key)
<1>1. /\ Frame(doc).doc = doc /\ Frame(doc).ptr = Null /\ Frame(doc).step = "struct"
      /\ Frame(doc).done = 0 /\ Frame(doc).tail = Null
  BY DEF Frame
<1>2. 0 \in 0 .. Len(doc.kids)
  BY DocFacts
<1> QED
  BY <1>1, <1>2, NullIsNoBlock DEF FrameSays

\* The child the struct on top is at.
LEMMA NextKidBuilds ==
  ASSUME HeapInv, NextKid, NEW F, NEW rest, BuiltSoFar(F, rest)
  PROVE  BuiltSoFar(F, rest)'
<1> USE NullIsNoBlock
<1>0. PICK n, doc : n = Len(calls) /\ doc = Top.doc.kids[Top.done + 1]
  OBVIOUS
<1>1. PICK documents : calls \in Seq(Frames(documents))
  BY DEF HeapInv, PlainInv
<1>2. /\ n \in DOMAIN calls /\ n \in Nat /\ Top = calls[n] /\ Top \in Frames(documents) /\ DOMAIN calls = 1 .. n
      /\ calls' = Append(calls, Frame(doc)) /\ Top.done < Len(Top.doc.kids)
      /\ allocated' = allocated /\ next' = next /\ child' = child
      /\ valuestring' = valuestring /\ string' = string
  BY <1>0, <1>1, TopFacts DEF NextKid, heap, blocks, fields
<1>3. /\ F \subseteq allocated /\ \A b \in F : LinkedInv(F, rest, b)
      /\ \A i \in DOMAIN calls : FrameBuilt(F, rest, i)
      /\ \A i, j \in DOMAIN calls : i < j => Nested(i, j)
  BY DEF BuiltSoFar
<1>4. doc \in Docs
  <2>1. Top.doc \in Docs /\ Top.done \in 0 .. Len(Top.doc.kids)
    BY <1>2, <1>3 DEF FrameBuilt, FrameSays
  <2>2. Top.doc.kids \in Seq(Docs)
    BY <2>1, DocFacts
  <2> QED
    BY <1>0, <1>2, <2>1, <2>2
<1>5. F \subseteq Blocks
  BY <1>3, HeapFacts
<1>6. /\ DOMAIN calls' = DOMAIN calls \cup {n + 1} /\ n + 1 \notin DOMAIN calls
      /\ calls'[n + 1] = Frame(doc) /\ \A i \in DOMAIN calls : calls'[i] = calls[i]
  <2> DEFINE S == Frames(documents) \cup {Frame(doc)}
  <2>1. calls \in Seq(S)
    BY <1>1, SeqWiden
  <2> QED
    BY <1>0, <1>2, <2>1, PushFacts
<1>7. \A b \in F : LinkedInv(F, rest, b)'
  <2> SUFFICES ASSUME NEW b \in F PROVE LinkedInv(F, rest, b)'
    OBVIOUS
  <2>1. LinkedInv(F, rest, b)
    BY <1>3
  <2>2. Says(rest[b][1], b)'
    BY <1>2, <2>1 DEF LinkedInv, Says
  <2>3. (\E i \in DOMAIN calls : calls[i].tail = b) => (\E i \in DOMAIN calls' : calls'[i].tail = b)
    BY <1>6
  <2> QED
    BY <1>2, <2>1, <2>2, <2>3 DEF LinkedInv
<1>8. \A i \in DOMAIN calls : FrameBuilt(F, rest, i)'
  BY <1>2, <1>3, <1>6 DEF FrameBuilt
<1>9. FrameBuilt(F, rest, n + 1)'
  BY <1>4, <1>5, <1>6, NewFrameSays DEF FrameBuilt
<1>10. \A i \in DOMAIN calls' : FrameBuilt(F, rest, i)'
  BY <1>6, <1>8, <1>9
<1>11. \A i, j \in DOMAIN calls' : i < j => Nested(i, j)'
  <2> SUFFICES ASSUME NEW i \in DOMAIN calls', NEW j \in DOMAIN calls', i < j PROVE Nested(i, j)'
    OBVIOUS
  <2>1. i \in DOMAIN calls /\ calls'[i] = calls[i]
    BY <1>2, <1>6
  <2>2. CASE j \in DOMAIN calls
    <3>1. Nested(i, j) /\ calls'[j] = calls[j]
      BY <1>3, <1>6, <2>1, <2>2
    <3> QED
      BY <2>1, <3>1 DEF Nested
  <2>3. CASE j = n + 1
    <3>1. calls'[j] = Frame(doc) /\ Frame(doc).ptr = Null /\ Frame(doc).doc = doc
      BY <1>6, <2>3, FrameFacts
    <3>2. j = i + 1 => i = n
      BY <1>2, <2>1, <2>3
    <3> QED
      BY <1>0, <1>2, <2>1, <3>1, <3>2 DEF Nested
  <2> QED
    BY <1>6, <2>2, <2>3
<1>12. F \subseteq allocated'
  BY <1>2, <1>3
<1> QED
  BY ONLY <1>7, <1>10, <1>11, <1>12 DEF BuiltSoFar

\* A call begins with nothing linked.
LEMMA StartBuilds ==
  ASSUME NEW doc \in Docs, NEW parent, StartBuild(doc, parent)
  PROVE  BuildInv'
<1>1. calls' = <<Frame(doc)>>
  BY DEF StartBuild
<1>2. DOMAIN calls' = {1} /\ calls'[1] = Frame(doc)
  BY <1>1
<1>3. \A i \in DOMAIN calls' : FrameBuilt({}, <<>>, i)'
  <2>1. FrameBuilt({}, <<>>, 1)'
    BY <1>2, NewFrameSays DEF FrameBuilt
  <2> QED
    BY <1>2, <2>1
<1>4. \A i, j \in DOMAIN calls' : i < j => Nested(i, j)'
  BY <1>2
<1>5. BuiltSoFar({}, <<>>)'
  BY <1>3, <1>4 DEF BuiltSoFar
<1> QED
  BY <1>5 DEF BuildInv

\* No call is under way.
LEMMA NothingToBuild ==
  ASSUME calls' = <<>>
  PROVE  BuildInv'
<1>1. BuiltSoFar({}, <<>>)'
  BY DEF BuiltSoFar
<1> QED
  BY <1>1 DEF BuildInv

\* A child that is complete takes its place: it spells what its parent has left.
LEMMA FinishKidBuilds ==
  ASSUME HeapInv, FinishKid, NEW F, NEW rest, BuiltSoFar(F, rest)
  PROVE  \E F2, rest2 : BuiltSoFar(F2, rest2)'
<1> USE NullIsNoBlock
<1>0. PICK n, above, kid, p, t, g, left :
        /\ n = Len(calls) /\ above = Last(Front(calls)) /\ kid = Top.ptr /\ p = above.ptr /\ t = above.tail
        /\ g = [above EXCEPT !.done = @ + 1, !.tail = kid]
        /\ left = Rest(above.doc.kids, above.done)
  OBVIOUS
<1>1. PICK documents : calls \in Seq(Frames(documents))
  BY DEF HeapInv, PlainInv
<1>2. PICK S : S = Frames(documents)
  OBVIOUS
<1>3. /\ LinkKid(above, kid) /\ calls' = Append(Front(Front(calls)), g)
      /\ valuestring' = valuestring /\ string' = string /\ allocated' = allocated
      /\ n > 1 /\ Top.step = "kids" /\ Top.done = Len(Top.doc.kids)
  BY <1>0 DEF FinishKid, blocks, Finished
<1>4. /\ n \in Nat /\ n \in DOMAIN calls /\ n - 1 \in DOMAIN calls /\ DOMAIN calls = 1 .. n
      /\ Top = calls[n] /\ above = calls[n - 1] /\ above \in S /\ calls[n] \in S
      /\ g \in S => /\ DOMAIN calls' = DOMAIN calls \ {n} /\ calls'[n - 1] = g
                    /\ \A i \in DOMAIN calls' : i # n - 1 => calls'[i] = calls[i]
  <2>1. calls \in Seq(S) /\ n = Len(calls) /\ n > 1
    BY <1>0, <1>1, <1>2, <1>3
  <2>2. /\ n \in Nat /\ n \in DOMAIN calls /\ n - 1 \in DOMAIN calls /\ DOMAIN calls = 1 .. n
        /\ \A i \in DOMAIN calls : calls[i] \in S
        /\ Last(calls) = calls[n] /\ Last(Front(calls)) = calls[n - 1]
    BY <2>1, FoldLastFacts
  <2>3. ASSUME g \in S
        PROVE  /\ DOMAIN calls' = DOMAIN calls \ {n} /\ calls'[n - 1] = g
               /\ \A i \in DOMAIN calls' : i # n - 1 => calls'[i] = calls[i]
    <3> DEFINE u == Append(Front(Front(calls)), g)
    <3>1. /\ DOMAIN u = DOMAIN calls \ {n} /\ u[n - 1] = g
          /\ \A i \in DOMAIN u : i # n - 1 => u[i] = calls[i]
      BY <2>1, <2>3, FoldLastFacts
    <3> QED
      BY <1>3, <3>1
  <2> QED
    BY <1>0, <2>2, <2>3 DEF Top
<1>5. /\ g \in S /\ g.ptr = p /\ g.doc = above.doc /\ g.tail = kid /\ g.step = above.step
      /\ g.done = above.done + 1
  <2>1. kid \in Pointer /\ above \in Frames(documents) /\ above.done + 1 \in Nat
    BY <1>0, <1>2, <1>4 DEF Frames
  <2>2. g = [above EXCEPT !.done = above.done + 1, !.tail = kid]
    BY <1>0
  <2> QED
    BY <1>0, <1>2, <2>1, <2>2 DEF Frames
<1>6. /\ DOMAIN calls' = DOMAIN calls \ {n} /\ calls'[n - 1] = g
      /\ \A i \in DOMAIN calls' : i # n - 1 => calls'[i] = calls[i]
  BY <1>4, <1>5
<1>7. /\ F \subseteq allocated /\ \A b \in F : LinkedInv(F, rest, b)
      /\ \A i \in DOMAIN calls : FrameBuilt(F, rest, i)
      /\ \A i, j \in DOMAIN calls : i < j => Nested(i, j)
  BY DEF BuiltSoFar
<1>8. PICK own : Trees(allocated, Roots, next, prev, child, valuestring, string, own)
  BY DEF HeapInv
<1>9. /\ kid \in allocated /\ kid # Null /\ p \in allocated /\ p # Null /\ p # kid /\ above.step = "kids"
      /\ kid \in Roots
      /\ \A i \in DOMAIN calls : i # n - 1 /\ calls[i].ptr # Null => calls[i].ptr # p
      /\ \A i \in DOMAIN calls : i # n /\ calls[i].ptr # Null => calls[i].ptr # kid
      /\ t = Null => child[p] = Null
      /\ t # Null => t \in allocated /\ next[t] = Null
      /\ calls[n].tail = Null => child[kid] = Null
  <2>1. /\ FrameInv(n) /\ FrameInv(n - 1)
        /\ \A i, j \in DOMAIN calls : calls[i].ptr = calls[j].ptr /\ calls[i].ptr # Null => i = j
    BY <1>4 DEF HeapInv, CallsInv
  <2>2. above.step = "kids"
    BY <1>0, <1>4, <2>1 DEF FrameInv
  <2>3. kid # Null /\ p # Null /\ kid \in allocated /\ p \in allocated
    BY <1>0, <1>3, <1>4, <2>1, <2>2 DEF FrameInv
  <2>4. /\ t = Null => child[p] = Null
        /\ t # Null => t \in allocated /\ next[t] = Null
        /\ calls[n].tail = Null => child[kid] = Null
    BY <1>0, <1>4, <2>1, <2>3 DEF FrameInv
  <2>5. p # kid /\ kid \in Roots
    BY <1>0, <1>4, <2>1, <2>3, RootsAre
  <2> QED
    BY <1>0, <1>4, <2>1, <2>2, <2>3, <2>4, <2>5
<1>10. /\ next \in [Blocks -> Pointer] /\ child \in [Blocks -> Pointer] /\ allocated \subseteq Blocks
       /\ next[kid] = Null
  BY <1>8, <1>9, LinkTypes
<1>11. FrameBuilt(F, rest, n) /\ FrameBuilt(F, rest, n - 1) /\ Nested(n - 1, n) /\ n - 1 + 1 = n
  BY <1>4, <1>7
\* What the frames say of the child and of its parent.
<1>12. /\ Top.doc \in Docs /\ above.doc \in Docs /\ kid \notin F /\ p \notin F
       /\ Says(Top.doc, kid)
       /\ above.done \in 0 .. Len(above.doc.kids) /\ above.done < Len(above.doc.kids)
       /\ Top.doc = above.doc.kids[above.done + 1]
       /\ p < kid
  <2>1. Top.doc \in Docs /\ above.doc \in Docs /\ kid \notin F /\ p \notin F /\ Says(Top.doc, kid)
        /\ above.done \in 0 .. Len(above.doc.kids)
    BY <1>0, <1>3, <1>4, <1>11 DEF FrameBuilt, FrameSays, Says
  <2>2. above.done < Len(above.doc.kids) /\ Top.doc = above.doc.kids[above.done + 1] /\ p < kid
    BY <1>0, <1>4, <1>9, <1>11 DEF Nested
  <2> QED
    BY <2>1, <2>2
<1>13. /\ t = Null => above.done = 0
       /\ t # Null => /\ t \in F /\ t < kid /\ Rest(rest[t], 1) = left
                      /\ child[p] \in F /\ p < child[p] /\ rest[child[p]] = above.doc.kids
  <2>1. FrameSays(F, rest, above, child[p], valuestring[p], string[p])
    BY <1>0, <1>4, <1>11 DEF FrameBuilt
  <2>2. t # Null => t < kid
    BY <1>0, <1>4, <1>9, <1>11 DEF Nested
  <2> QED
    BY <1>0, <2>1, <2>2 DEF FrameSays
<1>14. IF child[kid] = Null THEN Top.doc.kids = <<>>
       ELSE child[kid] \in F /\ kid < child[kid] /\ rest[child[kid]] = Top.doc.kids
  <2>1. FrameSays(F, rest, Top, child[kid], valuestring[kid], string[kid])
    BY <1>0, <1>4, <1>11 DEF FrameBuilt
  <2>2. CASE Top.tail = Null
    <3>1. Len(Top.doc.kids) = 0 /\ child[kid] = Null
      BY <1>3, <1>4, <1>9, <2>1, <2>2 DEF FrameSays
    <3>2. Top.doc.kids \in Seq(Docs)
      BY <1>12, DocFacts
    <3> QED
      BY <3>1, <3>2
  <2>3. CASE Top.tail # Null
    <3>1. child[kid] \in F /\ kid < child[kid] /\ rest[child[kid]] = Top.doc.kids
      BY <1>0, <2>1, <2>3 DEF FrameSays
    <3> QED
      BY <1>7, <3>1, HeapFacts
  <2> QED
    BY <2>2, <2>3
<1>15. /\ left \in Seq(Docs) /\ left # <<>> /\ left[1] = Top.doc
       /\ Rest(left, 1) = Rest(above.doc.kids, above.done + 1)
       /\ above.done = 0 => left = above.doc.kids
       /\ above.done + 1 \in 0 .. Len(above.doc.kids)
  <2>1. above.doc.kids \in Seq(Docs)
    BY <1>12, DocFacts
  <2> QED
    BY <1>0, <1>12, <2>1, RestFacts
\* The steps of the pointers.
<1>16. /\ child'[p] = (IF t = Null THEN kid ELSE child[p])
       /\ \A b \in Blocks : b # p => child'[b] = child[b]
       /\ t # Null => next'[t] = kid
       /\ \A b \in Blocks : b # t => next'[b] = next[b]
  BY <1>0, <1>3, <1>9, <1>10 DEF LinkKid
<1>17. PICK F2, rest2 : F2 = F \cup {kid} /\ rest2 = [b \in F2 |-> IF b = kid THEN left ELSE rest[b]]
  OBVIOUS
<1>18. /\ F2 \subseteq allocated /\ F \subseteq F2 /\ kid \in F2 /\ rest2[kid] = left
       /\ \A b \in F : rest2[b] = rest[b] /\ b # kid /\ b # p /\ b \in Blocks
  BY <1>7, <1>9, <1>10, <1>12, <1>17
<1>19. LinkedInv(F2, rest2, kid)'
  <2>1. Says(left[1], kid)'
    BY <1>3, <1>12, <1>15 DEF Says
  <2>2. child'[kid] = child[kid] /\ next'[kid] = Null
    BY <1>9, <1>10, <1>12, <1>13, <1>16
  <2>3. \E i \in DOMAIN calls' : calls'[i].tail = kid
    BY <1>4, <1>5, <1>6
  <2>4. IF child'[kid] = Null THEN left[1].kids = <<>>
        ELSE child'[kid] \in F2 /\ kid < child'[kid] /\ rest2[child'[kid]] = left[1].kids
    BY <1>14, <1>15, <1>18, <2>2
  <2> QED
    BY <1>15, <1>18, <2>1, <2>2, <2>3, <2>4 DEF LinkedInv
<1>20. ASSUME NEW b \in F
       PROVE  LinkedInv(F2, rest2, b)'
  <2>1. LinkedInv(F, rest, b) /\ rest2[b] = rest[b] /\ b # kid /\ b # p /\ b \in Blocks
    BY <1>7, <1>18
  <2>2. Says(rest2[b][1], b)'
    BY <1>3, <2>1 DEF LinkedInv, Says
  <2>3. IF child'[b] = Null THEN rest2[b][1].kids = <<>>
        ELSE child'[b] \in F2 /\ b < child'[b] /\ rest2[child'[b]] = rest2[b][1].kids
    <3>1. child'[b] = child[b]
      BY <1>16, <2>1
    <3> QED
      BY <1>18, <2>1, <3>1 DEF LinkedInv
  <2>4. IF next'[b] = Null THEN Rest(rest2[b], 1) = <<>> \/ \E i \in DOMAIN calls' : calls'[i].tail = b
        ELSE next'[b] \in F2 /\ b < next'[b] /\ rest2[next'[b]] = Rest(rest2[b], 1)
    <3>1. CASE b = t
      BY <1>9, <1>13, <1>16, <1>18, <2>1, <3>1
    <3>2. CASE b # t /\ next[b] # Null
      BY <1>16, <1>18, <2>1, <3>2 DEF LinkedInv
    <3>3. CASE b # t /\ next[b] = Null
      <4>1. next'[b] = Null
        BY <1>16, <2>1, <3>3
      <4>2. CASE Rest(rest[b], 1) = <<>>
        BY <2>1, <4>1, <4>2
      <4>3. CASE \E i \in DOMAIN calls : calls[i].tail = b
        <5>1. PICK i \in DOMAIN calls : calls[i].tail = b
          BY <4>3
        <5>2. CASE i = n
          <6>1. FrameSays(F, rest, Top, child[kid], valuestring[kid], string[kid]) /\ Top.tail = b
            BY <1>0, <1>4, <1>11, <5>1, <5>2 DEF FrameBuilt
          <6>2. Rest(rest[b], 1) = Rest(Top.doc.kids, Len(Top.doc.kids))
            BY <1>3, <2>1, <6>1 DEF FrameSays
          <6>3. Top.doc.kids \in Seq(Docs)
            BY <1>12, DocFacts
          <6>4. Rest(Top.doc.kids, Len(Top.doc.kids)) = <<>>
            BY <6>3, RestFacts
          <6> QED
            BY <2>1, <4>1, <6>2, <6>4
        <5>3. CASE i # n
          <6>1. i # n - 1
            BY <1>0, <1>4, <3>3, <5>1
          <6> QED
            BY <1>6, <4>1, <5>1, <5>3, <6>1
        <5> QED
          BY <5>2, <5>3
      <4> QED
        BY <2>1, <3>3, <4>2, <4>3 DEF LinkedInv
    <3> QED
      BY <3>1, <3>2, <3>3
  <2> QED
    BY <2>1, <2>2, <2>3, <2>4 DEF LinkedInv
<1>21. ASSUME NEW i \in DOMAIN calls', i # n - 1
       PROVE  FrameBuilt(F2, rest2, i)'
  <2>1. /\ i \in DOMAIN calls /\ i # n /\ calls'[i] = calls[i]
        /\ FrameSays(F, rest, calls[i], child[calls[i].ptr], valuestring[calls[i].ptr], string[calls[i].ptr])
    BY <1>6, <1>7, <1>21 DEF FrameBuilt
  <2>2. calls[i].step = "kids" /\ calls[i].ptr # Null /\ calls[i].ptr \in Blocks
    BY <1>0, <1>10, <2>1 DEF HeapInv, CallsInv, FrameInv
  <2>3. calls[i].ptr # p /\ calls[i].ptr # kid /\ child'[calls[i].ptr] = child[calls[i].ptr]
    BY <1>9, <1>16, <1>21, <2>1, <2>2
  <2>4. FrameSays(F2, rest2, calls[i], child[calls[i].ptr], valuestring[calls[i].ptr], string[calls[i].ptr])
    BY <1>17, <1>18, <2>1, <2>3 DEF FrameSays
  <2> QED
    BY <1>3, <2>1, <2>3, <2>4 DEF FrameBuilt
<1>22. FrameBuilt(F2, rest2, n - 1)'
  <2>1. FrameSays(F, rest, above, child[p], valuestring[p], string[p])
    BY <1>0, <1>4, <1>11 DEF FrameBuilt
  <2>2. /\ child'[p] \in F2 /\ p < child'[p] /\ rest2[child'[p]] = above.doc.kids
    BY <1>12, <1>13, <1>15, <1>16, <1>18
  <2>3. above.done + 1 # 0 /\ p \notin F2 /\ Rest(rest2[kid], 1) = Rest(above.doc.kids, above.done + 1)
    BY <1>9, <1>12, <1>15, <1>17, <1>18
  <2>4. /\ g.step # "value" /\ g.step = "kids"
        /\ (g.doc.value <=> valuestring[p] # Null) /\ (g.doc.key <=> string[p] # Null)
    BY <1>5, <1>9, <2>1 DEF FrameSays
  <2>5. FrameSays(F2, rest2, g, child'[p], valuestring[p], string[p])
    BY <1>5, <1>9, <1>12, <1>15, <1>18, <2>2, <2>3, <2>4 DEF FrameSays
  <2> QED
    BY <1>3, <1>5, <1>6, <2>5 DEF FrameBuilt
<1>23. \A i, j \in DOMAIN calls' : i < j => Nested(i, j)'
  <2> SUFFICES ASSUME NEW i \in DOMAIN calls', NEW j \in DOMAIN calls', i < j PROVE Nested(i, j)'
    OBVIOUS
  <2>1. i \in DOMAIN calls /\ j \in DOMAIN calls /\ i # n - 1 /\ calls'[i] = calls[i] /\ Nested(i, j)
    BY <1>4, <1>6, <1>7
  <2>2. calls'[j].doc = calls[j].doc /\ calls'[j].ptr = calls[j].ptr
    BY <1>0, <1>4, <1>5, <1>6, <2>1
  <2> QED
    BY <2>1, <2>2 DEF Nested
<1>24. (F2 \subseteq allocated)' /\ \A b \in F2 : LinkedInv(F2, rest2, b)'
  BY <1>3, <1>17, <1>18, <1>19, <1>20
<1>25. \A i \in DOMAIN calls' : FrameBuilt(F2, rest2, i)'
  BY <1>21, <1>22
<1>26. BuiltSoFar(F2, rest2)'
  BY ONLY <1>23, <1>24, <1>25 DEF BuiltSoFar
<1> QED
  BY ONLY <1>26

\* A step of a build keeps the labels; a refusal ends it, and between calls there are none.
LEMMA BuildStep ==
  ASSUME HeapInv, BuildInv, [HeapNext]_hvars
  PROVE  BuildInv'
<1>1. CASE UNCHANGED hvars
  <2>1. /\ refused' = refused /\ allocated' = allocated /\ calls' = calls /\ next' = next /\ child' = child
        /\ valuestring' = valuestring /\ string' = string
    BY <1>1 DEF hvars, heap, blocks, fields
  <2>2. SUFFICES ASSUME NEW F, NEW rest, BuiltSoFar(F, rest) PROVE BuiltSoFar(F, rest)'
    BY <2>1 DEF BuildInv
  <2>3. \A b \in F : Says(rest[b][1], b) => Says(rest[b][1], b)'
    BY <2>1 DEF Says
  <2>4. \A b \in F : LinkedInv(F, rest, b)'
    BY <2>1, <2>2, <2>3 DEF BuiltSoFar, LinkedInv
  <2>5. \A i \in DOMAIN calls' : FrameBuilt(F, rest, i)'
    BY <2>1, <2>2 DEF BuiltSoFar, FrameBuilt
  <2>6. \A i, j \in DOMAIN calls' : i < j => Nested(i, j)'
    BY <2>1, <2>2 DEF BuiltSoFar, Nested
  <2>7. F \subseteq allocated'
    BY <2>1, <2>2 DEF BuiltSoFar
  <2> QED
    BY <2>4, <2>5, <2>6, <2>7 DEF BuiltSoFar
<1>2. CASE AllocStruct
  <2>1. PICK F, rest : BuiltSoFar(F, rest)
    BY <1>2 DEF BuildInv, AllocStruct
  <2> QED
    BY <1>2, <2>1, AllocStructBuilds DEF BuildInv
<1>3. CASE AllocValue
  <2>1. PICK F, rest : BuiltSoFar(F, rest)
    BY <1>3 DEF BuildInv, AllocValue
  <2> QED
    BY <1>3, <2>1, AllocValueBuilds DEF BuildInv
<1>4. CASE AllocString
  <2>1. PICK F, rest : BuiltSoFar(F, rest)
    BY <1>4 DEF BuildInv, AllocString
  <2> QED
    BY <1>4, <2>1, AllocStringBuilds DEF BuildInv
<1>5. CASE Refuse
  BY <1>5 DEF Refuse, BuildInv
<1>6. CASE NextKid
  <2>1. PICK F, rest : BuiltSoFar(F, rest)
    BY <1>6 DEF BuildInv, NextKid
  <2> QED
    BY <1>6, <2>1, NextKidBuilds DEF BuildInv
<1>7. CASE FinishKid
  <2>1. PICK F, rest : BuiltSoFar(F, rest)
    BY <1>7 DEF BuildInv, FinishKid, Finished
  <2> QED
    BY <1>7, <2>1, FinishKidBuilds DEF BuildInv
<1>8. CASE Finish
  BY <1>8, NothingToBuild DEF Finish
<1>9. CASE Unwind
  <2>1. CASE Len(calls) > 1
    BY <1>9, <2>1 DEF Unwind, BuildInv
  <2>2. CASE ~(Len(calls) > 1)
    <3>1. PICK documents : calls \in Seq(Frames(documents))
      BY DEF HeapInv, PlainInv
    <3>2. calls # <<>> /\ calls' = Front(calls)
      BY <1>9 DEF Unwind, Idle
    <3>3. Front(calls) \in Seq(Frames(documents)) /\ Len(Front(calls)) = Len(calls) - 1 /\ Len(calls) \in Nat \ {0}
      BY <3>1, <3>2, PopFacts
    <3>4. calls' = <<>>
      BY <2>2, <3>2, <3>3
    <3> QED
      BY <3>4, NothingToBuild
  <2> QED
    BY <2>1, <2>2
<1>10. CASE Idle /\ NextCall
  <2>1. CASE \E doc \in Docs : HooksMatch /\ CreateItem(doc)
    BY <2>1, StartBuilds DEF CreateItem
  <2>2. CASE \E object \in HeldStructs, doc \in Docs : HooksMatch /\ AddNewToObject(object, doc)
    BY <2>2, StartBuilds DEF AddNewToObject
  <2>3. CASE \E text \in Texts, doc \in Docs : HooksMatch /\ ParseText(text, doc)
    BY <2>3, StartBuilds DEF ParseText
  <2>4. CASE \E text \in Texts : RejectText(text)
    BY <1>10, <2>4, NothingToBuild DEF RejectText, Idle
  <2>5. CASE ParseNull
    BY <1>10, <2>5, NothingToBuild DEF ParseNull, Idle
  <2>6. CASE \E malloc, free \in Allocators : InitHooks(malloc, free)
    BY <1>10, <2>6, NothingToBuild DEF InitHooks, Idle
  <2>7. CASE \E item \in held : MayDelete(item) /\ DeleteItem(item)
    BY <1>10, <2>7, NothingToBuild DEF DeleteItem, Idle
  <2>8. CASE \E item \in held : \E parent \in HeldStructs \ Reach(item, <<next, child>>) :
               AddItemToArray(parent, item) \/ AddItemToObject(parent, item)
    BY <1>10, <2>8, NothingToBuild DEF AddItemToArray, AddItemToObject, Idle
  <2> QED
    BY <1>10, <2>1, <2>2, <2>3, <2>4, <2>5, <2>6, <2>7, <2>8 DEF NextCall
<1> QED
  BY <1>1, <1>2, <1>3, <1>4, <1>5, <1>6, <1>7, <1>8, <1>9, <1>10 DEF HeapNext

\* The function SpelledFrom defines.
SpelledOf(first) ==
  CHOOSE spelled : spelled = [b \in Reach(first, <<next, child>>) \cup {Null} |-> SpelledAt(spelled, b)]

LEMMA SpelledIs == \A first : SpelledFrom(first) = SpelledOf(first)[first]
BY Zenon DEF SpelledFrom, SpelledOf

\* What is reached is closed under the pointers followed.
LEMMA ReachCloses ==
  ASSUME NEW first, next \in [Blocks -> Pointer], child \in [Blocks -> Pointer]
  PROVE  /\ Reach(first, <<next, child>>) \subseteq Blocks
         /\ \A b \in Reach(first, <<next, child>>) :
              /\ next[b] \in Reach(first, <<next, child>>) \cup {Null}
              /\ child[b] \in Reach(first, <<next, child>>) \cup {Null}
<1> DEFINE fs == <<next, child>>
           Closeds == {S \in SUBSET Blocks :
                         first \in S /\ \A m \in S, i \in DOMAIN fs : fs[i][m] \in S \cup {Null}}
<1>1. Reach(first, fs) = {m \in Blocks : \A S \in Closeds : m \in S}
  BY DEF Reach
<1>2. \A S \in Closeds : \A m \in S : next[m] \in S \cup {Null} /\ child[m] \in S \cup {Null}
  <2> SUFFICES ASSUME NEW S \in Closeds, NEW m \in S
               PROVE  next[m] \in S \cup {Null} /\ child[m] \in S \cup {Null}
    OBVIOUS
  <2>1. fs[1] = next /\ fs[2] = child /\ 1 \in DOMAIN fs /\ 2 \in DOMAIN fs
    OBVIOUS
  <2>2. fs[1][m] \in S \cup {Null} /\ fs[2][m] \in S \cup {Null}
    <3> HIDE DEF fs
    <3> QED
      BY <2>1
  <2> QED
    BY <2>1, <2>2
<1> HIDE DEF fs, Closeds
<1>3. Reach(first, fs) \subseteq Blocks
  BY <1>1
<1>4. ASSUME NEW b \in Reach(first, fs)
      PROVE  next[b] \in Reach(first, fs) \cup {Null} /\ child[b] \in Reach(first, fs) \cup {Null}
  BY <1>1, <1>2, <1>4 DEF Pointer
<1> QED
  BY <1>3, <1>4 DEF fs

\* Pointers below a struct that is complete lead to younger ones, so there is one
\* function of that sort, and it tells what was to be built.
LEMMA FinishedSpells ==
  ASSUME HeapInv, Finished, NEW F, NEW rest, BuiltSoFar(F, rest)
  PROVE  SpelledFrom(Top.ptr) = <<Top.doc>>
<1> USE NullIsNoBlock
<1>0. PICK n, top, G : n = Len(calls) /\ top = Top.ptr /\ G = Reach(top, <<next, child>>)
  OBVIOUS
<1>1. PICK documents : calls \in Seq(Frames(documents))
  BY DEF HeapInv, PlainInv
<1>2. /\ n \in Nat /\ n \in DOMAIN calls /\ DOMAIN calls = 1 .. n /\ Top = calls[n]
      /\ Top.step = "kids" /\ Top.done = Len(Top.doc.kids)
  BY <1>0, <1>1, TopFacts DEF Finished
<1>3. /\ F \subseteq allocated /\ \A b \in F : LinkedInv(F, rest, b)
      /\ \A i \in DOMAIN calls : FrameBuilt(F, rest, i)
      /\ \A i, j \in DOMAIN calls : i < j => Nested(i, j)
  BY DEF BuiltSoFar
<1>4. PICK own : Trees(allocated, Roots, next, prev, child, valuestring, string, own)
  BY DEF HeapInv
<1>5. /\ top \in allocated /\ top \in Blocks /\ top # Null /\ next[top] = Null /\ allocated \subseteq Blocks
      /\ Top.tail = Null => child[top] = Null
  <2>1. FrameInv(n)
    BY <1>2 DEF HeapInv, CallsInv
  <2>2. top # Null /\ top \in allocated /\ (Top.tail = Null => child[top] = Null)
    BY <1>0, <1>2, <2>1 DEF FrameInv
  <2>3. top \in Roots
    BY <1>0, <1>2, <2>2, RootsAre
  <2> QED
    BY <1>4, <2>2, <2>3, LinkTypes
<1>6. FrameSays(F, rest, Top, child[top], valuestring[top], string[top])
  BY <1>0, <1>2, <1>3 DEF FrameBuilt
<1>7. Top.doc \in Docs /\ Says(Top.doc, top) /\ Top.doc.kids \in Seq(Docs) /\ top \notin F
  BY <1>0, <1>2, <1>6, DocFacts DEF FrameSays, Says
<1>8. IF child[top] = Null THEN Top.doc.kids = <<>>
      ELSE child[top] \in F /\ top < child[top] /\ rest[child[top]] = Top.doc.kids
  <2>1. CASE Top.tail = Null
    <3>1. Len(Top.doc.kids) = 0
      BY <1>2, <1>6, <2>1 DEF FrameSays
    <3> QED
      BY <1>5, <1>7, <2>1, <3>1
  <2>2. CASE Top.tail # Null
    <3>1. child[top] \in F /\ top < child[top] /\ rest[child[top]] = Top.doc.kids
      BY <1>0, <1>6, <2>2 DEF FrameSays
    <3> QED
      BY <1>3, <1>5, <3>1
  <2> QED
    BY <2>1, <2>2
\* A younger struct whose list ends waits for no sibling.
<1>9. ASSUME NEW b \in F, top < b, next[b] = Null
      PROVE  Rest(rest[b], 1) = <<>>
  <2>1. CASE \E i \in DOMAIN calls : calls[i].tail = b
    <3>1. PICK i \in DOMAIN calls : calls[i].tail = b
      BY <2>1
    <3>2. b # Null /\ b \in Blocks
      BY <1>3, <1>5
    <3>3. i = n
      <4>1. SUFFICES ASSUME i # n PROVE FALSE
        OBVIOUS
      <4>2. Nested(i, n)
        BY <1>2, <1>3, <4>1
      <4>3. b < top
        BY <1>0, <1>2, <1>5, <3>1, <3>2, <4>2 DEF Nested
      <4> QED
        BY <1>5, <1>9, <3>2, <4>3 DEF Blocks
    <3>4. Rest(rest[b], 1) = Rest(Top.doc.kids, Len(Top.doc.kids))
      BY <1>2, <1>6, <3>1, <3>2, <3>3 DEF FrameSays
    <3> QED
      BY <1>7, <3>4, RestFacts
  <2> QED
    BY <1>3, <1>9, <2>1 DEF LinkedInv
<1>10. /\ G \subseteq Blocks /\ top \in G /\ \A b \in G : b = top \/ (b \in F /\ top < b)
       /\ \A b \in G : next[b] \in G \cup {Null} /\ child[b] \in G \cup {Null}
  <2> DEFINE H == {top} \cup {b \in F : top < b}
  <2>1. H \in SUBSET Blocks /\ top \in H
    BY <1>3, <1>5
  <2>2. ASSUME NEW b \in H PROVE next[b] \in H \cup {Null} /\ child[b] \in H \cup {Null}
    <3>1. CASE b = top
      BY <1>5, <1>8, <3>1
    <3>2. CASE b \in F /\ top < b
      <4>1. /\ next[b] = Null \/ (next[b] \in F /\ b < next[b])
            /\ child[b] = Null \/ (child[b] \in F /\ b < child[b])
        BY <1>3, <3>2 DEF LinkedInv
      <4>2. \A x \in F : x # Null /\ x \in Int
        <5>1. \A x \in F : x \in Blocks
          BY <1>3, <1>5
        <5> QED
          BY <5>1 DEF Blocks
      <4>3. top \in Int
        BY <1>5 DEF Blocks
      <4>4. \A x \in F : b < x => top < x
        <5> SUFFICES ASSUME NEW x \in F, b < x PROVE top < x
          OBVIOUS
        <5>1. x \in Int /\ b \in Int
          BY <3>2, <4>2
        <5> QED
          BY ONLY <3>2, <4>3, <5>1, b < x
      <4>5. next[b] \in F => top < next[b]
        BY ONLY <4>1, <4>2, <4>4
      <4>6. child[b] \in F => top < child[b]
        BY ONLY <4>1, <4>2, <4>4
      <4> QED
        BY <4>1, <4>5, <4>6
    <3> QED
      BY <2>2, <3>1, <3>2
  <2> HIDE DEF H
  <2>3. G \subseteq H
    BY <1>0, <2>1, <2>2, StructReach
  <2>4. next \in [Blocks -> Pointer] /\ child \in [Blocks -> Pointer]
    BY <1>4, LinkTypes
  <2>5. G \subseteq Blocks /\ top \in G /\ \A b \in G : next[b] \in G \cup {Null} /\ child[b] \in G \cup {Null}
    BY <1>0, <1>5, <2>4, ReachCloses, ReachStarts
  <2> QED
    BY <2>3, <2>5 DEF H
<1>11. \A b \in G : /\ next[b] # Null => b < next[b]
                    /\ child[b] # Null => b < child[b]
  BY <1>3, <1>5, <1>8, <1>10 DEF LinkedInv
<1>12. PICK told : told = [b \in G \cup {Null} |->
                      IF b = Null THEN <<>> ELSE IF b = top THEN <<Top.doc>> ELSE rest[b]]
  OBVIOUS
<1>13. /\ told[Null] = <<>> /\ told[top] = <<Top.doc>> /\ \A b \in G : b \in F => told[b] = rest[b]
  BY <1>5, <1>7, <1>10, <1>12
<1>14. ASSUME NEW b \in G \cup {Null} PROVE told[b] = SpelledAt(told, b)
  <2>1. CASE b = Null
    BY <1>13, <2>1 DEF SpelledAt
  <2>2. CASE b = top
    <3>1. told[child[top]] = Top.doc.kids
      BY <1>5, <1>8, <1>10, <1>13
    <3>2. SpelledAt(told, b)
            = <<[value |-> valuestring[top] # Null, key |-> string[top] # Null,
                 kids |-> told[child[top]]]>> \o <<>>
      BY <1>5, <1>13, <2>2 DEF SpelledAt
    <3>3. [value |-> valuestring[top] # Null, key |-> string[top] # Null, kids |-> told[child[top]]] = Top.doc
      BY <1>7, <3>1, DocIs
    <3>4. SpelledAt(told, b) = <<Top.doc>> \o <<>>
      BY <3>2, <3>3
    <3> QED
      BY <1>7, <1>13, <2>2, <3>4
  <2>3. CASE b \in G /\ b \in F /\ top < b
    <3>1. /\ rest[b] \in Seq(Docs) /\ rest[b] # <<>> /\ Says(rest[b][1], b) /\ b # Null
          /\ told[b] = rest[b]
      BY <1>3, <1>10, <1>13, <2>3 DEF LinkedInv
    <3>2. rest[b][1] \in Docs /\ <<rest[b][1]>> \o Rest(rest[b], 1) = rest[b]
      BY <3>1, ConsFacts
    <3>3. told[child[b]] = rest[b][1].kids
      BY <1>3, <1>10, <1>13, <2>3 DEF LinkedInv
    <3>4. told[next[b]] = Rest(rest[b], 1)
      BY <1>3, <1>9, <1>10, <1>13, <2>3 DEF LinkedInv
    <3>5. [value |-> valuestring[b] # Null, key |-> string[b] # Null, kids |-> told[child[b]]] = rest[b][1]
      BY <3>1, <3>2, <3>3, DocIs
    <3>6. SpelledAt(told, b)
            = <<[value |-> valuestring[b] # Null, key |-> string[b] # Null,
                 kids |-> told[child[b]]]>> \o told[next[b]]
      BY <3>1 DEF SpelledAt
    <3> QED
      BY <3>1, <3>2, <3>4, <3>5, <3>6
  <2> QED
    BY <1>10, <2>1, <2>2, <2>3
<1>15. told = [b \in G \cup {Null} |-> SpelledAt(told, b)]
  BY <1>12, <1>14
<1>16. PICK spelled : spelled = SpelledOf(top)
  OBVIOUS
<1>17. spelled = [b \in G \cup {Null} |-> SpelledAt(spelled, b)]
  BY <1>0, <1>15, <1>16 DEF SpelledOf
<1>18. spelled[Null] = told[Null]
  BY <1>13, <1>17 DEF SpelledAt
<1>19. \A b \in G : spelled[b] = told[b]
  <2> DEFINE Off == {k \in 0 .. MaxBlocks : \E b \in G : b = MaxBlocks - k /\ spelled[b] # told[b]}
  <2> SUFFICES ASSUME NEW c \in G, spelled[c] # told[c] PROVE FALSE
    OBVIOUS
  <2>1. MaxBlocks - c \in Off /\ Off \subseteq Nat
    BY <1>10, MaxBlocksAssumption DEF Blocks
  <2>2. PICK k \in Off : \A m \in Off : k <= m
    BY <2>1, LeastNatural
  <2>3. PICK b \in G : b = MaxBlocks - k /\ spelled[b] # told[b]
    BY <2>2
  <2>4. ASSUME NEW d \in G, b < d PROVE spelled[d] = told[d]
    <3>1. d \in Blocks /\ b \in Blocks
      BY <1>10
    <3>2. MaxBlocks - d \in 0 .. MaxBlocks /\ d = MaxBlocks - (MaxBlocks - d) /\ ~(k <= MaxBlocks - d)
      BY <2>2, <2>3, <2>4, <3>1, MaxBlocksAssumption DEF Blocks
    <3> QED
      BY <2>2, <3>2
  <2>5. spelled[next[b]] = told[next[b]] /\ spelled[child[b]] = told[child[b]]
    BY <1>10, <1>11, <1>18, <2>4
  <2>6. SpelledAt(spelled, b) = SpelledAt(told, b)
    BY <2>5 DEF SpelledAt
  <2>7. spelled[b] = SpelledAt(spelled, b)
    BY <1>17
  <2> QED
    BY <1>14, <2>3, <2>6, <2>7
<1> QED
  BY <1>0, <1>10, <1>13, <1>16, <1>19, SpelledIs

\* What a call of the interface returns, and every struct it has completed on the
\* way, is the document it was asked for: for all documents, of any depth and length,
\* on a heap of any size and whatever requests are refused meanwhile.
THEOREM BuildsDocuments == HeapSpec => []BuildsTheDocument
<1>1. HeapInit => BuildInv
  <2>1. ASSUME HeapInit PROVE BuiltSoFar({}, <<>>)
    BY <2>1 DEF HeapInit, BuiltSoFar
  <2> QED
    BY <2>1 DEF BuildInv
<1>2. HeapInv /\ BuildInv /\ [HeapNext]_hvars => BuildInv'
  BY BuildStep
<1>3. HeapInv /\ BuildInv => BuildsTheDocument
  <2> SUFFICES ASSUME HeapInv, BuildInv, Finished PROVE SpelledFrom(Top.ptr) = <<Top.doc>>
    BY DEF BuildsTheDocument
  <2>1. PICK F, rest : BuiltSoFar(F, rest)
    BY DEF BuildInv, Finished
  <2> QED
    BY <2>1, FinishedSpells
<1> QED
  BY <1>1, <1>2, <1>3, HeapInvAlways, PTL DEF HeapSpec
=============================================================================
