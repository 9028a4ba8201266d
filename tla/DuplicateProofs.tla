--------------------------- MODULE DuplicateProofs ---------------------------
(***************************************************************************)
(* For every arena, every node and every limit: duplicate leaves a copy    *)
(* that is the source over again, or nothing, and touches no other node.   *)
(*                                                                         *)
(* Each step of the call is two of the edits of ArenaTreesProofs: a new    *)
(* node, and a link to it.  The copy that is not finished is a tree on     *)
(* which those lemmas hold, so the links are well formed all the way.      *)
(***************************************************************************)
EXTENDS ArenaDuplicate, ArenaTreesProofs, SequenceTheorems

-----------------------------------------------------------------------------
(* The inductive invariant. *)

\* The copies whose children are still to be copied.
Open == {pending[i].copy : i \in DOMAIN pending}

Works == [node : InBounds, copy : copies, depth : 0 .. CircularLimit]
Loops == [copy : copies, depth : 0 .. CircularLimit, next : Link, previous : copies \cup {None}]

\* What the work list and the loop say about the call.
WorkInv ==
  /\ DupTypeOK
  /\ pc = "idle" => copies = {} /\ pending = <<>> /\ frame = None
  /\ pc = "pop" => frame = None /\ deep
  /\ pc = "children" => frame \in Loops /\ deep
  /\ pc \in {"done", "refused"} => pending = <<>> /\ frame = None

\* The copies are live, no link leads from them to the other nodes or back, and
\* no list is open in two places.
ApartInv ==
  /\ copies \subseteq Live
  /\ root \in copies
  /\ next[root] = None /\ prev[root] = None
  /\ \A c \in copies : ~isRef[c] /\ {next[c], child[c]} \subseteq copies \cup {None}
  /\ \A n \in InBounds \ copies : {next[n], prev[n], child[n]} \cap copies = {}
  /\ \A i \in DOMAIN pending : child[pending[i].copy] = None
  /\ \A i, j \in DOMAIN pending : i # j => pending[i].copy # pending[j].copy
  /\ pc = "children" =>
       /\ frame.copy \notin Open
       /\ frame.previous = None => child[frame.copy] = None
       /\ frame.previous # None => /\ frame.previous # root
                                   /\ next[frame.previous] = None
                                   /\ ~Unheld(Live, isRef, next, child, frame.previous)

\* c is the copy of n, or neither is there.
Stands(of, c, n) == IF n = None THEN c = None ELSE c \in copies /\ of[c] = n

\* What is finished is as in the source, and what is not is where the loop and the
\* work list say.
Faithful(of) ==
  /\ of \in [copies -> InBounds \ copies]
  /\ of[root] = source
  /\ \A c \in copies : key[c] = key[of[c]]
  /\ \A c \in copies \ Open :
       (pc = "children" => c # frame.copy) =>
         Stands(of, child[c], IF deep THEN child[of[c]] ELSE None)
  /\ \A c \in copies \ {root} :
       (pc = "children" => c # frame.previous) => Stands(of, next[c], next[of[c]])
  /\ \A i \in DOMAIN pending : of[pending[i].copy] = pending[i].node
  /\ pc = "children" =>
       /\ frame.previous = None => frame.next = child[of[frame.copy]]
       /\ frame.previous # None => /\ frame.next = next[of[frame.previous]]
                                   /\ Stands(of, child[frame.copy], child[of[frame.copy]])

\* The list holds all that the call made, which is what discarding it rests on.
BookInv ==
  /\ copies = Made
  /\ pc = "idle" => root = None
  /\ pc # "idle" => root \in InBounds
  /\ pc = "refused" =>
       copies \subseteq deleted /\ \A c \in copies : {next[c], prev[c], child[c], key[c]} = {None}

DupInv ==
  /\ TreeInv
  /\ WorkInv
  /\ pc \in {"pop", "children", "done"} => ApartInv /\ \E of : Faithful(of)

-----------------------------------------------------------------------------
(* Facts about the work list. *)

LEMMA SeqWiden ==
  ASSUME NEW S, NEW T, S \subseteq T, NEW s \in Seq(S)
  PROVE  s \in Seq(T)
OBVIOUS

LEMMA PushFacts ==
  ASSUME NEW S, NEW s \in Seq(S), NEW w \in S
  PROVE  /\ Append(s, w) \in Seq(S)
         /\ Len(s) \in Nat
         /\ DOMAIN s = 1 .. Len(s)
         /\ DOMAIN Append(s, w) = DOMAIN s \cup {Len(s) + 1}
         /\ Len(s) + 1 \notin DOMAIN s
         /\ Append(s, w)[Len(s) + 1] = w
         /\ \A i \in DOMAIN s : Append(s, w)[i] = s[i] /\ s[i] \in S
OBVIOUS

LEMMA PopFacts ==
  ASSUME NEW S, NEW s \in Seq(S), s # <<>>
  PROVE  /\ Front(s) \in Seq(S)
         /\ Len(s) \in DOMAIN s
         /\ Last(s) = s[Len(s)]
         /\ DOMAIN Front(s) = DOMAIN s \ {Len(s)}
         /\ \A i \in DOMAIN s : s[i] \in S
         /\ \A i \in DOMAIN Front(s) : Front(s)[i] = s[i]
<1> DEFINE n == Len(s) - 1
<1>1. /\ n \in Nat /\ 1 \in Int /\ n \in Int /\ \A i \in 1 .. n : s[i] \in S
      /\ Len(s) \in DOMAIN s /\ DOMAIN s = 1 .. Len(s) /\ \A i \in DOMAIN s : s[i] \in S
  OBVIOUS
<1>2. /\ SubSeq(s, 1, n) \in Seq(S)
      /\ Len(SubSeq(s, 1, n)) = IF 1 <= n THEN n - 1 + 1 ELSE 0
      /\ \A i \in 1 .. n - 1 + 1 : SubSeq(s, 1, n)[i] = s[1 + i - 1]
  BY <1>1, SubSeqProperties
<1>3. Front(s) = SubSeq(s, 1, n) /\ Last(s) = s[Len(s)]
  BY DEF Front, Last
<1> DEFINE t == SubSeq(s, 1, n)
<1>4. t \in Seq(S) /\ Len(t) = n /\ DOMAIN t = 1 .. n /\ \A i \in 1 .. n : t[i] = s[i]
  <2> HIDE DEF t, n
  <2>1. /\ t \in Seq(S) /\ Len(t) = (IF 1 <= n THEN n - 1 + 1 ELSE 0)
        /\ \A i \in 1 .. n - 1 + 1 : t[i] = s[1 + i - 1]
    BY <1>2 DEF t
  <2>2. Len(t) = n /\ n - 1 + 1 = n
    BY <1>1, <2>1
  <2>3. \A i \in 1 .. n : t[i] = s[i]
    BY <1>1, <2>1, <2>2
  <2> QED
    BY <2>1, <2>2, <2>3
<1>5. 1 .. n = DOMAIN s \ {Len(s)}
  BY <1>1
<1> HIDE DEF t
<1>6. Front(s) = t
  BY <1>3 DEF t
<1> QED
  BY <1>1, <1>3, <1>4, <1>5, <1>6

-----------------------------------------------------------------------------
(* The edits of the call. *)

\* duplicate_single_node: one more node, a tree of its own that nothing holds.
LEMMA SingleNodeFacts ==
  ASSUME TreeInv, NEW node \in NodeIds, DuplicateSingleNode(node)
  PROVE  /\ size \in NodeIds /\ size \notin InBounds
         /\ size' \in 0 .. MaxNodes
         /\ InBounds' = InBounds \cup {size} /\ Live' = Live \cup {size}
         /\ key' \in [NodeIds -> Keys \cup {None}] /\ isRef' \in [NodeIds -> BOOLEAN]
         /\ key'[size] = key[node] /\ ~isRef'[size]
         /\ \A n \in NodeIds \ {size} : key'[n] = key[n] /\ isRef'[n] = isRef[n]
         /\ next[size] = None /\ prev[size] = None /\ child[size] = None
         /\ Sound(Live', isRef', next, prev, child)
         /\ Unheld(Live', isRef', next, child, size)
         /\ Block(Live', isRef', next, child, {size})
<1>1. /\ size \in 0 .. MaxNodes /\ deleted \subseteq InBounds
      /\ key \in [NodeIds -> Keys \cup {None}] /\ isRef \in [NodeIds -> BOOLEAN]
      /\ child \in [NodeIds -> Link]
  BY DEF TreeInv, BoundsInv, TypeOK, LinksInBounds
<1>2. /\ size \in NodeIds \ Live /\ size \notin InBounds /\ size' \in 0 .. MaxNodes
      /\ InBounds' = InBounds \cup {size} /\ Live' = Live \cup {size}
  BY <1>1, MaxNodesAssumption DEF DuplicateSingleNode, Live, InBounds, NodeIds
<1>3. next[size] = None /\ prev[size] = None /\ child[size] = None
  BY <1>2 DEF TreeInv, Sound, Consistent
<1>4. child = [child EXCEPT ![size] = None]
  BY <1>1, <1>2, <1>3
<1>5. isRef' = [isRef EXCEPT ![size] = FALSE]
  BY DEF DuplicateSingleNode
<1> DEFINE ref2 == isRef'
           ch2 == child
<1>6. /\ Sound(Live, isRef, next, prev, child) /\ FALSE \in BOOLEAN /\ None \in Link
      /\ ref2 = [isRef EXCEPT ![size] = FALSE] /\ ch2 = [child EXCEPT ![size] = None]
  BY <1>4, <1>5 DEF TreeInv, Link
<1>7. /\ Sound(Live \cup {size}, ref2, next, prev, ch2)
      /\ Unheld(Live \cup {size}, ref2, next, ch2, size)
      /\ Block(Live \cup {size}, ref2, next, ch2, {size})
  <2> HIDE DEF ref2, ch2
  <2> QED
    BY <1>2, <1>6, AllocSafe
<1>8. /\ key' \in [NodeIds -> Keys \cup {None}] /\ isRef' \in [NodeIds -> BOOLEAN]
      /\ key'[size] = key[node] /\ ~isRef'[size]
      /\ \A n \in NodeIds \ {size} : key'[n] = key[n] /\ isRef'[n] = isRef[n]
  BY <1>1, <1>2 DEF DuplicateSingleNode
<1> QED
  BY <1>2, <1>3, <1>7, <1>8

LEMMA TypesSay ==
  DupTypeOK <=> /\ TypeOK
                /\ {source, root} \subseteq Link
                /\ deep \in BOOLEAN
                /\ copies \subseteq InBounds
                /\ pending \in Seq(Works)
                /\ frame \in {None} \cup Loops
                /\ pc \in {"idle", "pop", "children", "done", "refused"}
BY DEF DupTypeOK, Works, Loops

\* What every step but a build may rely on.
LEMMA CallTypes ==
  ASSUME DupInv
  PROVE  /\ copies \subseteq InBounds /\ InBounds \subseteq NodeIds /\ Live \subseteq InBounds
         /\ pending \in Seq(Works)
         /\ next \in [NodeIds -> Link] /\ prev \in [NodeIds -> Link] /\ child \in [NodeIds -> Link]
         /\ key \in [NodeIds -> Keys \cup {None}] /\ isRef \in [NodeIds -> BOOLEAN]
         /\ \A n \in NodeIds : {next[n], prev[n], child[n]} \subseteq InBounds \cup {None}
         /\ None \notin NodeIds
         /\ deleted \subseteq InBounds
BY TypesSay, BoundsAreIds, NoneIsNoNode
   DEF DupInv, WorkInv, TreeInv, BoundsInv, TypeOK, LinksInBounds, Live

\* Where a step leaves the arena alone.
LEMMA ArenaSame ==
  ASSUME TreeInv, UNCHANGED vars
  PROVE  TreeInv' /\ Live' = Live /\ InBounds' = InBounds /\ TypeOK'
<1>1. Live' = Live /\ InBounds' = InBounds
  BY DEF vars, Live, InBounds
<1>2. TreeInv'
  BY TreeStep
<1> QED
  BY <1>1, <1>2 DEF TreeInv, BoundsInv

LEMMA DupInitInv == DupInit => DupInv
<1> SUFFICES ASSUME DupInit PROVE DupInv
  OBVIOUS
<1>1. TreeInv /\ TypeOK
  BY TreeInit DEF DupInit, TreeInv, BoundsInv
<1>2. pending \in Seq(Works)
  BY DEF DupInit
<1> QED
  BY <1>1, <1>2, TypesSay DEF DupInit, DupInv, WorkInv, Link

LEMMA BuildKeeps ==
  ASSUME DupInv, Build
  PROVE  DupInv'
<1>1. TreeInv' /\ TypeOK'
  BY TreeStep DEF DupInv, Build, TreeInv, BoundsInv
<1>2. /\ pc = "idle" /\ pc' = "idle" /\ copies' = {} /\ pending' = <<>> /\ frame' = None
      /\ {source', root'} \subseteq Link /\ deep' \in BOOLEAN
  BY TypesSay DEF DupInv, WorkInv, Build, call
<1>3. copies' \subseteq InBounds' /\ pending' \in Seq(Works')
  BY <1>2
<1>4. DupTypeOK'
  BY <1>1, <1>2, <1>3 DEF DupTypeOK, Works
<1> QED
  BY <1>1, <1>2, <1>4 DEF DupInv, WorkInv

\* The one step that starts a call: the copy of the source stands alone.
LEMMA DuplicateKeeps ==
  ASSUME DupInv, NEW node \in NodeIds, NEW recurse \in BOOLEAN, Duplicate(node, recurse)
  PROVE  DupInv' /\ \A of : of = [c \in {size} |-> node] => Faithful(of)'
<1> USE NoneIsNoNode
<1>1. /\ TreeInv /\ pc = "idle" /\ copies = {} /\ frame' = None /\ node \in Live
      /\ source' = node /\ deep' = recurse /\ root' = size /\ copies' = {size}
      /\ next' = next /\ prev' = prev /\ child' = child /\ deleted' = deleted
      /\ DuplicateSingleNode(node)
  BY DEF DupInv, WorkInv, Duplicate, DuplicateSingleNode, links
<1>2. /\ size \in NodeIds /\ size \notin InBounds /\ size' \in 0 .. MaxNodes
      /\ InBounds' = InBounds \cup {size} /\ Live' = Live \cup {size}
      /\ key' \in [NodeIds -> Keys \cup {None}] /\ isRef' \in [NodeIds -> BOOLEAN]
      /\ key'[size] = key[node] /\ ~isRef'[size]
      /\ \A n \in NodeIds \ {size} : key'[n] = key[n] /\ isRef'[n] = isRef[n]
      /\ next[size] = None /\ prev[size] = None /\ child[size] = None
      /\ Sound(Live', isRef', next, prev, child)
  BY <1>1, SingleNodeFacts
<1>3. /\ InBounds \subseteq NodeIds /\ node \in InBounds
      /\ next \in [NodeIds -> Link] /\ prev \in [NodeIds -> Link] /\ child \in [NodeIds -> Link]
      /\ \A n \in NodeIds : {next[n], prev[n], child[n]} \subseteq InBounds \cup {None}
      /\ deleted \subseteq InBounds
  BY <1>1, CallTypes
<1>4. TreeInv'
  <2>1. Within(next', InBounds') /\ Within(prev', InBounds') /\ Within(child', InBounds')
    BY <1>1, <1>2, <1>3 DEF Within
  <2>2. BoundsInv'
    BY <1>1, <1>2, <1>3, <2>1, WithinIsBoundsInv
  <2> QED
    BY <1>1, <1>2, <2>2 DEF TreeInv
<1>5. \/ recurse /\ pending' = <<Work(node, size, 0)>> /\ pc' = "pop"
      \/ ~recurse /\ pending' = <<>> /\ pc' = "done"
  BY DEF Duplicate
<1>6. Work(node, size, 0) \in Works'
  BY <1>1, <1>2, <1>3, CircularLimitAssumption DEF Work, Works
<1>7. pending' \in Seq(Works')
  <2> DEFINE S == Works'
             w == Work(node, size, 0)
  <2>1. w \in S /\ (pending' = <<w>> \/ pending' = <<>>)
    BY <1>5, <1>6
  <2> HIDE DEF S, w
  <2>2. <<w>> \in Seq(S)
    BY <2>1
  <2>3. <<>> \in Seq(S)
    OBVIOUS
  <2>4. pending' \in Seq(S)
    BY <2>1, <2>2, <2>3
  <2> QED
    BY <2>4 DEF S
<1>8. DupTypeOK'
  <2>1. TypeOK'
    BY <1>4 DEF TreeInv, BoundsInv
  <2> QED
    BY <1>1, <1>2, <1>3, <1>5, <1>7, <2>1 DEF DupTypeOK, Works, Link
<1>9. WorkInv'
  BY <1>1, <1>5, <1>8 DEF WorkInv
<1>10. \A i \in DOMAIN pending' : i = 1 /\ pending'[i] = Work(node, size, 0)
  BY <1>5
<1>11. ApartInv'
  <2>1. child'[size] = None /\ next'[size] = None
    BY <1>1, <1>2
  <2>2. \A n \in InBounds' \ copies' : {next'[n], prev'[n], child'[n]} \cap copies' = {}
    BY <1>1, <1>2, <1>3
  <2>3. \A i \in DOMAIN pending' : child'[pending'[i].copy] = None
    BY <1>10, <2>1 DEF Work
  <2>4. /\ copies' \subseteq Live' /\ root' \in copies' /\ next'[root'] = None /\ prev'[root'] = None
        /\ \A c \in copies' : ~isRef'[c] /\ {next'[c], child'[c]} \subseteq copies' \cup {None}
    BY <1>1, <1>2
  <2> QED
    BY <1>5, <1>10, <2>2, <2>3, <2>4 DEF ApartInv
<1>12. ASSUME NEW of, of = [c \in {size} |-> node] PROVE Faithful(of)'
  <2>1. of \in [copies' -> InBounds' \ copies'] /\ of[size] = node
    BY <1>1, <1>2, <1>3, <1>12
  <2>2. key'[size] = key'[node]
    BY <1>2, <1>3
  <2>3. \A c \in copies' \ Open' : ~deep' /\ child'[c] = None
    BY <1>1, <1>2, <1>5, <1>10 DEF Open, Work
  <2>4. \A i \in DOMAIN pending' : of[pending'[i].copy] = pending'[i].node
    BY <1>10, <2>1 DEF Work
  <2>5. Faithful(of)'
    BY <1>1, <1>2, <1>5, <2>1, <2>2, <2>3, <2>4 DEF Faithful, Stands
  <2> QED
    BY <2>5
<1>13. \E of : Faithful(of)'
  <2>1. PICK of : of = [c \in {size} |-> node]
    OBVIOUS
  <2> QED
    BY <1>12, <2>1
<1> QED
  BY <1>4, <1>9, <1>11, <1>12, <1>13 DEF DupInv

LEMMA PopKeeps ==
  ASSUME DupInv, PopPending
  PROVE  DupInv' /\ \A of : Faithful(of) => Faithful(of)'
<1>1. /\ pc = "pop" /\ pc' = "children" /\ pending # <<>> /\ pending' = Front(pending)
      /\ copies' = copies /\ source' = source /\ deep' = deep /\ root' = root
      /\ next' = next /\ prev' = prev /\ child' = child /\ key' = key /\ isRef' = isRef
  BY DEF PopPending, call, vars
<1>2. /\ TreeInv' /\ Live' = Live /\ InBounds' = InBounds /\ TypeOK'
  BY ArenaSame DEF DupInv, PopPending
<1>3. /\ pending \in Seq(Works) /\ InBounds \subseteq NodeIds /\ copies \subseteq InBounds
      /\ child \in [NodeIds -> Link] /\ None \notin NodeIds
  BY CallTypes
<1> DEFINE w == Last(pending)
           top == Len(pending)
<1>4. /\ pending' \in Seq(Works) /\ top \in DOMAIN pending /\ w = pending[top]
      /\ DOMAIN pending' = DOMAIN pending \ {top}
      /\ \A i \in DOMAIN pending : pending[i] \in Works
      /\ \A i \in DOMAIN pending' : pending'[i] = pending[i]
  BY <1>1, <1>3, PopFacts
<1>5. frame' = Loop(w)
  BY DEF PopPending
<1> HIDE DEF w, top
<1>6. /\ frame'.copy = pending[top].copy /\ frame'.copy \in copies
      /\ frame'.next = child[pending[top].node] /\ frame'.previous = None
  BY <1>4, <1>5 DEF Loop, Works
<1>7. frame' \in Loops'
  <2>1. child[w.node] \in Link /\ w.copy \in copies /\ w.depth \in 0 .. CircularLimit
    BY <1>3, <1>4 DEF Works
  <2> QED
    BY <1>1, <1>5, <2>1 DEF Loop, Loops
<1>8. WorkInv'
  <2>1. Works' = Works
    BY <1>1, <1>2 DEF Works
  <2>2. /\ {source', root'} \subseteq Link /\ deep' \in BOOLEAN /\ copies' \subseteq InBounds' /\ deep'
    BY <1>1, <1>2, <1>3, TypesSay DEF DupInv, WorkInv
  <2>3. DupTypeOK'
    BY <1>1, <1>2, <1>4, <1>7, <2>1, <2>2 DEF DupTypeOK, Works, Loops
  <2> QED
    BY <1>1, <1>7, <2>2, <2>3 DEF WorkInv
<1>9. Open = Open' \cup {frame'.copy} /\ frame'.copy \notin Open'
  <2>1. \A i \in DOMAIN pending' : pending'[i].copy # frame'.copy
    BY <1>1, <1>4, <1>6 DEF DupInv, ApartInv
  <2>2. \A c : c \in Open <=> c \in Open' \/ c = frame'.copy
    BY <1>4, <1>6 DEF Open
  <2> QED
    BY <2>1, <2>2 DEF Open
<1>10. ApartInv'
  <2>1. child[frame'.copy] = None
    BY <1>1, <1>4, <1>6 DEF DupInv, ApartInv
  <2> QED
    BY <1>1, <1>2, <1>4, <1>6, <1>9, <2>1 DEF DupInv, ApartInv
<1>11. ASSUME NEW of, Faithful(of) PROVE Faithful(of)'
  <2>1. Faithful(of)
    BY <1>11
  <2>2. frame'.next = child[of[frame'.copy]]
    BY <1>4, <1>6, <2>1 DEF Faithful
  <2>3. \A c \in copies \ Open' : c # frame'.copy => Stands(of, child[c], IF deep THEN child[of[c]] ELSE None)
    BY <1>1, <1>9, <2>1 DEF Faithful
  <2>4. \A c \in copies \ {root} : Stands(of, next[c], next[of[c]])
    BY <1>1, <2>1 DEF Faithful
  <2>5. \A c, n : Stands(of, c, n) => Stands(of, c, n)'
    BY <1>1 DEF Stands
  <2>6. /\ of \in [copies -> InBounds \ copies] /\ of[root] = source
        /\ \A c \in copies : key[c] = key[of[c]]
        /\ \A i \in DOMAIN pending : of[pending[i].copy] = pending[i].node
    BY <2>1 DEF Faithful
  <2>7. Faithful(of)'
    BY <1>1, <1>2, <1>4, <1>6, <2>2, <2>3, <2>4, <2>5, <2>6 DEF Faithful
  <2> QED
    BY <2>7
<1> QED
  BY <1>1, <1>2, <1>8, <1>10, <1>11 DEF DupInv

LEMMA ChildrenCopiedKeeps ==
  ASSUME DupInv, ChildrenCopied
  PROVE  DupInv' /\ \A of : Faithful(of) => Faithful(of)'
<1>1. /\ pc = "children" /\ pc' = "pop" /\ pending' = pending /\ frame.next = None /\ frame' = None
      /\ copies' = copies /\ source' = source /\ deep' = deep /\ root' = root
      /\ next' = next /\ prev' = prev /\ child' = child /\ key' = key /\ isRef' = isRef
  BY DEF ChildrenCopied, call, vars
<1>2. /\ TreeInv' /\ Live' = Live /\ InBounds' = InBounds /\ TypeOK'
  BY ArenaSame DEF DupInv, ChildrenCopied
<1>3. WorkInv'
  <2>1. DupTypeOK'
    BY <1>1, <1>2 DEF DupInv, WorkInv, DupTypeOK
  <2> QED
    BY <1>1, <2>1 DEF DupInv, WorkInv
<1>4. ApartInv'
  BY <1>1, <1>2 DEF DupInv, ApartInv
<1>5. ASSUME NEW of, Faithful(of) PROVE Faithful(of)'
  <2>1. Faithful(of)
    BY <1>5
  <2>2. deep /\ Open' = Open
    BY <1>1 DEF DupInv, WorkInv, Open
  <2>3. frame.previous = None => child[frame.copy] = None
    BY <1>1 DEF DupInv, ApartInv
  <2>4. frame.previous # None => next[frame.previous] = None
    BY <1>1 DEF DupInv, ApartInv
  <2>5. \A c \in copies \ Open : Stands(of, child[c], IF deep THEN child[of[c]] ELSE None)
    BY <1>1, <2>1, <2>2, <2>3 DEF Faithful, Stands
  <2>6. \A c \in copies \ {root} : Stands(of, next[c], next[of[c]])
    BY <1>1, <2>1, <2>4, CallTypes DEF Faithful, Stands
  <2>7. \A c, n : Stands(of, c, n) => Stands(of, c, n)'
    BY <1>1 DEF Stands
  <2>8. /\ of \in [copies -> InBounds \ copies] /\ of[root] = source
        /\ \A c \in copies : key[c] = key[of[c]]
        /\ \A i \in DOMAIN pending : of[pending[i].copy] = pending[i].node
    BY <2>1 DEF Faithful
  <2>9. Faithful(of)'
    BY <1>1, <1>2, <2>2, <2>5, <2>6, <2>7, <2>8 DEF Faithful
  <2> QED
    BY <2>9
<1> QED
  BY <1>1, <1>2, <1>3, <1>4, <1>5 DEF DupInv

LEMMA ReturnKeeps ==
  ASSUME DupInv, Return
  PROVE  DupInv' /\ \A of : Faithful(of) => Faithful(of)'
<1>1. /\ pc = "pop" /\ pc' = "done" /\ pending' = pending /\ pending = <<>> /\ frame' = frame
      /\ copies' = copies /\ source' = source /\ deep' = deep /\ root' = root
      /\ next' = next /\ prev' = prev /\ child' = child /\ key' = key /\ isRef' = isRef
  BY DEF Return, call, vars
<1>2. /\ TreeInv' /\ Live' = Live /\ InBounds' = InBounds /\ TypeOK'
  BY ArenaSame DEF DupInv, Return
<1>3. WorkInv'
  <2>1. DupTypeOK'
    BY <1>1, <1>2 DEF DupInv, WorkInv, DupTypeOK
  <2> QED
    BY <1>1, <2>1 DEF DupInv, WorkInv
<1>4. ApartInv'
  BY <1>1, <1>2 DEF DupInv, ApartInv
<1>5. ASSUME NEW of, Faithful(of) PROVE Faithful(of)'
  <2>1. Faithful(of)
    BY <1>5
  <2>2. Open' = Open
    BY <1>1 DEF Open
  <2>3. Faithful(of)'
    BY <1>1, <1>2, <2>1, <2>2 DEF Faithful, Stands
  <2> QED
    BY <2>3
<1> QED
  BY <1>1, <1>2, <1>3, <1>4, <1>5 DEF DupInv

\* discard_nodes deletes a part of the arena that no link leaves or enters.
LEMMA GiveUpKeeps ==
  ASSUME DupInv, GiveUp
  PROVE  DupInv'
<1> USE NoneIsNoNode
<1>1. /\ pc = "children" /\ pc' = "refused" /\ pending' = <<>> /\ frame' = None
      /\ copies' = copies /\ source' = source /\ deep' = deep /\ root' = root
      /\ size' = size /\ isRef' = isRef /\ deleted' = deleted \cup copies
      /\ next' = Cleared(next, copies) /\ prev' = Cleared(prev, copies)
      /\ child' = Cleared(child, copies) /\ key' = Cleared(key, copies)
  BY DEF GiveUp, DiscardNodes, call
<1>2. /\ copies \subseteq InBounds /\ InBounds \subseteq NodeIds /\ Live \subseteq InBounds
      /\ next \in [NodeIds -> Link] /\ prev \in [NodeIds -> Link] /\ child \in [NodeIds -> Link]
      /\ key \in [NodeIds -> Keys \cup {None}] /\ isRef \in [NodeIds -> BOOLEAN]
      /\ \A n \in NodeIds : {next[n], prev[n], child[n]} \subseteq InBounds \cup {None}
      /\ deleted \subseteq InBounds /\ size \in 0 .. MaxNodes
  BY CallTypes DEF DupInv, TreeInv, BoundsInv, TypeOK
<1>3. InBounds' = InBounds /\ Live' = Live \ copies
  BY <1>1 DEF Live, InBounds
<1>4. Block(Live, isRef, next, child, copies)
  BY <1>1, <1>2 DEF DupInv, ApartInv, Block, Into, Avoids
<1>5. Sound(Live', isRef', next', prev', child')
  <2>1. Sound(Live \ copies, isRef, Cleared(next, copies), Cleared(prev, copies), Cleared(child, copies))
    BY <1>4, ClearSafe DEF DupInv, TreeInv
  <2> QED
    BY <1>1, <1>3, <2>1
<1>6. BoundsInv'
  <2>1. Within(next', InBounds') /\ Within(prev', InBounds') /\ Within(child', InBounds')
    BY <1>1, <1>2, <1>3 DEF Within, Cleared
  <2>2. key' \in [NodeIds -> Keys \cup {None}]
    BY <1>1, <1>2 DEF Cleared
  <2> QED
    BY <1>1, <1>2, <1>3, <2>1, <2>2, WithinIsBoundsInv
<1>7. WorkInv'
  <2>1. /\ {source', root'} \subseteq Link /\ deep' \in BOOLEAN /\ copies' \subseteq InBounds'
    BY <1>1, <1>2, <1>3, TypesSay DEF DupInv, WorkInv
  <2>2. pending' \in Seq(Works')
    BY <1>1
  <2>3. DupTypeOK'
    BY <1>1, <1>6, <2>1, <2>2 DEF DupTypeOK, Works, BoundsInv
  <2> QED
    BY <1>1, <1>3, <2>3 DEF WorkInv
<1> QED
  BY <1>1, <1>5, <1>6, <1>7 DEF DupInv, TreeInv

\* What the loop knows when it copies a child, and what the copy changes.
LEMMA CopyChildFacts ==
  ASSUME DupInv, CopyChild
  PROVE  /\ pc = "children" /\ pc' = "children" /\ deep /\ frame.next \in Live
         /\ frame.copy \in copies /\ frame.previous \in copies \cup {None}
         /\ frame.depth \in 0 .. CircularLimit /\ frame.depth + 1 \in 0 .. CircularLimit
         /\ size \in NodeIds /\ size \notin InBounds /\ size' \in 0 .. MaxNodes
         /\ InBounds' = InBounds \cup {size} /\ Live' = Live \cup {size}
         /\ copies' = copies \cup {size} /\ deleted' = deleted
         /\ source' = source /\ root' = root /\ deep' = deep
         /\ key' \in [NodeIds -> Keys \cup {None}] /\ isRef' \in [NodeIds -> BOOLEAN]
         /\ key'[size] = key[frame.next] /\ ~isRef'[size]
         /\ \A n \in NodeIds \ {size} : key'[n] = key[n] /\ isRef'[n] = isRef[n]
         /\ next[size] = None /\ prev[size] = None /\ child[size] = None
         /\ Sound(Live', isRef', next, prev, child)
         /\ Unheld(Live', isRef', next, child, size)
         /\ Block(Live', isRef', next, child, {size})
<1>1. /\ pc = "children" /\ pc' = "children" /\ frame.next \in Live /\ frame.depth < CircularLimit
      /\ DuplicateSingleNode(frame.next)
      /\ copies' = copies \cup {size} /\ deleted' = deleted
      /\ source' = source /\ root' = root /\ deep' = deep
  BY DEF CopyChild, MayCopy, DuplicateSingleNode, call
<1>2. frame \in Loops /\ deep
  BY <1>1 DEF DupInv, WorkInv
<1>3. /\ frame.copy \in copies /\ frame.previous \in copies \cup {None}
      /\ frame.depth \in 0 .. CircularLimit
  BY <1>2 DEF Loops
<1>4. frame.depth + 1 \in 0 .. CircularLimit
  BY <1>1, <1>3, CircularLimitAssumption
<1>5. frame.next \in NodeIds
  BY <1>1, CallTypes
<1> QED
  BY <1>1, <1>2, <1>3, <1>4, <1>5, SingleNodeFacts DEF DupInv

\* The links of the new copy, node by node.
LEMMA LinkCopyFacts ==
  ASSUME DupInv, CopyChild
  PROVE  /\ next' \in [NodeIds -> Link] /\ prev' \in [NodeIds -> Link] /\ child' \in [NodeIds -> Link]
         /\ prev'[size] = frame.previous
         /\ \A n \in NodeIds \ {size} : prev'[n] = prev[n]
         /\ frame.previous # None => next'[frame.previous] = size /\ child' = child
         /\ frame.previous = None => child'[frame.copy] = size
         /\ \A n \in NodeIds : n # frame.previous => next'[n] = next[n]
         /\ \A n \in NodeIds : n # frame.copy => child'[n] = child[n]
<1>1. LinkCopy(size) /\ size \in NodeIds /\ size \in Link
  BY CopyChildFacts DEF CopyChild, Link
<1>2. frame.copy \in NodeIds /\ frame.previous \in NodeIds \cup {None}
  BY CopyChildFacts, CallTypes
<1>3. next \in [NodeIds -> Link] /\ prev \in [NodeIds -> Link] /\ child \in [NodeIds -> Link]
  BY CallTypes
<1>4. CASE frame.previous = None
  <2>1. prev' = [prev EXCEPT ![size] = frame.previous] /\ child' = [child EXCEPT ![frame.copy] = size] /\ next' = next
    BY <1>1, <1>4 DEF LinkCopy
  <2> QED
    BY <1>1, <1>2, <1>3, <1>4, <2>1 DEF Link
<1>5. CASE frame.previous # None
  <2>1. prev' = [prev EXCEPT ![size] = frame.previous] /\ next' = [next EXCEPT ![frame.previous] = size] /\ child' = child
    BY <1>1, <1>5 DEF LinkCopy
  <2> QED
    BY <1>1, <1>2, <1>3, <1>5, <2>1 DEF Link
<1> QED
  BY <1>4, <1>5

\* The copy goes to the end of the list of copies: the links stay sound.
LEMMA CopyChildSafe ==
  ASSUME DupInv, CopyChild
  PROVE  TreeInv'
<1> USE NoneIsNoNode
<1>1. /\ pc = "children"
      /\ frame.copy \in copies /\ frame.previous \in copies \cup {None}
      /\ size \in NodeIds /\ size \notin InBounds /\ size' \in 0 .. MaxNodes
      /\ InBounds' = InBounds \cup {size} /\ Live' = Live \cup {size}
      /\ deleted' = deleted
      /\ key' \in [NodeIds -> Keys \cup {None}] /\ isRef' \in [NodeIds -> BOOLEAN]
      /\ \A n \in NodeIds \ {size} : key'[n] = key[n] /\ isRef'[n] = isRef[n]
      /\ next[size] = None /\ prev[size] = None /\ child[size] = None
      /\ Sound(Live', isRef', next, prev, child)
      /\ Unheld(Live', isRef', next, child, size)
      /\ Block(Live', isRef', next, child, {size})
  BY CopyChildFacts
<1>2. /\ next' \in [NodeIds -> Link] /\ prev' \in [NodeIds -> Link] /\ child' \in [NodeIds -> Link]
      /\ prev'[size] = frame.previous
      /\ \A n \in NodeIds \ {size} : prev'[n] = prev[n]
      /\ frame.previous # None => next'[frame.previous] = size /\ child' = child
      /\ frame.previous = None => child'[frame.copy] = size
      /\ \A n \in NodeIds : n # frame.previous => next'[n] = next[n]
      /\ \A n \in NodeIds : n # frame.copy => child'[n] = child[n]
  BY LinkCopyFacts
<1>3. /\ copies \subseteq InBounds /\ InBounds \subseteq NodeIds /\ Live \subseteq InBounds
      /\ next \in [NodeIds -> Link] /\ prev \in [NodeIds -> Link] /\ child \in [NodeIds -> Link]
      /\ \A n \in NodeIds : {next[n], prev[n], child[n]} \subseteq InBounds \cup {None}
      /\ deleted \subseteq InBounds
  BY CallTypes
<1>4. /\ copies \subseteq Live /\ ~isRef[frame.copy]
      /\ frame.previous = None => child[frame.copy] = None
      /\ frame.previous # None => /\ next[frame.previous] = None
                                  /\ ~Unheld(Live, isRef, next, child, frame.previous)
  BY <1>1 DEF DupInv, ApartInv
<1>5. frame.previous # None => ~Unheld(Live', isRef', next, child, frame.previous)
  BY <1>1, <1>3, <1>4 DEF Unheld
<1> DEFINE L == Live'
           ref == isRef'
           previous == frame.previous
           parent == frame.copy
<1>6. /\ Sound(L, ref, next, prev, child)
      /\ parent \in L /\ ~ref[parent] /\ size \in L /\ Unheld(L, ref, next, child, size)
      /\ size \in {size} /\ Block(L, ref, next, child, {size}) /\ parent \notin {size}
      /\ previous \in L \cup {None} /\ None \in L \cup {None}
      /\ \/ previous = None /\ child[parent] = None
         \/ /\ previous \in L \ {size}
            /\ ~Unheld(L, ref, next, child, previous)
            /\ next[previous] = None
  BY <1>1, <1>3, <1>4, <1>5
<1>7. Sound(L, ref, LinkedNext(next, previous, size, None),
                    LinkedPrev(prev, previous, size, None),
                    LinkedChild(child, parent, previous, size))
  <2> HIDE DEF L, ref, previous, parent
  <2> QED
    BY <1>6, LinkSafe
<1>8. next' = LinkedNext(next, previous, size, None)
  <2>1. \A n \in NodeIds : next'[n] = LinkedNext(next, previous, size, None)[n]
    BY <1>1, <1>2, <1>3 DEF LinkedNext
  <2> QED
    BY <1>2, <2>1 DEF LinkedNext
<1>9. prev' = LinkedPrev(prev, previous, size, None)
  <2>1. \A n \in NodeIds : prev'[n] = LinkedPrev(prev, previous, size, None)[n]
    BY <1>1, <1>2, <1>3 DEF LinkedPrev
  <2> QED
    BY <1>2, <2>1 DEF LinkedPrev
<1>10. child' = LinkedChild(child, parent, previous, size)
  <2>1. CASE previous = None
    <3>1. \A n \in NodeIds : child'[n] = [child EXCEPT ![parent] = size][n]
      BY <1>1, <1>2, <1>3, <2>1
    <3>2. [child EXCEPT ![parent] = size] \in [NodeIds -> Link]
      BY <1>1, <1>3 DEF Link
    <3>3. child' = [child EXCEPT ![parent] = size]
      BY <1>2, <3>1, <3>2
    <3> QED
      BY <2>1, <3>3 DEF LinkedChild
  <2> QED
    BY <1>2, <2>1 DEF LinkedChild
<1>11. Sound(Live', isRef', next', prev', child')
  BY <1>7, <1>8, <1>9, <1>10
<1>12. BoundsInv'
  <2>1. Within(next', InBounds') /\ Within(prev', InBounds') /\ Within(child', InBounds')
    BY <1>1, <1>2, <1>3 DEF Within
  <2> QED
    BY <1>1, <1>3, <2>1, WithinIsBoundsInv
<1> QED
  BY <1>11, <1>12 DEF TreeInv

\* The work list afterwards.
LEMMA CopyChildPending ==
  ASSUME DupInv, CopyChild
  PROVE  /\ pending' \in Seq(Works')
         /\ DOMAIN pending' = DOMAIN pending \cup {Len(pending) + 1}
         /\ Len(pending) + 1 \notin DOMAIN pending
         /\ pending'[Len(pending) + 1].copy = size
         /\ pending'[Len(pending) + 1].node = frame.next
         /\ \A i \in DOMAIN pending : pending'[i] = pending[i] /\ pending[i] \in Works
         /\ Open' = Open \cup {size}
         /\ frame' \in Loops'
         /\ frame'.copy = frame.copy /\ frame'.previous = size /\ frame'.next = next[frame.next]
<1> DEFINE w == Work(frame.next, size, frame.depth + 1)
           S == Works'
           last == Len(pending) + 1
<1>1. /\ pending' = Append(pending, w)
      /\ frame' = [frame EXCEPT !.next = next[frame.next], !.previous = size]
  BY DEF CopyChild
<1>2. /\ pc = "children" /\ frame.next \in Live
      /\ frame.copy \in copies /\ frame.previous \in copies \cup {None}
      /\ frame.depth \in 0 .. CircularLimit /\ frame.depth + 1 \in 0 .. CircularLimit
      /\ InBounds' = InBounds \cup {size} /\ copies' = copies \cup {size}
  BY CopyChildFacts
<1>3. /\ pending \in Seq(Works) /\ Live \subseteq InBounds /\ InBounds \subseteq NodeIds
      /\ next \in [NodeIds -> Link]
  BY CallTypes
<1>4. Works \subseteq S
  BY <1>2 DEF Works
<1>5. w \in S
  BY <1>2, <1>3 DEF Works, Work
<1>6. w.copy = size /\ w.node = frame.next
  BY DEF Work
<1>7. /\ Append(pending, w) \in Seq(S)
      /\ DOMAIN Append(pending, w) = DOMAIN pending \cup {last}
      /\ last \notin DOMAIN pending
      /\ Append(pending, w)[last] = w
      /\ \A i \in DOMAIN pending : Append(pending, w)[i] = pending[i]
  <2> HIDE DEF w, S
  <2>1. pending \in Seq(S)
    BY <1>3, <1>4, SeqWiden
  <2> QED
    BY <1>5, <2>1, PushFacts
<1>8. \A i \in DOMAIN pending : pending[i] \in Works
  <2> HIDE DEF w, S
  <2> QED
    BY <1>3
<1> DEFINE q == pending'
<1>9. /\ q \in Seq(S) /\ DOMAIN q = DOMAIN pending \cup {last} /\ last \notin DOMAIN pending
      /\ q[last] = w
      /\ \A i \in DOMAIN pending : q[i] = pending[i]
  BY <1>1, <1>7
<1>10. Open' = Open \cup {size}
  <2>1. Open' = {q[i].copy : i \in DOMAIN q}
    BY DEF Open
  <2> HIDE DEF q, w, last
  <2>2. \A c : c \in {q[i].copy : i \in DOMAIN q} <=> c \in Open \cup {size}
    BY <1>6, <1>9 DEF Open
  <2> QED
    BY <2>1, <2>2
<1>11. /\ frame' \in Loops'
       /\ frame'.copy = frame.copy /\ frame'.previous = size /\ frame'.next = next[frame.next]
  <2>1. frame \in Loops /\ next[frame.next] \in Link
    BY <1>2, <1>3 DEF DupInv, WorkInv
  <2> QED
    BY <1>1, <1>2, <2>1 DEF Loops
<1> HIDE DEF w
<1> QED
  BY <1>6, <1>8, <1>9, <1>10, <1>11

LEMMA CopyChildApart ==
  ASSUME DupInv, CopyChild
  PROVE  ApartInv'
<1> USE NoneIsNoNode
<1>1. /\ pc = "children" /\ pc' = "children"
      /\ frame.copy \in copies /\ frame.previous \in copies \cup {None}
      /\ size \in NodeIds /\ size \notin InBounds
      /\ InBounds' = InBounds \cup {size} /\ Live' = Live \cup {size}
      /\ copies' = copies \cup {size} /\ root' = root
      /\ ~isRef'[size] /\ \A n \in NodeIds \ {size} : isRef'[n] = isRef[n]
      /\ next[size] = None /\ prev[size] = None /\ child[size] = None
  BY CopyChildFacts
<1>2. /\ prev'[size] = frame.previous
      /\ \A n \in NodeIds \ {size} : prev'[n] = prev[n]
      /\ frame.previous # None => next'[frame.previous] = size /\ child' = child
      /\ frame.previous = None => child'[frame.copy] = size
      /\ \A n \in NodeIds : n # frame.previous => next'[n] = next[n]
      /\ \A n \in NodeIds : n # frame.copy => child'[n] = child[n]
  BY LinkCopyFacts
<1>3. /\ copies \subseteq InBounds /\ InBounds \subseteq NodeIds /\ Live \subseteq InBounds
      /\ \A n \in NodeIds : {next[n], prev[n], child[n]} \subseteq InBounds \cup {None}
  BY CallTypes
<1>4. ApartInv
  BY <1>1 DEF DupInv
<1> DEFINE last == Len(pending) + 1
<1>5. /\ DOMAIN pending' = DOMAIN pending \cup {last} /\ last \notin DOMAIN pending
      /\ pending'[last].copy = size
      /\ \A i \in DOMAIN pending : pending'[i] = pending[i] /\ pending[i] \in Works
      /\ Open' = Open \cup {size}
      /\ frame'.copy = frame.copy /\ frame'.previous = size
  BY CopyChildPending
<1> HIDE DEF last
<1>6. \A i \in DOMAIN pending : pending[i].copy \in copies /\ pending[i].copy \in Open
  BY <1>5 DEF Works, Open
<1>7. /\ copies' \subseteq Live' /\ root' \in copies' /\ next'[root'] = None /\ prev'[root'] = None
  BY <1>1, <1>2, <1>3, <1>4 DEF ApartInv
<1>8. \A c \in copies' : ~isRef'[c] /\ next'[c] \in copies' \cup {None} /\ child'[c] \in copies' \cup {None}
  <2>1. ~isRef'[size] /\ next'[size] \in copies' \cup {None} /\ child'[size] \in copies' \cup {None}
    BY <1>1, <1>2, <1>3
  <2>2. ASSUME NEW c \in copies
        PROVE  ~isRef'[c] /\ next'[c] \in copies' \cup {None} /\ child'[c] \in copies' \cup {None}
    BY <1>1, <1>2, <1>3, <1>4 DEF ApartInv
  <2> QED
    BY <1>1, <2>1, <2>2
<1>9. \A n \in InBounds' \ copies' : {next'[n], prev'[n], child'[n]} \cap copies' = {}
  <2> SUFFICES ASSUME NEW n \in InBounds' \ copies'
               PROVE  next'[n] \notin copies' /\ prev'[n] \notin copies' /\ child'[n] \notin copies'
    OBVIOUS
  <2>1. n \in InBounds \ copies /\ n \in NodeIds /\ n # size
    BY <1>1, <1>3
  <2>2. next'[n] = next[n] /\ prev'[n] = prev[n] /\ child'[n] = child[n]
    BY <1>1, <1>2, <2>1
  <2>3. next[n] \notin copies /\ prev[n] \notin copies /\ child[n] \notin copies
    BY <1>4, <2>1 DEF ApartInv
  <2> QED
    BY <1>1, <1>3, <2>1, <2>2, <2>3
<1>10. frame.copy \notin Open /\ frame.copy # size /\ size \notin Open
  <2>1. \A c \in Open : c \in copies
    BY <1>6 DEF Open
  <2> QED
    BY <1>1, <1>3, <1>4, <2>1 DEF ApartInv
<1>11. \A i \in DOMAIN pending' : child'[pending'[i].copy] = None
  <2>1. child'[size] = None
    BY <1>1, <1>2, <1>10
  <2>2. \A i \in DOMAIN pending : child'[pending[i].copy] = None
    BY <1>2, <1>3, <1>4, <1>6, <1>10 DEF ApartInv
  <2> QED
    BY <1>5, <2>1, <2>2
<1>12. \A i, j \in DOMAIN pending' : i # j => pending'[i].copy # pending'[j].copy
  BY <1>1, <1>3, <1>4, <1>5, <1>6 DEF ApartInv
<1>13. /\ frame'.copy \notin Open' /\ frame'.previous # None /\ frame'.previous # root'
       /\ next'[frame'.previous] = None
  BY <1>1, <1>2, <1>3, <1>4, <1>5, <1>10 DEF ApartInv
<1>14. ~Unheld(Live', isRef', next', child', size)
  BY <1>1, <1>2, <1>3, <1>4, <1>10 DEF ApartInv, Unheld
<1> QED
  BY <1>1, <1>5, <1>7, <1>8, <1>9, <1>11, <1>12, <1>13, <1>14 DEF ApartInv

\* The new copy stands for the child the loop had reached.
LEMMA CopyChildFaithful ==
  ASSUME DupInv, CopyChild
  PROVE  \A of, of2 :
           /\ Faithful(of)
           /\ of2 = [c \in copies \cup {size} |-> IF c = size THEN frame.next ELSE of[c]]
           => Faithful(of2)'
<1> USE NoneIsNoNode
<1>1. /\ pc = "children" /\ pc' = "children" /\ deep /\ frame.next \in Live
      /\ frame.copy \in copies /\ frame.previous \in copies \cup {None}
      /\ size \in NodeIds /\ size \notin InBounds
      /\ InBounds' = InBounds \cup {size}
      /\ copies' = copies \cup {size}
      /\ source' = source /\ root' = root /\ deep' = deep
      /\ key'[size] = key[frame.next]
      /\ \A n \in NodeIds \ {size} : key'[n] = key[n]
      /\ child[size] = None
  BY CopyChildFacts
<1>2. /\ frame.previous # None => next'[frame.previous] = size /\ child' = child
      /\ frame.previous = None => child'[frame.copy] = size
      /\ \A n \in NodeIds : n # frame.previous => next'[n] = next[n]
      /\ \A n \in NodeIds : n # frame.copy => child'[n] = child[n]
  BY LinkCopyFacts
<1>3. copies \subseteq InBounds /\ InBounds \subseteq NodeIds /\ Live \subseteq InBounds
  BY CallTypes
<1>4. ApartInv
  BY <1>1 DEF DupInv
<1> DEFINE last == Len(pending) + 1
<1>5. /\ DOMAIN pending' = DOMAIN pending \cup {last}
      /\ pending'[last].copy = size /\ pending'[last].node = frame.next
      /\ \A i \in DOMAIN pending : pending'[i] = pending[i] /\ pending[i] \in Works
      /\ Open' = Open \cup {size}
      /\ frame'.copy = frame.copy /\ frame'.previous = size /\ frame'.next = next[frame.next]
  BY CopyChildPending
<1> HIDE DEF last
<1>6. SUFFICES
        ASSUME NEW of, Faithful(of), NEW of2,
               of2 = [c \in copies \cup {size} |-> IF c = size THEN frame.next ELSE of[c]]
        PROVE  Faithful(of2)'
  OBVIOUS
<1>7. /\ of \in [copies -> InBounds \ copies] /\ of[root] = source /\ root \in copies
      /\ frame.previous = None => frame.next = child[of[frame.copy]]
      /\ frame.previous # None => /\ frame.next = next[of[frame.previous]]
                                  /\ Stands(of, child[frame.copy], child[of[frame.copy]])
  BY <1>1, <1>4, <1>6 DEF Faithful, ApartInv
<1>8. frame.next \in InBounds \ copies /\ frame.next \in NodeIds /\ frame.next # None
  <2>1. \A c \in copies : child[of[c]] \notin copies /\ next[of[c]] \notin copies
    BY <1>4, <1>7 DEF ApartInv
  <2> QED
    BY <1>1, <1>3, <1>7, <2>1
<1>10. /\ of2 \in [copies' -> InBounds' \ copies']
       /\ of2[size] = frame.next
       /\ \A c \in copies : of2[c] = of[c] /\ of[c] \in InBounds \ copies /\ of[c] \in NodeIds /\ of[c] # size
  BY <1>1, <1>3, <1>6, <1>7, <1>8
<1> DEFINE Stands2(c, n) == IF n = None THEN c = None ELSE c \in copies' /\ of2[c] = n
<1>11. \A c, n : Stands(of, c, n) => Stands2(c, n)
  BY <1>1, <1>10 DEF Stands
<1>12. Stands2(size, frame.next)
  BY <1>1, <1>8, <1>10
<1> HIDE DEF Stands2
<1>13. \A c \in copies' : key'[c] = key'[of2[c]]
  <2>1. key'[size] = key'[of2[size]]
    BY <1>1, <1>3, <1>8, <1>10
  <2>2. \A c \in copies : key'[c] = key'[of2[c]]
    BY <1>1, <1>3, <1>6, <1>10 DEF Faithful
  <2> QED
    BY <1>1, <2>1, <2>2
<1>14. \A c \in copies : child'[of2[c]] = child[of[c]] /\ next'[of2[c]] = next[of[c]]
  BY <1>1, <1>2, <1>10
<1>15. ASSUME NEW c \in copies' \ Open', c # frame.copy
       PROVE  Stands2(child'[c], child'[of2[c]])
  <2>1. c \in copies \ Open /\ c \in NodeIds
    BY <1>1, <1>3, <1>5, <1>15
  <2>2. child'[c] = child[c] /\ Stands(of, child[c], child[of[c]])
    BY <1>1, <1>2, <1>6, <1>15, <2>1 DEF Faithful
  <2> QED
    BY <1>11, <1>14, <2>1, <2>2
<1>16. ASSUME NEW c \in copies' \ {root'}, c # size
       PROVE  Stands2(next'[c], next'[of2[c]])
  <2>1. c \in copies \ {root} /\ c \in NodeIds
    BY <1>1, <1>3, <1>16
  <2>2. CASE c = frame.previous
    <3>1. next'[c] = size /\ next[of[c]] = frame.next
      BY <1>2, <1>7, <2>1, <2>2
    <3> QED
      BY <1>12, <1>14, <2>1, <3>1
  <2>3. CASE c # frame.previous
    <3>1. next'[c] = next[c] /\ Stands(of, next[c], next[of[c]])
      BY <1>1, <1>2, <1>6, <2>1, <2>3 DEF Faithful
    <3> QED
      BY <1>11, <1>14, <2>1, <3>1
  <2> QED
    BY <2>2, <2>3
<1>17. Stands2(child'[frame.copy], child'[of2[frame.copy]])
  <2>1. CASE frame.previous = None
    BY <1>1, <1>2, <1>7, <1>12, <1>14, <2>1
  <2>2. CASE frame.previous # None
    BY <1>1, <1>2, <1>7, <1>11, <1>14, <2>2
  <2> QED
    BY <2>1, <2>2
<1>18. \A i \in DOMAIN pending' : of2[pending'[i].copy] = pending'[i].node
  <2>1. \A i \in DOMAIN pending : of[pending[i].copy] = pending[i].node /\ pending[i].copy \in copies
    BY <1>5, <1>6 DEF Faithful, Works
  <2> QED
    BY <1>5, <1>10, <2>1
<1>19. frame'.next = next'[of2[frame'.previous]] /\ frame'.previous # None
  BY <1>1, <1>2, <1>5, <1>8, <1>10
<1>20. of2[root'] = source'
  BY <1>1, <1>7, <1>10
<1> QED
  BY <1>1, <1>5, <1>10, <1>13, <1>15, <1>16, <1>17, <1>18, <1>19, <1>20 DEF Faithful, Stands, Stands2

LEMMA CopyChildKeeps ==
  ASSUME DupInv, CopyChild
  PROVE  DupInv'
<1>1. TreeInv' /\ TypeOK'
  BY CopyChildSafe DEF TreeInv, BoundsInv
<1>2. /\ pc' = "children" /\ deep /\ deep' = deep /\ root' = root /\ source' = source
      /\ size \in NodeIds /\ InBounds' = InBounds \cup {size} /\ copies' = copies \cup {size}
  BY CopyChildFacts
<1>3. copies' \subseteq InBounds' /\ {source', root'} \subseteq Link /\ deep' \in BOOLEAN
  BY <1>2, TypesSay DEF DupInv, WorkInv
<1>4. pending' \in Seq(Works') /\ frame' \in Loops'
  BY CopyChildPending
<1>5. DupTypeOK'
  BY <1>1, <1>2, <1>3, <1>4 DEF DupTypeOK, Works, Loops
<1>6. WorkInv'
  BY <1>2, <1>4, <1>5 DEF WorkInv
<1>7. \E of : Faithful(of)'
  <2>0. \E of : Faithful(of)
    BY CopyChildFacts DEF DupInv
  <2>1. PICK of : Faithful(of)
    BY <2>0
  <2>2. PICK of2 : of2 = [c \in copies \cup {size} |-> IF c = size THEN frame.next ELSE of[c]]
    OBVIOUS
  <2>3. Faithful(of2)'
    BY <2>1, <2>2, CopyChildFaithful
  <2> QED
    BY <2>3
<1> QED
  BY <1>1, <1>6, <1>7, CopyChildApart DEF DupInv

-----------------------------------------------------------------------------
(* The theorems. *)

LEMMA DupStep == DupInv /\ [DupNext]_dvars => DupInv'
<1> SUFFICES ASSUME DupInv, [DupNext]_dvars PROVE DupInv'
  OBVIOUS
<1>1. CASE Build
  BY <1>1, BuildKeeps
<1>2. ASSUME NEW node \in NodeIds, NEW recurse \in BOOLEAN, Duplicate(node, recurse)
      PROVE  DupInv'
  BY <1>2, DuplicateKeeps
<1>3. CASE CopyNext
  BY <1>3, PopKeeps, CopyChildKeeps, ChildrenCopiedKeeps, GiveUpKeeps, ReturnKeeps DEF CopyNext
<1>4. CASE UNCHANGED dvars
  <2>1. /\ pc' = pc /\ copies' = copies /\ pending' = pending /\ frame' = frame
        /\ source' = source /\ deep' = deep /\ root' = root
        /\ next' = next /\ prev' = prev /\ child' = child /\ key' = key /\ isRef' = isRef
    BY <1>4 DEF dvars, vars, call
  <2>2. /\ TreeInv' /\ Live' = Live /\ InBounds' = InBounds /\ TypeOK'
    BY <1>4, ArenaSame DEF DupInv, dvars
  <2>3. Open' = Open /\ Works' = Works /\ Loops' = Loops
    BY <2>1, <2>2 DEF Open, Works, Loops
  <2>4. WorkInv'
    <3>1. DupTypeOK'
      BY <2>1, <2>2 DEF DupInv, WorkInv, DupTypeOK
    <3> QED
      BY <2>1, <2>2, <2>3, <3>1 DEF DupInv, WorkInv
  <2>5. ApartInv => ApartInv'
    BY <2>1, <2>2, <2>3 DEF ApartInv
  <2>6. \A of : Faithful(of) => Faithful(of)'
    BY <2>1, <2>2, <2>3 DEF Faithful, Stands
  <2> QED
    BY <2>1, <2>2, <2>4, <2>5, <2>6 DEF DupInv
<1> QED
  BY <1>1, <1>2, <1>3, <1>4 DEF DupNext

LEMMA DupInvAlways == DupSpec => []DupInv
BY DupInitInv, DupStep, PTL DEF DupSpec

\* The arena, the work list and the loop keep their types: no depth passes the
\* limit, and every copy in the list is one that was made.
THEOREM DuplicateTypes == DupSpec => []DupTypeOK
<1>1. DupInv => DupTypeOK
  BY DEF DupInv, WorkInv
<1> QED
  BY <1>1, DupInvAlways, PTL

\* The list is kept: each step that allocates a node puts that node down.
LEMMA BookStep == DupInv /\ BookInv /\ [DupNext]_dvars => BookInv'
<1> SUFFICES ASSUME DupInv, BookInv, [DupNext]_dvars PROVE BookInv'
  OBVIOUS
<1> USE NoneIsNoNode
<1>1. InBounds \subseteq NodeIds /\ copies \subseteq InBounds /\ copies = Made
  BY CallTypes DEF BookInv
<1>2. pc # "idle" => /\ root \in InBounds /\ root \in Nat /\ size \in Nat /\ root < size /\ root # None
                     /\ copies = root .. size - 1
  BY <1>1, MaxNodesAssumption DEF BookInv, Made, InBounds, NodeIds, DupInv, TreeInv, BoundsInv, TypeOK
<1>3. CASE Build
  BY <1>3 DEF Build, call, BookInv, Made
<1>4. ASSUME NEW node \in NodeIds, NEW recurse \in BOOLEAN, Duplicate(node, recurse)
      PROVE  BookInv'
  <2>1. /\ root' = size /\ copies' = {size} /\ size' = size + 1 /\ pc' \in {"pop", "done"}
        /\ DuplicateSingleNode(node) /\ TreeInv
    BY <1>4 DEF Duplicate, DuplicateSingleNode, DupInv
  <2>2. size \in NodeIds /\ InBounds' = InBounds \cup {size}
    BY <2>1, SingleNodeFacts
  <2>3. size \in Nat /\ Made' = {size}
    BY <2>1, <2>2 DEF Made, NodeIds
  <2> QED
    BY <2>1, <2>2, <2>3 DEF BookInv
<1>5. CASE CopyChild
  <2>1. pc = "children" /\ root' = root /\ copies' = copies \cup {size} /\ pc' = "children"
    BY <1>5 DEF CopyChild, call
  <2>2. size' = size + 1 /\ InBounds' = InBounds \cup {size}
    BY <1>5, CopyChildFacts DEF CopyChild, DuplicateSingleNode
  <2>3. Made' = Made \cup {size}
    BY <1>2, <2>1, <2>2 DEF Made
  <2> QED
    BY <1>1, <1>2, <2>1, <2>2, <2>3 DEF BookInv
<1>6. CASE GiveUp
  <2>1. /\ pc = "children" /\ pc' = "refused" /\ root' = root /\ copies' = copies /\ size' = size
        /\ deleted' = deleted \cup copies
        /\ next' = Cleared(next, copies) /\ prev' = Cleared(prev, copies)
        /\ child' = Cleared(child, copies) /\ key' = Cleared(key, copies)
    BY <1>6 DEF GiveUp, DiscardNodes, call
  <2>2. \A c \in copies : {next'[c], prev'[c], child'[c], key'[c]} = {None}
    BY <1>1, <2>1 DEF Cleared
  <2>3. Made' = Made /\ InBounds' = InBounds
    BY <2>1 DEF Made, InBounds
  <2> QED
    BY <1>1, <1>2, <2>1, <2>2, <2>3 DEF BookInv
<1>7. CASE PopPending \/ ChildrenCopied \/ Return
  <2>1. /\ pc \in {"pop", "children"} /\ pc' \in {"pop", "children", "done"}
        /\ root' = root /\ copies' = copies /\ size' = size
    BY <1>7 DEF PopPending, ChildrenCopied, Return, call, vars
  <2>2. Made' = Made /\ InBounds' = InBounds
    BY <2>1 DEF Made, InBounds
  <2> QED
    BY <1>1, <1>2, <2>1, <2>2 DEF BookInv
<1>8. CASE UNCHANGED dvars
  <2>1. /\ pc' = pc /\ root' = root /\ copies' = copies /\ size' = size /\ deleted' = deleted
        /\ next' = next /\ prev' = prev /\ child' = child /\ key' = key
    BY <1>8 DEF dvars, call, vars
  <2>2. Made' = Made /\ InBounds' = InBounds
    BY <2>1 DEF Made, InBounds
  <2> QED
    BY <2>1, <2>2 DEF BookInv
<1> QED
  BY <1>3, <1>4, <1>5, <1>6, <1>7, <1>8 DEF DupNext, CopyNext

LEMMA BookInvAlways == DupSpec => []BookInv
<1>1. DupInit => BookInv
  BY DEF DupInit, BookInv, Made
<1> QED
  BY <1>1, BookStep, DupInvAlways, PTL DEF DupSpec

\* A call that gives up leaves nothing of its own: whatever was allocated since it
\* began is deleted again and linked to nothing.
THEOREM RefusedCopyIsGone == DupSpec => []NothingLeftOfARefusedCopy
<1>1. BookInv => NothingLeftOfARefusedCopy
  BY DEF BookInv, NothingLeftOfARefusedCopy
<1> QED
  BY <1>1, BookInvAlways, PTL

\* What duplicate returns is the source over again, by whatever order the work
\* list had and however often references led to the same node.
THEOREM CopiesAreFaithful == DupSpec => []CopyIsFaithful
<1>1. DupInv /\ BookInv => CopyIsFaithful
  <2> SUFFICES ASSUME DupInv, BookInv, pc = "done" PROVE CopyIsFaithful
    BY DEF CopyIsFaithful
  <2>1. pending = <<>> /\ ApartInv
    BY DEF DupInv, WorkInv
  <2>2. PICK of : Faithful(of)
    BY DEF DupInv
  <2>3. Open = {}
    BY <2>1 DEF Open
  <2>4. of \in [copies -> InBounds \ copies] /\ root \in copies /\ source = of[root] /\ source # None
    BY <2>1, <2>2, CallTypes DEF Faithful, ApartInv
  <2>5. next[root] = None /\ prev[root] = None /\ \A c \in copies : ~isRef[c]
    BY <2>1 DEF ApartInv
  <2>6. \A c \in copies : /\ key[c] = key[of[c]]
                          /\ Stands(of, child[c], IF deep THEN child[of[c]] ELSE None)
                          /\ c # root => Stands(of, next[c], next[of[c]])
    BY <2>2, <2>3 DEF Faithful
  <2> QED
    BY <2>4, <2>5, <2>6 DEF CopyIsFaithful, Stands, BookInv
<1> QED
  BY <1>1, DupInvAlways, BookInvAlways, PTL

\* While it copies, when it gives up and when it returns, duplicate leaves every
\* other node as it was.
THEOREM DuplicateTouchesNothingElse == DupSpec => OthersUntouched
<1> DEFINE Untouched ==
      pc' # "idle" =>
        /\ \A n \in InBounds \ Made :
             /\ next'[n] = next[n]
             /\ prev'[n] = prev[n] /\ child'[n] = child[n]
             /\ key'[n] = key[n] /\ isRef'[n] = isRef[n]
        /\ deleted' \ Made = deleted \ Made
<1>1. DupInv /\ BookInv /\ [DupNext]_dvars => [Untouched]_dvars
  <2> SUFFICES ASSUME DupInv, BookInv, DupNext PROVE Untouched
    OBVIOUS
  <2> USE CallTypes
  <2>6. Made = copies
    BY DEF BookInv
  <2>1. CASE Build
    BY <2>1 DEF Build, DupInv
  <2>2. ASSUME NEW node \in NodeIds, NEW recurse \in BOOLEAN, Duplicate(node, recurse)
        PROVE  Untouched
    <3>1. \A n \in NodeIds \ {size} : key'[n] = key[n] /\ isRef'[n] = isRef[n]
      BY <2>2, SingleNodeFacts DEF Duplicate, DupInv
    <3>2. size \notin InBounds
      BY <2>2, SingleNodeFacts DEF Duplicate, DupInv
    <3> QED
      BY <2>2, <3>1, <3>2 DEF Duplicate, DuplicateSingleNode, links
  <2>3. CASE PopPending \/ ChildrenCopied \/ Return
    BY <2>3 DEF PopPending, ChildrenCopied, Return, vars
  <2>4. CASE CopyChild
    BY <2>4, <2>6, CopyChildFacts, LinkCopyFacts
  <2>5. CASE GiveUp
    BY <2>5, <2>6 DEF GiveUp, DiscardNodes, Cleared
  <2> QED
    BY <2>1, <2>2, <2>3, <2>4, <2>5 DEF DupNext, CopyNext
<1>2. OthersUntouched <=> [][Untouched]_dvars
  BY DEF OthersUntouched
<1> QED
  BY <1>1, <1>2, DupInvAlways, BookInvAlways, PTL DEF DupSpec

\* The copy that is not finished, the one that is returned and what is left of
\* one that was refused are as well linked as what the operations build, so
\* the operations may go on with the copy (LinksConsistent).
THEOREM CopyKeepsLinksConsistent == DupSpec => []LinksConsistent
BY DupInvAlways, TreeInvMeans, PTL DEF DupInv

-----------------------------------------------------------------------------
(* Why a copy is refused. *)

\* AtDepth, as a function of the links.
DepthsOf(nx, ch, s) ==
  LET at[d \in Nat] == IF d = 0 THEN Walk(nx, ch[s], None)
                       ELSE UNION {Walk(nx, ch[n], None) : n \in at[d - 1]}
  IN  at

LEMMA AtDepthIs == AtDepth = DepthsOf(next, child, source)
BY DEF AtDepth, DepthsOf, Chain

LEMMA AtDepthIsNext == (AtDepth = DepthsOf(next, child, source))'
BY AtDepthIs, PTL

LEMMA DepthsFacts ==
  ASSUME NEW nx, NEW ch, NEW s, NEW at, at = DepthsOf(nx, ch, s)
  PROVE  /\ at[0] = Walk(nx, ch[s], None)
         /\ \A d \in Nat : at[d + 1] = UNION {Walk(nx, ch[n], None) : n \in at[d]}
<1> DEFINE D == SUBSET NodeIds
<1>1. PICK f : f = [S \in D |-> UNION {Walk(nx, ch[n], None) : n \in S}]
  OBVIOUS
<1>2. Walk(nx, ch[s], None) \in D /\ f \in [D -> D]
  BY <1>1, WalkVisitsIds
<1> HIDE DEF D
<1>3. PICK g : g = [d \in Nat |-> IF d = 0 THEN Walk(nx, ch[s], None) ELSE f[g[d - 1]]]
  BY <1>2, Recursion
<1>4. \A d \in Nat : g[d] \in D
  <2> DEFINE Good == {d \in Nat : g[d] \in D}
  <2>1. 0 \in Good
    BY <1>2, <1>3
  <2>2. ASSUME NEW n \in Nat, n \in Good PROVE n + 1 \in Good
    <3>1. n + 1 \in Nat /\ n + 1 # 0 /\ (n + 1) - 1 = n
      OBVIOUS
    <3>2. g[n + 1] = f[g[n]]
      BY <1>3, <3>1
    <3> QED
      BY <1>2, <2>2, <3>1, <3>2
  <2>3. Nat \subseteq Good
    <3> HIDE DEF Good
    <3> QED
      BY <2>1, <2>2, SetInduction
  <2> QED
    BY <2>3
<1>5. g = [d \in Nat |-> IF d = 0 THEN Walk(nx, ch[s], None)
                         ELSE UNION {Walk(nx, ch[n], None) : n \in g[d - 1]}]
  <2>1. ASSUME NEW d \in Nat
        PROVE  g[d] = IF d = 0 THEN Walk(nx, ch[s], None)
                      ELSE UNION {Walk(nx, ch[n], None) : n \in g[d - 1]}
    <3>1. CASE d = 0
      BY <1>3, <3>1
    <3>2. CASE d # 0
      <4>1. d - 1 \in Nat
        BY <3>2
      <4>2. g[d] = f[g[d - 1]] /\ g[d - 1] \in D
        BY <1>3, <1>4, <3>2, <4>1
      <4> QED
        BY <1>1, <3>2, <4>2
    <3> QED
      BY <3>1, <3>2
  <2>2. g = [d \in Nat |-> g[d]]
    BY <1>3
  <2> QED
    BY <2>1, <2>2
<1>6. at = [d \in Nat |-> IF d = 0 THEN Walk(nx, ch[s], None)
                          ELSE UNION {Walk(nx, ch[n], None) : n \in at[d - 1]}]
  BY <1>5 DEF DepthsOf
<1>7. at[0] = Walk(nx, ch[s], None)
  BY <1>6
<1>8. ASSUME NEW d \in Nat PROVE at[d + 1] = UNION {Walk(nx, ch[n], None) : n \in at[d]}
  <2>1. d + 1 \in Nat /\ d + 1 # 0 /\ (d + 1) - 1 = d
    OBVIOUS
  <2>2. at[d + 1] = IF d + 1 = 0 THEN Walk(nx, ch[s], None)
                    ELSE UNION {Walk(nx, ch[n], None) : n \in at[(d + 1) - 1]}
    BY <1>6, <2>1
  <2> QED
    BY <2>1, <2>2
<1> QED
  BY <1>7, <1>8

\* A walk goes on to the next node.
LEMMA WalkGoesOn ==
  ASSUME NEW nx \in [NodeIds -> Link], NEW h \in Link
  PROVE  /\ h # None => h \in Walk(nx, h, None)
         /\ \A m \in Walk(nx, h, None) : nx[m] # None => nx[m] \in Walk(nx, h, None)
BY DEF Walk, Link

\* A walk depends on the links of a part that it does not leave.
LEMMA WalkAgrees ==
  ASSUME NEW nx, NEW nx2, NEW S \in SUBSET NodeIds, NEW h \in S \cup {None},
         \A m \in S : nx[m] \in S \cup {None} /\ nx2[m] = nx[m]
  PROVE  Walk(nx2, h, None) = Walk(nx, h, None)
<1>1. ASSUME NEW x \in Walk(nx, h, None), NEW T \in SUBSET NodeIds, h \in T \cup {None},
             \A m \in T : nx2[m] \in T \cup {None}
      PROVE  x \in T
  <2>1. Walk(nx, h, None) \subseteq T \cap S
    BY <1>1, WalkInside
  <2> QED
    BY <1>1, <2>1
<1>2. ASSUME NEW x \in Walk(nx2, h, None), NEW T \in SUBSET NodeIds, h \in T \cup {None},
             \A m \in T : nx[m] \in T \cup {None}
      PROVE  x \in T
  <2>0. /\ T \cap S \in SUBSET NodeIds /\ h \in (T \cap S) \cup {None, None}
        /\ \A m \in T \cap S : nx2[m] \in (T \cap S) \cup {None, None}
    BY <1>2
  <2>1. Walk(nx2, h, None) \subseteq T \cap S
    BY <2>0, WalkInside
  <2> QED
    BY <1>2, <2>1
<1> QED
  BY <1>1, <1>2 DEF Walk

\* Every copy but the root is in the list of a copy one level up.
Reached(nx, ch, C, r, of, dp) ==
  /\ dp \in [C -> Nat] /\ dp[r] = 0
  /\ \A c \in C \ {r} : \E p \in C : dp[c] = dp[p] + 1 /\ of[c] \in Walk(nx, ch[of[p]], None)

LEMMA ReachedAtDepth ==
  ASSUME NEW nx, NEW ch, NEW C, NEW r, NEW of, NEW dp, Reached(nx, ch, C, r, of, dp),
         NEW at, at = DepthsOf(nx, ch, of[r])
  PROVE  \A c \in C : Walk(nx, ch[of[c]], None) \subseteq at[dp[c]]
<1>1. /\ at[0] = Walk(nx, ch[of[r]], None)
      /\ \A d \in Nat : at[d + 1] = UNION {Walk(nx, ch[n], None) : n \in at[d]}
  BY DepthsFacts
<1> DEFINE Good == {d \in Nat : \A c \in C : dp[c] = d => Walk(nx, ch[of[c]], None) \subseteq at[d]}
<1>2. 0 \in Good
  <2>1. \A c \in C : dp[c] = 0 => c = r
    BY DEF Reached
  <2> QED
    BY <1>1, <2>1
<1>3. ASSUME NEW d \in Nat, d \in Good PROVE d + 1 \in Good
  <2> SUFFICES ASSUME NEW c \in C, dp[c] = d + 1
               PROVE  Walk(nx, ch[of[c]], None) \subseteq at[d + 1]
    OBVIOUS
  <2>1. Walk(nx, ch[of[c]], None) \subseteq UNION {Walk(nx, ch[n], None) : n \in at[d]}
    <3>1. CASE c = r
      BY <3>1 DEF Reached
    <3>2. CASE c # r
      <4>1. PICK p \in C : dp[c] = dp[p] + 1 /\ of[c] \in Walk(nx, ch[of[p]], None)
        BY <3>2 DEF Reached
      <4>2. dp[p] = d
        BY <4>1 DEF Reached
      <4>3. of[c] \in at[d]
        BY <1>3, <4>1, <4>2
      <4> QED
        BY <4>3
    <3> QED
      BY <3>1, <3>2
  <2> QED
    BY <1>1, <2>1
<1>4. Nat \subseteq Good
  <2> HIDE DEF Good
  <2> QED
    BY <1>2, <1>3, SetInduction
<1> QED
  BY <1>4 DEF Reached

\* The depth of each copy: the work list and the loop carry it.
Levels(of, dp) ==
  /\ \A c \in copies : of[c] \in Live
  /\ dp \in [copies -> 0 .. CircularLimit]
  /\ dp[root] = 0
  /\ \A c \in copies \ {root} : \E p \in copies : dp[c] = dp[p] + 1 /\ of[c] \in Chain(of[p])
  /\ \A c \in copies : child[c] # None => dp[child[c]] = dp[c] + 1
  /\ \A c \in copies \ {root} : next[c] # None => dp[next[c]] = dp[c]
  /\ \A i \in DOMAIN pending : dp[pending[i].copy] = pending[i].depth
  /\ pc = "children" =>
       /\ dp[frame.copy] = frame.depth
       /\ frame.previous # None => /\ dp[frame.previous] = frame.depth + 1
                                   /\ of[frame.previous] \in Chain(of[frame.copy])

Trouble == \/ AtDepth[CircularLimit] # {}
           \/ \E d \in 0 .. CircularLimit : ~(AtDepth[d] \subseteq Live)

DeepInv ==
  /\ pc \in {"pop", "children", "done"} /\ deep => \E of, dp : Faithful(of) /\ Levels(of, dp)
  /\ pc = "refused" => Trouble

\* What duplicate copied without trouble lies within the limit, and is live.
LEMMA CopiedWithoutTrouble ==
  ASSUME DupInv, pc = "done", deep, NEW of, Faithful(of), NEW dp, Levels(of, dp)
  PROVE  ~Trouble
<1> USE NoneIsNoNode
<1>1. /\ copies \subseteq NodeIds
      /\ next \in [NodeIds -> Link] /\ child \in [NodeIds -> Link] /\ Live \subseteq NodeIds
  BY CallTypes
<1>2. pending = <<>> /\ ApartInv
  BY DEF DupInv, WorkInv
<1>3. Open = {}
  BY <1>2 DEF Open
<1>4. /\ root \in copies /\ \A c \in copies : {next[c], child[c]} \subseteq copies \cup {None}
  BY <1>2 DEF ApartInv
<1>5. /\ of[root] = source
      /\ \A c \in copies : Stands(of, child[c], child[of[c]])
      /\ \A c \in copies \ {root} : Stands(of, next[c], next[of[c]])
  BY <1>3 DEF Faithful
<1>6. /\ \A c \in copies : of[c] \in Live
      /\ dp \in [copies -> 0 .. CircularLimit] /\ dp[root] = 0
      /\ \A c \in copies : child[c] # None => dp[child[c]] = dp[c] + 1
      /\ \A c \in copies \ {root} : next[c] # None => dp[next[c]] = dp[c]
  BY DEF Levels
<1>7. PICK at : at = DepthsOf(next, child, source)
  OBVIOUS
<1>8. /\ at[0] = Walk(next, child[source], None)
      /\ \A d \in Nat : at[d + 1] = UNION {Walk(next, child[n], None) : n \in at[d]}
  BY <1>7, DepthsFacts
<1> DEFINE At(d) == {of[c] : c \in {k \in copies : dp[k] = d}}
\* The children of what is copied at one depth are copied at the next.
<1>9. ASSUME NEW c \in copies PROVE Walk(next, child[of[c]], None) \subseteq At(dp[c] + 1)
  <2>1. At(dp[c] + 1) \in SUBSET NodeIds
    BY <1>1, <1>6
  <2>2. child[of[c]] \in At(dp[c] + 1) \cup {None, None}
    <3>1. CASE child[of[c]] = None
      BY <3>1
    <3>2. CASE child[of[c]] # None
      <4>1. child[c] \in copies /\ of[child[c]] = child[of[c]]
        BY <1>5, <3>2 DEF Stands
      <4>2. child[c] # None
        BY <1>1, <4>1
      <4>3. dp[child[c]] = dp[c] + 1
        BY <1>6, <4>2
      <4> QED
        BY <4>1, <4>3
    <3> QED
      BY <3>1, <3>2
  <2>3. ASSUME NEW m \in At(dp[c] + 1) PROVE next[m] \in At(dp[c] + 1) \cup {None, None}
    <3>1. PICK k \in copies : dp[k] = dp[c] + 1 /\ m = of[k]
      OBVIOUS
    <3>2. k # root
      BY <1>6, <3>1
    <3>3. CASE next[m] = None
      BY <3>3
    <3>4. CASE next[m] # None
      <4>1. next[k] \in copies /\ of[next[k]] = next[m]
        BY <1>5, <3>1, <3>2, <3>4 DEF Stands
      <4>2. next[k] # None
        BY <1>1, <4>1
      <4>3. dp[next[k]] = dp[c] + 1
        BY <1>6, <3>1, <3>2, <4>2
      <4> QED
        BY <4>1, <4>3
    <3> QED
      BY <3>3, <3>4
  <2> HIDE DEF At
  <2> QED
    BY <2>1, <2>2, <2>3, WalkInside
<1> DEFINE Good == {d \in Nat : at[d] \subseteq At(d + 1)}
<1>10. 0 \in Good
  <2>1. Walk(next, child[of[root]], None) \subseteq At(dp[root] + 1)
    BY <1>4, <1>9
  <2> HIDE DEF At
  <2> QED
    BY <1>5, <1>6, <1>8, <2>1
<1>11. ASSUME NEW d \in Nat, d \in Good PROVE d + 1 \in Good
  <2> SUFFICES ASSUME NEW x \in at[d + 1] PROVE x \in At((d + 1) + 1)
    OBVIOUS
  <2>1. PICK n \in at[d] : x \in Walk(next, child[n], None)
    BY <1>8
  <2>2. n \in At(d + 1)
    BY <1>11
  <2>3. PICK c \in copies : dp[c] = d + 1 /\ n = of[c]
    BY <2>2
  <2>4. x \in At(dp[c] + 1)
    <3> HIDE DEF At
    <3> QED
      BY <1>9, <2>1, <2>3
  <2> QED
    BY <2>3, <2>4
<1>12. Nat \subseteq Good
  <2> HIDE DEF Good
  <2> QED
    BY <1>10, <1>11, SetInduction
<1>13. \A d \in Nat : at[d] \subseteq At(d + 1)
  BY <1>12
<1>14. At(CircularLimit + 1) = {}
  BY <1>6, CircularLimitAssumption
<1>15. \A d \in 0 .. CircularLimit : d \in Nat /\ At(d + 1) \subseteq Live
  BY <1>6, CircularLimitAssumption
<1>16. AtDepth = at
  BY <1>7, AtDepthIs
<1> HIDE DEF At, Good
<1> QED
  BY <1>13, <1>14, <1>15, <1>16, CircularLimitAssumption DEF Trouble

\* Where duplicate gives up, there is a reason, and clearing the copies leaves it.
LEMMA GivesUpForAReason ==
  ASSUME DupInv, GiveUp, NEW of, Faithful(of), NEW dp, Levels(of, dp)
  PROVE  Trouble'
<1> USE NoneIsNoNode
<1>1. /\ pc = "children" /\ frame.next # None /\ ~MayCopy
      /\ size' = size /\ source' = source /\ deleted' = deleted \cup copies
      /\ next' = Cleared(next, copies) /\ child' = Cleared(child, copies)
  BY DEF GiveUp, DiscardNodes, call
<1>2. /\ copies \subseteq InBounds /\ InBounds \subseteq NodeIds
      /\ next \in [NodeIds -> Link] /\ child \in [NodeIds -> Link]
      /\ \A n \in NodeIds : {next[n], child[n]} \subseteq InBounds \cup {None}
  BY CallTypes
<1>3. ApartInv /\ frame \in Loops
  BY <1>1 DEF DupInv, WorkInv
<1>4. /\ frame.copy \in copies /\ frame.previous \in copies \cup {None}
      /\ frame.depth \in 0 .. CircularLimit
  BY <1>3 DEF Loops
<1> DEFINE Rest == InBounds \ copies
<1>5. /\ Rest \in SUBSET NodeIds
      /\ \A n \in Rest : next[n] \in Rest \cup {None} /\ child[n] \in Rest \cup {None}
  BY <1>2, <1>3 DEF ApartInv
<1>6. \A n \in Rest : next'[n] = next[n] /\ child'[n] = child[n]
  BY <1>1, <1>2 DEF Cleared
<1>7. /\ of \in [copies -> Rest] /\ of[root] = source /\ root \in copies
      /\ frame.previous = None => frame.next = child[of[frame.copy]]
      /\ frame.previous # None => frame.next = next[of[frame.previous]]
  BY <1>1, <1>3 DEF Faithful, ApartInv
<1>8. /\ dp \in [copies -> 0 .. CircularLimit] /\ dp[root] = 0
      /\ \A c \in copies \ {root} : \E p \in copies : dp[c] = dp[p] + 1 /\ of[c] \in Chain(of[p])
      /\ dp[frame.copy] = frame.depth
      /\ frame.previous # None => of[frame.previous] \in Chain(of[frame.copy])
  BY <1>1 DEF Levels
<1>9. frame.next \in Chain(of[frame.copy])
  <2>1. child[of[frame.copy]] \in Link
    BY <1>2, <1>4, <1>5, <1>7
  <2> QED
    BY <1>1, <1>2, <1>7, <1>8, <2>1, WalkGoesOn DEF Chain
<1>10. \A n \in Rest : Walk(next', child'[n], None) = Chain(n)
  <2> SUFFICES ASSUME NEW n \in Rest PROVE Walk(next', child'[n], None) = Chain(n)
    OBVIOUS
  <2>1. child'[n] = child[n] /\ child[n] \in Rest \cup {None}
    BY <1>5, <1>6
  <2>2. \A m \in Rest : next[m] \in Rest \cup {None} /\ next'[m] = next[m]
    BY <1>5, <1>6
  <2> HIDE DEF Rest
  <2>3. Walk(next', child[n], None) = Walk(next, child[n], None)
    BY <1>5, <2>1, <2>2, WalkAgrees
  <2> QED
    BY <2>1, <2>3 DEF Chain
<1>11. Reached(next', child', copies, root, of, dp)
  BY <1>7, <1>8, <1>10, CircularLimitAssumption DEF Reached
<1>12. PICK at : at = DepthsOf(next', child', source)
  OBVIOUS
<1>13. Walk(next', child'[of[frame.copy]], None) \subseteq at[dp[frame.copy]]
  BY <1>4, <1>7, <1>11, <1>12, ReachedAtDepth
<1>14. frame.next \in at[frame.depth]
  BY <1>4, <1>7, <1>8, <1>9, <1>10, <1>13
<1>15. AtDepth' = at
  <2>1. AtDepth' = DepthsOf(next', child', source')
    BY AtDepthIsNext
  <2> QED
    BY <1>1, <1>12, <2>1
<1>16. frame.depth = CircularLimit \/ frame.next \notin Live'
  BY <1>1, <1>4, CircularLimitAssumption DEF MayCopy, Live, InBounds
<1> QED
  BY <1>4, <1>14, <1>15, <1>16 DEF Trouble

LEMMA DuplicateLevels ==
  ASSUME DupInv, NEW node \in NodeIds, NEW recurse \in BOOLEAN, Duplicate(node, recurse)
  PROVE  DeepInv'
<1> USE NoneIsNoNode
<1>1. /\ TreeInv /\ pc = "idle" /\ copies = {} /\ node \in Live
      /\ source' = node /\ root' = size /\ copies' = {size}
      /\ next' = next /\ child' = child /\ pc' \in {"pop", "done"}
      /\ DuplicateSingleNode(node)
  BY DEF DupInv, WorkInv, Duplicate, DuplicateSingleNode, links
<1>2. /\ Live' = Live \cup {size} /\ next[size] = None /\ child[size] = None
  BY <1>1, SingleNodeFacts
<1>3. \A i \in DOMAIN pending' : pending'[i].copy = size /\ pending'[i].depth = 0
  BY DEF Duplicate, Work
<1>4. PICK of : of = [c \in {size} |-> node]
  OBVIOUS
<1>5. PICK dp : dp = [c \in {size} |-> 0]
  OBVIOUS
<1>6. Faithful(of)'
  BY <1>4, DuplicateKeeps
<1>7. dp \in [copies' -> 0 .. CircularLimit] /\ dp[size] = 0 /\ of[size] \in Live'
  BY <1>1, <1>2, <1>4, <1>5, CircularLimitAssumption
<1>8. Levels(of, dp)'
  BY <1>1, <1>2, <1>3, <1>7 DEF Levels
<1> QED
  BY <1>1, <1>6, <1>8 DEF DeepInv

\* A step that makes and links nothing.
LEMMA QuietLevels ==
  ASSUME DupInv, PopPending \/ ChildrenCopied \/ Return, NEW of, NEW dp, Levels(of, dp)
  PROVE  Levels(of, dp)'
<1>1. /\ copies' = copies /\ root' = root /\ next' = next /\ child' = child
      /\ UNCHANGED vars
  BY DEF PopPending, ChildrenCopied, Return, call, vars
<1>2. Live' = Live /\ \A n : Chain(n)' = Chain(n)
  BY <1>1, ArenaSame DEF DupInv, Chain
<1>3. CASE PopPending
  <2>1. pending \in Seq(Works) /\ pending # <<>> /\ pending' = Front(pending)
        /\ frame' = Loop(Last(pending)) /\ pc' = "children"
    BY <1>3, CallTypes DEF PopPending
  <2>2. /\ Len(pending) \in DOMAIN pending /\ Last(pending) = pending[Len(pending)]
        /\ DOMAIN Front(pending) = DOMAIN pending \ {Len(pending)}
        /\ \A i \in DOMAIN Front(pending) : Front(pending)[i] = pending[i]
    BY <2>1, PopFacts
  <2>3. /\ frame'.copy = pending[Len(pending)].copy /\ frame'.depth = pending[Len(pending)].depth
        /\ frame'.previous = None
    BY <2>1, <2>2 DEF Loop
  <2>4. \A i \in DOMAIN pending' : i \in DOMAIN pending /\ pending'[i] = pending[i]
    BY <2>1, <2>2
  <2> QED
    BY <1>1, <1>2, <2>1, <2>2, <2>3, <2>4 DEF Levels
<1>4. CASE ChildrenCopied \/ Return
  <2>1. pending' = pending /\ pc' # "children"
    BY <1>4 DEF ChildrenCopied, Return
  <2> QED
    BY <1>1, <1>2, <2>1 DEF Levels
<1> QED
  BY <1>3, <1>4

\* The new copy is one level below the copy whose list it joins.
LEMMA CopyChildLevels ==
  ASSUME DupInv, CopyChild
  PROVE  \A of, dp, of2, dp2 :
           /\ Faithful(of) /\ Levels(of, dp)
           /\ of2 = [c \in copies \cup {size} |-> IF c = size THEN frame.next ELSE of[c]]
           /\ dp2 = [c \in copies \cup {size} |-> IF c = size THEN frame.depth + 1 ELSE dp[c]]
           => Levels(of2, dp2)'
<1> USE NoneIsNoNode
<1>1. /\ pc = "children" /\ pc' = "children" /\ frame.next \in Live
      /\ frame.copy \in copies /\ frame.previous \in copies \cup {None}
      /\ frame.depth \in 0 .. CircularLimit /\ frame.depth + 1 \in 0 .. CircularLimit
      /\ size \in NodeIds /\ size \notin InBounds
      /\ InBounds' = InBounds \cup {size} /\ Live' = Live \cup {size}
      /\ copies' = copies \cup {size} /\ root' = root
      /\ next[size] = None /\ child[size] = None
  BY CopyChildFacts
<1>2. /\ frame.previous # None => next'[frame.previous] = size /\ child' = child
      /\ frame.previous = None => child'[frame.copy] = size
      /\ \A n \in NodeIds : n # frame.previous => next'[n] = next[n]
      /\ \A n \in NodeIds : n # frame.copy => child'[n] = child[n]
  BY LinkCopyFacts
<1>3. /\ copies \subseteq InBounds /\ InBounds \subseteq NodeIds /\ Live \subseteq InBounds
      /\ next \in [NodeIds -> Link] /\ child \in [NodeIds -> Link]
      /\ \A n \in NodeIds : {next[n], child[n]} \subseteq InBounds \cup {None}
  BY CallTypes
<1>4. ApartInv
  BY <1>1 DEF DupInv
<1> DEFINE last == Len(pending) + 1
<1>5. /\ DOMAIN pending' = DOMAIN pending \cup {last}
      /\ pending'[last].copy = size
      /\ \A i \in DOMAIN pending : pending'[i] = pending[i] /\ pending[i] \in Works
      /\ frame'.copy = frame.copy /\ frame'.previous = size
  BY CopyChildPending
<1>6. pending'[last].depth = frame.depth + 1 /\ frame'.depth = frame.depth
  <2>1. pending' = Append(pending, Work(frame.next, size, frame.depth + 1)) /\ frame' = [frame EXCEPT !.next = next[frame.next], !.previous = size]
    BY DEF CopyChild
  <2>2. pending'[last] = Work(frame.next, size, frame.depth + 1)
    BY <2>1, CallTypes
  <2>3. frame \in Loops
    BY <1>1 DEF DupInv, WorkInv
  <2> QED
    BY <2>1, <2>2, <2>3 DEF Work, Loops
<1> HIDE DEF last
<1> DEFINE Rest == InBounds \ copies
<1>7. SUFFICES
        ASSUME NEW of, NEW dp, Faithful(of), Levels(of, dp), NEW of2, NEW dp2,
               of2 = [c \in copies \cup {size} |-> IF c = size THEN frame.next ELSE of[c]],
               dp2 = [c \in copies \cup {size} |-> IF c = size THEN frame.depth + 1 ELSE dp[c]]
        PROVE  Levels(of2, dp2)'
  OBVIOUS
<1>8. /\ of \in [copies -> Rest] /\ root \in copies
      /\ frame.previous = None => frame.next = child[of[frame.copy]]
      /\ frame.previous # None => frame.next = next[of[frame.previous]]
  BY <1>1, <1>4, <1>7 DEF Faithful, ApartInv
<1>9. /\ \A c \in copies : of[c] \in Live
      /\ dp \in [copies -> 0 .. CircularLimit] /\ dp[root] = 0
      /\ \A c \in copies \ {root} : \E p \in copies : dp[c] = dp[p] + 1 /\ of[c] \in Chain(of[p])
      /\ \A c \in copies : child[c] # None => dp[child[c]] = dp[c] + 1
      /\ \A c \in copies \ {root} : next[c] # None => dp[next[c]] = dp[c]
      /\ \A i \in DOMAIN pending : dp[pending[i].copy] = pending[i].depth
      /\ dp[frame.copy] = frame.depth
      /\ frame.previous # None => /\ dp[frame.previous] = frame.depth + 1
                                  /\ of[frame.previous] \in Chain(of[frame.copy])
  BY <1>1, <1>7 DEF Levels
<1>10. /\ of2[size] = frame.next /\ dp2[size] = frame.depth + 1
       /\ \A c \in copies : c # size /\ c \in NodeIds /\ of2[c] = of[c] /\ dp2[c] = dp[c]
       /\ dp2 \in [copies' -> 0 .. CircularLimit]
  BY <1>1, <1>3, <1>7, <1>9
<1>11. /\ Rest \in SUBSET NodeIds
       /\ \A n \in Rest : /\ next[n] \in Rest \cup {None} /\ child[n] \in Rest \cup {None}
                          /\ next'[n] = next[n] /\ child'[n] = child[n]
  BY <1>1, <1>2, <1>3, <1>4 DEF ApartInv
<1>12. \A n \in Rest : Walk(next', child'[n], None) = Chain(n)
  <2> SUFFICES ASSUME NEW n \in Rest PROVE Walk(next', child'[n], None) = Chain(n)
    OBVIOUS
  <2>1. child'[n] = child[n] /\ child[n] \in Rest \cup {None}
    BY <1>11
  <2> HIDE DEF Rest
  <2>2. Walk(next', child[n], None) = Walk(next, child[n], None)
    BY <1>11, <2>1, WalkAgrees
  <2> QED
    BY <2>1, <2>2 DEF Chain
<1>13. frame.next \in Chain(of[frame.copy])
  <2>1. child[of[frame.copy]] \in Link /\ frame.next # None
    BY <1>1, <1>3, <1>8
  <2> QED
    BY <1>1, <1>3, <1>8, <1>9, <2>1, WalkGoesOn DEF Chain
<1>14. \A c \in copies' : of2[c] \in Live'
  BY <1>1, <1>9, <1>10
<1>15. ASSUME NEW c \in copies' \ {root'}
       PROVE  \E p \in copies' : dp2[c] = dp2[p] + 1 /\ of2[c] \in Walk(next', child'[of2[p]], None)
  <2>1. CASE c = size
    <3>1. frame.copy \in copies' /\ dp2[c] = dp2[frame.copy] + 1
      BY <1>1, <1>9, <1>10, <2>1
    <3>2. of2[c] \in Walk(next', child'[of2[frame.copy]], None)
      BY <1>1, <1>8, <1>10, <1>12, <1>13, <2>1
    <3> QED
      BY <3>1, <3>2
  <2>2. CASE c # size
    <3>1. c \in copies \ {root}
      BY <1>1, <1>15, <2>2
    <3>2. PICK p \in copies : dp[c] = dp[p] + 1 /\ of[c] \in Chain(of[p])
      BY <1>9, <3>1
    <3>3. p \in copies' /\ dp2[c] = dp2[p] + 1
      BY <1>1, <1>10, <3>1, <3>2
    <3>4. of2[c] \in Walk(next', child'[of2[p]], None)
      BY <1>8, <1>10, <1>12, <3>1, <3>2
    <3> QED
      BY <3>3, <3>4
  <2> QED
    BY <2>1, <2>2
<1>16. ASSUME NEW c \in copies', child'[c] # None PROVE dp2[child'[c]] = dp2[c] + 1
  <2>1. CASE child'[c] = size
    <3>1. c = frame.copy
      BY <1>1, <1>2, <1>3, <2>1
    <3> QED
      BY <1>1, <1>9, <1>10, <2>1, <3>1
  <2>2. CASE child'[c] # size
    <3>1. c \in copies /\ child'[c] = child[c]
      <4>1. c # size
        BY <1>1, <1>2, <1>3, <1>16
      <4> QED
        BY <1>1, <1>2, <1>3, <2>2, <4>1
    <3>2. child[c] \in copies
      BY <1>4, <1>16, <3>1 DEF ApartInv
    <3> QED
      BY <1>9, <1>10, <1>16, <3>1, <3>2
  <2> QED
    BY <2>1, <2>2
<1>17. ASSUME NEW c \in copies' \ {root'}, next'[c] # None PROVE dp2[next'[c]] = dp2[c]
  <2>1. CASE c = frame.previous
    BY <1>1, <1>2, <1>3, <1>9, <1>10, <2>1
  <2>2. CASE c # frame.previous
    <3>1. c \in copies \ {root} /\ next'[c] = next[c]
      BY <1>1, <1>2, <1>3, <1>17, <2>2
    <3>2. next[c] \in copies
      BY <1>4, <1>17, <3>1 DEF ApartInv
    <3> QED
      BY <1>9, <1>10, <1>17, <3>1, <3>2
  <2> QED
    BY <2>1, <2>2
<1>18. \A i \in DOMAIN pending' : dp2[pending'[i].copy] = pending'[i].depth
  <2>1. \A i \in DOMAIN pending : pending[i].copy \in copies
    BY <1>5 DEF Works
  <2> QED
    BY <1>5, <1>6, <1>9, <1>10, <2>1
<1>19. /\ dp2[frame'.copy] = frame'.depth /\ dp2[frame'.previous] = frame'.depth + 1
       /\ of2[frame'.previous] \in Walk(next', child'[of2[frame'.copy]], None)
  BY <1>1, <1>5, <1>6, <1>8, <1>9, <1>10, <1>12, <1>13
<1>20. dp2[root'] = 0
  BY <1>1, <1>8, <1>9, <1>10
<1> QED
  BY <1>10, <1>14, <1>15, <1>16, <1>17, <1>18, <1>19, <1>20 DEF Levels, Chain

LEMMA DeepStep == DupInv /\ DeepInv /\ [DupNext]_dvars => DeepInv'
<1> SUFFICES ASSUME DupInv, DeepInv, [DupNext]_dvars PROVE DeepInv'
  OBVIOUS
<1>1. CASE Build
  BY <1>1 DEF Build, DeepInv
<1>2. ASSUME NEW node \in NodeIds, NEW recurse \in BOOLEAN, Duplicate(node, recurse)
      PROVE  DeepInv'
  BY <1>2, DuplicateLevels
<1>3. CASE CopyNext
  <2>1. pc \in {"pop", "children"} /\ deep
    BY <1>3 DEF CopyNext, PopPending, CopyChild, ChildrenCopied, GiveUp, Return, DupInv, WorkInv
  <2>2. \E of, dp : Faithful(of) /\ Levels(of, dp)
    BY <2>1 DEF DeepInv
  <2>3. PICK of, dp : Faithful(of) /\ Levels(of, dp)
    BY <2>2
  <2>4. CASE PopPending \/ ChildrenCopied \/ Return
    <3>1. Faithful(of)'
      BY <2>3, <2>4, PopKeeps, ChildrenCopiedKeeps, ReturnKeeps
    <3>2. Levels(of, dp)'
      BY <2>3, <2>4, QuietLevels
    <3>3. pc' # "refused"
      BY <2>4 DEF PopPending, ChildrenCopied, Return
    <3> QED
      BY <3>1, <3>2, <3>3 DEF DeepInv
  <2>5. CASE CopyChild
    <3>1. PICK of2 : of2 = [c \in copies \cup {size} |-> IF c = size THEN frame.next ELSE of[c]]
      OBVIOUS
    <3>2. PICK dp2 : dp2 = [c \in copies \cup {size} |-> IF c = size THEN frame.depth + 1 ELSE dp[c]]
      OBVIOUS
    <3>3. Faithful(of2)'
      BY <2>3, <2>5, <3>1, CopyChildFaithful
    <3>4. Levels(of2, dp2)'
      BY <2>3, <2>5, <3>1, <3>2, CopyChildLevels
    <3>5. pc' = "children"
      BY <2>5, CopyChildFacts
    <3> QED
      BY <3>3, <3>4, <3>5 DEF DeepInv
  <2>6. CASE GiveUp
    <3>1. Trouble'
      BY <2>3, <2>6, GivesUpForAReason
    <3>2. pc' = "refused"
      BY <2>6 DEF GiveUp
    <3> QED
      BY <3>1, <3>2 DEF DeepInv
  <2> QED
    BY <1>3, <2>4, <2>5, <2>6 DEF CopyNext
<1>4. CASE UNCHANGED dvars
  <2>1. /\ pc' = pc /\ copies' = copies /\ pending' = pending /\ frame' = frame
        /\ source' = source /\ deep' = deep /\ root' = root
        /\ next' = next /\ prev' = prev /\ child' = child /\ key' = key /\ isRef' = isRef
    BY <1>4 DEF dvars, vars, call
  <2>2. Live' = Live /\ InBounds' = InBounds
    BY <1>4, ArenaSame DEF DupInv, dvars
  <2>3. AtDepth' = AtDepth
    BY <2>1, AtDepthIs, AtDepthIsNext
  <2>4. Open' = Open /\ \A n : Chain(n)' = Chain(n)
    BY <2>1 DEF Open, Chain
  <2>5. \A of : Faithful(of) => Faithful(of)'
    BY <2>1, <2>2, <2>4 DEF Faithful, Stands
  <2>6. \A of, dp : Levels(of, dp) => Levels(of, dp)'
    BY <2>1, <2>2, <2>4 DEF Levels
  <2>7. Trouble => Trouble'
    BY <2>2, <2>3 DEF Trouble
  <2> QED
    BY <2>1, <2>5, <2>6, <2>7 DEF DeepInv
<1> QED
  BY <1>1, <1>2, <1>3, <1>4 DEF DupNext

\* A copy is refused exactly when a node within the limit is deleted or a node lies
\* below it, whatever the order of the work list and wherever the node is.
THEOREM RefusedExactlyForAReason == DupSpec => []RefusedForAReason
<1>1. DupInit => DeepInv
  BY DEF DupInit, DeepInv
<1>2. DupInv /\ DeepInv => RefusedForAReason
  <2> SUFFICES ASSUME DupInv, DeepInv, pc \in {"done", "refused"}, deep
               PROVE  pc = "refused" <=> Trouble
    BY DEF RefusedForAReason, Trouble
  <2>1. CASE pc = "refused"
    BY <2>1 DEF DeepInv
  <2>2. CASE pc = "done"
    <3>1. \E of, dp : Faithful(of) /\ Levels(of, dp)
      BY <2>2 DEF DeepInv
    <3> QED
      BY <2>2, <3>1, CopiedWithoutTrouble
  <2> QED
    BY <2>1, <2>2
<1> QED
  BY <1>1, <1>2, DeepStep, DupInvAlways, PTL DEF DupSpec
=============================================================================
