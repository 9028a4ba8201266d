-------------------------- MODULE ArenaTreesProofs --------------------------
(***************************************************************************)
(* For every number of nodes, every set of keys and every caller: the      *)
(* arena's state keeps its types, and no link ever leaves the vector.      *)
(* Under the contract of ArenaTrees the links of the arena spell a forest. *)
(*                                                                         *)
(* Every operation is a composition of four edits of the links, and each   *)
(* edit has a lemma that it keeps the links well formed:                   *)
(*                                                                         *)
(*   AllocSafe   one more blank node                                       *)
(*   UnlinkSafe  take a node out of the list it is in                      *)
(*   LinkSafe    put a tree that nothing holds between two neighbours      *)
(*   ClearSafe   delete a tree that nothing holds                          *)
(*                                                                         *)
(* A walk is a least closed set, so what it visits is shown to lie in a    *)
(* set by showing that set closed: no proof here needs an induction over   *)
(* the length of a list or the depth of a tree.                            *)
(***************************************************************************)
EXTENDS ArenaTrees, NaturalLemmas, TLAPS

-----------------------------------------------------------------------------
(* Any caller: types and bounds. *)

BoundsInv == TypeOK /\ LinksInBounds

\* None is not a node and not a key.
LEMMA NoneIsNoNode == None \notin NodeIds /\ None \notin Keys
BY NoneAssumption

\* The ids in bounds, and the id the next node will get, are node ids.
LEMMA RangeIsIds ==
  ASSUME NEW s \in 0 .. MaxNodes
  PROVE  0 .. s - 1 \subseteq NodeIds /\ (s < MaxNodes => s \in NodeIds)
BY MaxNodesAssumption DEF NodeIds

LEMMA BoundsAreIds ==
  ASSUME size \in 0 .. MaxNodes
  PROVE  InBounds \subseteq NodeIds /\ (size < MaxNodes => size \in NodeIds)
BY RangeIsIds DEF InBounds

\* What a walk visits are nodes.
LEMMA WalkVisitsIds == \A nx, from, stop : Walk(nx, from, stop) \subseteq NodeIds
BY DEF Walk

\* A deletion that starts in bounds stays in bounds.
LEMMA OwnedInBounds ==
  ASSUME NEW nx, NEW ch, NEW n \in InBounds, InBounds \subseteq NodeIds,
         \A m \in InBounds : nx[m] \in InBounds \cup {None} /\ ch[m] \in InBounds \cup {None}
  PROVE  Owned(nx, ch, n) \subseteq InBounds
BY DEF Owned

\* The links a step stores, in one place: they are typed and in bounds.
Within(f, S) == f \in [NodeIds -> S \cup {None}]

LEMMA BoundsInvIsWithin ==
  ASSUME TypeOK
  PROVE  LinksInBounds <=> /\ deleted \subseteq InBounds
                           /\ Within(next, InBounds)
                           /\ Within(prev, InBounds)
                           /\ Within(child, InBounds)
BY DEF TypeOK, LinksInBounds, Within, Link

\* The same, after a step.
LEMMA WithinIsBoundsInv ==
  ASSUME size' \in 0 .. MaxNodes,
         deleted' \subseteq InBounds',
         Within(next', InBounds'), Within(prev', InBounds'), Within(child', InBounds'),
         key' \in [NodeIds -> Keys \cup {None}],
         isRef' \in [NodeIds -> BOOLEAN]
  PROVE  BoundsInv'
<1>1. InBounds' \subseteq NodeIds
  BY RangeIsIds DEF InBounds
<1>2. TypeOK'
  BY <1>1 DEF TypeOK, Within, Link
<1>3. LinksInBounds'
  BY DEF LinksInBounds, Within
<1> QED
  BY <1>2, <1>3 DEF BoundsInv

\* Deleting on links that are in bounds leaves the arena in bounds.
LEMMA DeleteChainBounds ==
  ASSUME BoundsInv, NEW n \in InBounds, NEW nx, NEW pv, NEW ch, NEW ky,
         Within(nx, InBounds), Within(pv, InBounds), Within(ch, InBounds),
         ky \in [NodeIds -> Keys \cup {None}],
         DeleteChain(nx, pv, ch, ky, n)
  PROVE  BoundsInv'
<1>1. InBounds \subseteq NodeIds /\ size \in 0 .. MaxNodes
  BY BoundsAreIds DEF BoundsInv, TypeOK
<1>2. Owned(nx, ch, n) \subseteq InBounds
  <2>1. \A m \in InBounds : nx[m] \in InBounds \cup {None} /\ ch[m] \in InBounds \cup {None}
    BY <1>1 DEF Within
  <2> QED
    BY <1>1, <2>1, OwnedInBounds
<1>3. size' = size /\ InBounds' = InBounds /\ isRef' = isRef
  BY DEF DeleteChain, InBounds
<1>4. deleted' \subseteq InBounds
  BY <1>2 DEF DeleteChain, BoundsInv, LinksInBounds
<1>5. Within(next', InBounds) /\ Within(prev', InBounds) /\ Within(child', InBounds)
  BY DEF DeleteChain, Cleared, Within
<1>6. key' \in [NodeIds -> Keys \cup {None}]
  BY DEF DeleteChain, Cleared
<1> QED
  BY <1>1, <1>3, <1>4, <1>5, <1>6, WithinIsBoundsInv DEF BoundsInv, TypeOK, Within

-----------------------------------------------------------------------------
(* The operations. *)

LEMMA LinkLastBounds ==
  ASSUME BoundsInv, NEW parent \in NodeIds, NEW item \in NodeIds,
         NEW k \in Keys \cup {None}, NEW B, InBounds \subseteq B, item \in B,
         LinkLast(parent, item, k)
  PROVE  /\ Within(next', B) /\ Within(prev', B) /\ Within(child', B)
         /\ key' \in [NodeIds -> Keys \cup {None}]
<1>1. Within(next, InBounds) /\ Within(prev, InBounds) /\ Within(child, InBounds)
  BY BoundsInvIsWithin DEF BoundsInv
<1>2. Within(next, B) /\ Within(prev, B) /\ Within(child, B)
  BY <1>1 DEF Within
<1> DEFINE nx == [next EXCEPT ![item] = None]
           pv == [prev EXCEPT ![item] = None]
<1>3. Within(nx, B) /\ Within(pv, B)
  BY <1>2 DEF Within
<1>4. key' \in [NodeIds -> Keys \cup {None}]
  BY DEF LinkLast, BoundsInv, TypeOK
<1>5. CASE child' = [child EXCEPT ![parent] = item] /\ next' = nx /\ prev' = pv
  BY <1>2, <1>3, <1>4, <1>5 DEF Within
<1>6. ASSUME child' = child, NEW last \in Walk(nx, child[parent], None),
             next' = [nx EXCEPT ![last] = item], prev' = [pv EXCEPT ![item] = last]
      PROVE  Within(next', B) /\ Within(prev', B) /\ Within(child', B)
  <2>1. last \in InBounds
    <3>1. \A m \in InBounds : nx[m] \in InBounds \cup {None}
      <4>1. InBounds \subseteq NodeIds
        BY BoundsAreIds DEF BoundsInv, TypeOK
      <4> QED
        BY <1>1, <4>1 DEF Within
    <3>2. child[parent] \in InBounds \cup {None}
      BY <1>1 DEF Within
    <3>3. InBounds \in SUBSET NodeIds
      BY BoundsAreIds DEF BoundsInv, TypeOK
    <3> QED
      BY <1>6, <3>1, <3>2, <3>3 DEF Walk
  <2> QED
    BY <1>2, <1>3, <1>6, <2>1 DEF Within
<1>7. \/ child' = [child EXCEPT ![parent] = item] /\ next' = nx /\ prev' = pv
      \/ /\ child' = child
         /\ \E last \in Walk(nx, child[parent], None) :
              next' = [nx EXCEPT ![last] = item] /\ prev' = [pv EXCEPT ![item] = last]
  BY DEF LinkLast
<1> QED
  BY <1>4, <1>5, <1>6, <1>7

\* A step that keeps size, deleted and isRef.
LEMMA RelinkBounds ==
  ASSUME BoundsInv, UNCHANGED <<size, deleted, isRef>>,
         Within(next', InBounds), Within(prev', InBounds), Within(child', InBounds),
         key' \in [NodeIds -> Keys \cup {None}]
  PROVE  BoundsInv'
<1>1. size \in 0 .. MaxNodes /\ deleted \subseteq InBounds /\ isRef \in [NodeIds -> BOOLEAN]
  BY DEF BoundsInv, TypeOK, LinksInBounds
<1>2. InBounds' = InBounds
  BY DEF InBounds
<1> QED
  BY <1>1, <1>2, WithinIsBoundsInv DEF Within

LEMMA AllocBounds ==
  ASSUME BoundsInv, NEW ch \in InBounds \cup {None}, NEW ref \in BOOLEAN, Alloc(ch, ref)
  PROVE  BoundsInv'
<1>1. size \in 0 .. MaxNodes /\ size < MaxNodes /\ size' = size + 1
  BY DEF BoundsInv, TypeOK, Alloc
<1>2. size' \in 0 .. MaxNodes /\ InBounds \subseteq InBounds'
  BY <1>1, MaxNodesAssumption DEF InBounds
<1>3. Within(next, InBounds) /\ Within(prev, InBounds) /\ Within(child, InBounds)
  BY BoundsInvIsWithin DEF BoundsInv
<1>4. Within(next', InBounds') /\ Within(prev', InBounds') /\ Within(child', InBounds')
  BY <1>2, <1>3 DEF Alloc, Within
<1>5. deleted' \subseteq InBounds'
  BY <1>2 DEF Alloc, BoundsInv, LinksInBounds
<1>6. key' \in [NodeIds -> Keys \cup {None}] /\ isRef' \in [NodeIds -> BOOLEAN]
  BY DEF Alloc, BoundsInv, TypeOK
<1> QED
  BY <1>2, <1>4, <1>5, <1>6, WithinIsBoundsInv

\* What a predecessor is.
LEMMA PredecessorFacts ==
  ASSUME NEW p, NEW item, NEW before \in Predecessor(p, item)
  PROVE  \/ before = None /\ child[p] = item
         \/ before \in Walk(next, child[p], item) /\ next[before] = item
BY DEF Predecessor

LEMMA UnlinkBounds ==
  ASSUME BoundsInv, NEW parent \in NodeIds, NEW item \in NodeIds,
         NEW before \in Predecessor(parent, item)
  PROVE  /\ Within(UnlinkedNext(before, item), InBounds)
         /\ Within(UnlinkedPrev(before, item), InBounds)
         /\ Within(UnlinkedChild(parent, before, item), InBounds)
<1>1. Within(next, InBounds) /\ Within(prev, InBounds) /\ Within(child, InBounds)
  BY BoundsInvIsWithin DEF BoundsInv
<1>2. before \in InBounds \cup {None}
  <2>1. InBounds \in SUBSET NodeIds
    BY BoundsAreIds DEF BoundsInv, TypeOK
  <2>2. \A m \in InBounds : next[m] \in InBounds \cup {item, None}
    BY <1>1, <2>1 DEF Within
  <2>3. child[parent] \in InBounds \cup {item, None}
    BY <1>1 DEF Within
  <2>4. Walk(next, child[parent], item) \subseteq InBounds
    BY <2>1, <2>2, <2>3 DEF Walk
  <2> QED
    BY <2>4, PredecessorFacts
<1> QED
  BY <1>1, <1>2 DEF Within, UnlinkedNext, UnlinkedPrev, UnlinkedChild

LEMMA DetachBounds ==
  ASSUME BoundsInv, NEW parent \in NodeIds, NEW item \in NodeIds,
         DetachItemViaPointer(parent, item)
  PROVE  BoundsInv'
<1>1. PICK before \in Predecessor(parent, item) :
        /\ next'  = UnlinkedNext(before, item)
        /\ prev'  = UnlinkedPrev(before, item)
        /\ child' = UnlinkedChild(parent, before, item)
  BY DEF DetachItemViaPointer
<1>2. Within(next', InBounds) /\ Within(prev', InBounds) /\ Within(child', InBounds)
  BY <1>1, UnlinkBounds
<1>3. key' \in [NodeIds -> Keys \cup {None}] /\ UNCHANGED <<size, deleted, isRef>>
  BY DEF DetachItemViaPointer, BoundsInv, TypeOK
<1> QED
  BY <1>2, <1>3, RelinkBounds

LEMMA DetachAndDeleteBounds ==
  ASSUME BoundsInv, NEW parent \in NodeIds, NEW item \in NodeIds,
         DetachAndDelete(parent, item)
  PROVE  BoundsInv'
<1>1. PICK before \in Predecessor(parent, item) :
        DeleteChain(UnlinkedNext(before, item), UnlinkedPrev(before, item),
                    UnlinkedChild(parent, before, item),
                    [key EXCEPT ![item] = None], item)
  BY DEF DetachAndDelete
<1>2. [key EXCEPT ![item] = None] \in [NodeIds -> Keys \cup {None}]
  BY DEF BoundsInv, TypeOK
<1>3. item \in InBounds
  BY DEF DetachAndDelete, Live
<1> QED
  BY <1>1, <1>2, <1>3, UnlinkBounds, DeleteChainBounds

LEMMA ReplaceBounds ==
  ASSUME BoundsInv, NEW parent \in NodeIds, NEW oldItem \in NodeIds, NEW newItem \in NodeIds,
         NEW ky \in [NodeIds -> Keys \cup {None}],
         Replace(parent, oldItem, newItem, ky)
  PROVE  BoundsInv'
<1>1. Within(next, InBounds) /\ Within(prev, InBounds) /\ Within(child, InBounds)
  BY BoundsInvIsWithin DEF BoundsInv
<1>2. oldItem \in InBounds /\ newItem \in InBounds
  BY DEF Replace, Live
<1>3. CASE oldItem = newItem
  <2>1. key' = ky /\ UNCHANGED <<size, deleted, links, isRef>>
    BY <1>3 DEF Replace
  <2> QED
    BY <1>1, <2>1, RelinkBounds DEF links
<1>4. CASE oldItem # newItem
  <2>1. PICK before \in Predecessor(parent, oldItem) :
          DeleteChain(ReplacedNext(before, oldItem, newItem),
                      ReplacedPrev(before, oldItem, newItem),
                      ReplacedChild(parent, before, newItem), ky, oldItem)
    BY <1>4 DEF Replace
  <2>2. before \in InBounds \cup {None}
    <3>1. InBounds \in SUBSET NodeIds
      BY BoundsAreIds DEF BoundsInv, TypeOK
    <3>2. \A m \in InBounds : next[m] \in InBounds \cup {oldItem, None}
      BY <1>1, <3>1 DEF Within
    <3>3. child[parent] \in InBounds \cup {oldItem, None}
      BY <1>1 DEF Within
    <3>4. Walk(next, child[parent], oldItem) \subseteq InBounds
      BY <3>1, <3>2, <3>3 DEF Walk
    <3> QED
      BY <3>4, PredecessorFacts
  <2>3. /\ Within(ReplacedNext(before, oldItem, newItem), InBounds)
        /\ Within(ReplacedPrev(before, oldItem, newItem), InBounds)
        /\ Within(ReplacedChild(parent, before, newItem), InBounds)
    BY <1>1, <1>2, <2>2 DEF Within, ReplacedNext, ReplacedPrev, ReplacedChild
  <2> QED
    BY <1>2, <2>1, <2>3, DeleteChainBounds
<1> QED
  BY <1>3, <1>4

\* A child found by position or by key is a node.
LEMMA ChildrenAreIds ==
  /\ \A p, index : Nth(p, index) \subseteq NodeIds
  /\ \A ky, p, k, cs : FindObjectChild(ky, p, k, cs) \subseteq NodeIds
BY WalkVisitsIds DEF Nth, FindObjectChild, Chain

LEMMA AddBounds ==
  ASSUME BoundsInv, NEW p \in NodeIds, NEW i \in NodeIds, NEW k \in Keys \cup {None},
         i \in InBounds, LinkLast(p, i, k), UNCHANGED <<size, deleted, isRef>>
  PROVE  BoundsInv'
BY LinkLastBounds, RelinkBounds

LEMMA AddCreatedBounds ==
  ASSUME BoundsInv, NEW object \in NodeIds, NEW k \in Keys, AddCreatedToObject(object, k)
  PROVE  BoundsInv'
<1>1. size \in 0 .. MaxNodes /\ size < MaxNodes /\ size' = size + 1
  BY DEF BoundsInv, TypeOK, AddCreatedToObject
<1>2. /\ size' \in 0 .. MaxNodes /\ InBounds \subseteq InBounds'
      /\ size \in InBounds' /\ size \in NodeIds
  BY <1>1, MaxNodesAssumption DEF InBounds, NodeIds
<1>3. isRef' \in [NodeIds -> BOOLEAN]
  BY DEF AddCreatedToObject, BoundsInv, TypeOK
<1>4. deleted \subseteq InBounds
  BY DEF BoundsInv, LinksInBounds
<1>5. CASE LinkLast(object, size, k) /\ deleted' = deleted
  <2>1. /\ Within(next', InBounds') /\ Within(prev', InBounds') /\ Within(child', InBounds')
        /\ key' \in [NodeIds -> Keys \cup {None}]
    BY <1>2, <1>5, LinkLastBounds
  <2> QED
    BY <1>2, <1>3, <1>4, <1>5, <2>1, WithinIsBoundsInv
<1>6. CASE deleted' = deleted \cup {size} /\ UNCHANGED <<links, key>>
  <2>1. Within(next, InBounds) /\ Within(prev, InBounds) /\ Within(child, InBounds)
    BY BoundsInvIsWithin DEF BoundsInv
  <2>2. Within(next', InBounds') /\ Within(prev', InBounds') /\ Within(child', InBounds')
    BY <1>2, <1>6, <2>1 DEF Within, links
  <2>3. key' \in [NodeIds -> Keys \cup {None}]
    BY <1>6 DEF BoundsInv, TypeOK
  <2> QED
    BY <1>2, <1>3, <1>4, <1>6, <2>2, <2>3, WithinIsBoundsInv
<1> QED
  BY <1>5, <1>6 DEF AddCreatedToObject

LEMMA InsertBounds ==
  ASSUME BoundsInv, NEW array \in NodeIds, NEW index \in NodeIds, NEW item \in NodeIds,
         InsertItemInArray(array, index, item)
  PROVE  BoundsInv'
<1>1. Within(next, InBounds) /\ Within(prev, InBounds) /\ Within(child, InBounds)
  BY BoundsInvIsWithin DEF BoundsInv
<1>2. item \in InBounds /\ UNCHANGED <<size, deleted, isRef>>
  BY DEF InsertItemInArray, CanAdd, Live
<1>3. CASE LinkLast(array, item, None)
  BY <1>2, <1>3, AddBounds
<1>4. ASSUME NEW before \in Nth(array, index),
             next' = [n \in NodeIds |-> IF n = prev[before] THEN item
                                        ELSE IF n = item THEN before ELSE next[n]],
             prev' = [n \in NodeIds |-> IF n = before THEN item
                                        ELSE IF n = item THEN prev[before] ELSE prev[n]],
             child' = IF prev[before] = None THEN [child EXCEPT ![array] = item] ELSE child,
             key' = [key EXCEPT ![item] = None]
      PROVE  BoundsInv'
  <2>1. before \in InBounds
    <3>1. InBounds \in SUBSET NodeIds
      BY BoundsAreIds DEF BoundsInv, TypeOK
    <3>2. \A m \in InBounds : next[m] \in InBounds \cup {None}
      BY <1>1, <3>1 DEF Within
    <3>3. child[array] \in InBounds \cup {None}
      BY <1>1 DEF Within
    <3>4. Chain(array) \subseteq InBounds
      BY <3>1, <3>2, <3>3 DEF Chain, Walk
    <3> QED
      BY <3>4 DEF Nth
  <2>2. before \in NodeIds /\ prev[before] \in InBounds \cup {None}
    BY <1>1, ChildrenAreIds DEF Within
  <2>3. Within(next', InBounds) /\ Within(prev', InBounds) /\ Within(child', InBounds)
    BY <1>1, <1>2, <1>4, <2>1, <2>2 DEF Within
  <2>4. key' \in [NodeIds -> Keys \cup {None}]
    BY <1>4 DEF BoundsInv, TypeOK
  <2> QED
    BY <1>2, <2>3, <2>4, RelinkBounds
<1> QED
  BY <1>3, <1>4 DEF InsertItemInArray

LEMMA ReplaceInObjectBounds ==
  ASSUME BoundsInv, NEW object \in NodeIds, NEW k \in Keys, NEW newItem \in NodeIds,
         NEW cs \in BOOLEAN, ReplaceItemInObject(object, k, newItem, cs)
  PROVE  BoundsInv'
<1> DEFINE ky == [key EXCEPT ![newItem] = k]
<1>1. ky \in [NodeIds -> Keys \cup {None}]
  BY DEF BoundsInv, TypeOK
<1>2. ASSUME NEW oldItem \in FindObjectChild(ky, object, k, cs), Replace(object, oldItem, newItem, ky)
      PROVE  BoundsInv'
  BY <1>1, <1>2, ChildrenAreIds, ReplaceBounds
<1>3. CASE key' = ky /\ UNCHANGED <<size, deleted, links, isRef>>
  <2>1. Within(next, InBounds) /\ Within(prev, InBounds) /\ Within(child, InBounds)
    BY BoundsInvIsWithin DEF BoundsInv
  <2> QED
    BY <1>1, <1>3, <2>1, RelinkBounds DEF links
<1> QED
  BY <1>2, <1>3 DEF ReplaceItemInObject

-----------------------------------------------------------------------------

LEMMA InitBounds == Init => BoundsInv
<1> SUFFICES ASSUME Init PROVE BoundsInv
  OBVIOUS
<1>1. TypeOK
  BY MaxNodesAssumption DEF Init, TypeOK, Link
<1>2. LinksInBounds
  BY DEF Init, LinksInBounds
<1> QED
  BY <1>1, <1>2 DEF BoundsInv

LEMMA StepBounds == BoundsInv /\ [Next]_vars => BoundsInv'
<1> SUFFICES ASSUME BoundsInv, [Next]_vars PROVE BoundsInv'
  OBVIOUS
<1>1. CASE Create
  BY <1>1, AllocBounds DEF Create
<1>2. CASE CreateStringReference
  BY <1>2, AllocBounds DEF CreateStringReference
<1>3. ASSUME NEW n \in NodeIds, CreateReference(n) PROVE BoundsInv'
  <2>1. child[n] \in InBounds \cup {None}
    BY BoundsInvIsWithin DEF BoundsInv, Within
  <2> QED
    BY <1>3, <2>1, AllocBounds DEF CreateReference
<1>4. ASSUME NEW n \in NodeIds, Delete(n) PROVE BoundsInv'
  <2>1. Within(next, InBounds) /\ Within(prev, InBounds) /\ Within(child, InBounds)
    BY BoundsInvIsWithin DEF BoundsInv
  <2>2. n \in InBounds /\ key \in [NodeIds -> Keys \cup {None}]
    BY <1>4 DEF Delete, Live, BoundsInv, TypeOK
  <2> QED
    BY <1>4, <2>1, <2>2, DeleteChainBounds DEF Delete
<1>5. ASSUME NEW p \in NodeIds, NEW i \in NodeIds, AddItemToArray(p, i) PROVE BoundsInv'
  BY <1>5, AddBounds DEF AddItemToArray, CanAdd, Live
<1>6. ASSUME NEW p \in NodeIds, NEW i \in NodeIds, DetachItemViaPointer(p, i) PROVE BoundsInv'
  BY <1>6, DetachBounds
<1>7. ASSUME NEW p \in NodeIds, NEW i \in NodeIds, NEW k \in Keys, AddItemToObject(p, k, i)
      PROVE  BoundsInv'
  BY <1>7, AddBounds DEF AddItemToObject, CanAdd, Live
<1>8. ASSUME NEW p \in NodeIds, NEW i \in NodeIds, NEW k \in Keys \cup {None}, AppendChild(p, i, k)
      PROVE  BoundsInv'
  <2>1. i \in InBounds
    BY <1>8 DEF AppendChild, InBounds, NodeIds, BoundsInv, TypeOK
  <2> QED
    BY <1>8, <2>1, AddBounds DEF AppendChild
<1>9. ASSUME NEW p \in NodeIds, NEW k \in Keys, AddCreatedToObject(p, k) PROVE BoundsInv'
  BY <1>9, AddCreatedBounds
<1>10. ASSUME NEW p \in NodeIds, NEW i \in NodeIds, NEW index \in NodeIds, InsertItemInArray(p, index, i)
       PROVE  BoundsInv'
  BY <1>10, InsertBounds
<1>11. ASSUME NEW p \in NodeIds, NEW i \in NodeIds, NEW index \in NodeIds, ReplaceItemInArray(p, index, i)
       PROVE  BoundsInv'
  <2>1. key \in [NodeIds -> Keys \cup {None}]
    BY DEF BoundsInv, TypeOK
  <2> QED
    BY <1>11, <2>1, ChildrenAreIds, ReplaceBounds DEF ReplaceItemInArray
<1>12. ASSUME NEW p \in NodeIds, NEW index \in NodeIds, DetachItemFromArray(p, index) PROVE BoundsInv'
  BY <1>12, ChildrenAreIds, DetachBounds DEF DetachItemFromArray
<1>13. ASSUME NEW p \in NodeIds, NEW index \in NodeIds, DeleteItemFromArray(p, index) PROVE BoundsInv'
  BY <1>13, ChildrenAreIds, DetachAndDeleteBounds DEF DeleteItemFromArray
<1>14. ASSUME NEW p \in NodeIds, NEW k \in Keys, NEW cs \in BOOLEAN, DetachItemFromObject(p, k, cs)
       PROVE  BoundsInv'
  BY <1>14, ChildrenAreIds, DetachBounds DEF DetachItemFromObject
<1>15. ASSUME NEW p \in NodeIds, NEW k \in Keys, NEW cs \in BOOLEAN, DeleteItemFromObject(p, k, cs)
       PROVE  BoundsInv'
  BY <1>15, ChildrenAreIds, DetachAndDeleteBounds DEF DeleteItemFromObject
<1>16. ASSUME NEW p \in NodeIds, NEW old \in NodeIds, NEW new \in NodeIds, ReplaceItemViaPointer(p, old, new)
       PROVE  BoundsInv'
  <2>1. key \in [NodeIds -> Keys \cup {None}]
    BY DEF BoundsInv, TypeOK
  <2> QED
    BY <1>16, <2>1, ReplaceBounds DEF ReplaceItemViaPointer
<1>17. ASSUME NEW p \in NodeIds, NEW i \in NodeIds, NEW k \in Keys, NEW cs \in BOOLEAN,
              ReplaceItemInObject(p, k, i, cs)
       PROVE  BoundsInv'
  BY <1>17, ReplaceInObjectBounds
<1>18. CASE UNCHANGED vars
  BY <1>18 DEF vars, BoundsInv, TypeOK, LinksInBounds, InBounds
<1> QED
  BY <1>1, <1>2, <1>3, <1>4, <1>5, <1>6, <1>7, <1>8, <1>9, <1>10, <1>11, <1>12, <1>13,
     <1>14, <1>15, <1>16, <1>17, <1>18 DEF Next

\* Whatever the callers of arena.rs do, its fields keep their types.
THEOREM TypeCorrect == Spec => []TypeOK
<1>1. BoundsInv => TypeOK
  BY DEF BoundsInv
<1> QED
  BY <1>1, InitBounds, StepBounds, PTL DEF Spec

\* Whatever the callers of arena.rs do, no link it stores is out of bounds: the
\* loops that follow links never make `get' panic.
THEOREM LinksStayInBounds == Spec => []LinksInBounds
<1>1. BoundsInv => LinksInBounds
  BY DEF BoundsInv
<1> QED
  BY <1>1, InitBounds, StepBounds, PTL DEF Spec

-----------------------------------------------------------------------------
(* The inductive invariant, as a predicate on the links. *)

\* m holds nothing outside S \cup {None}.
Into(ref, nx, ch, m, S) ==
  /\ nx[m] \in S \cup {None}
  /\ ref[m] \/ ch[m] \in S \cup {None}

\* m holds nothing inside S.
Avoids(ref, nx, ch, m, S) == nx[m] \notin S /\ (ref[m] \/ ch[m] \notin S)

\* A part of L that the links neither leave nor enter.
Block(L, ref, nx, ch, S) ==
  /\ S \subseteq L
  /\ \A m \in S : Into(ref, nx, ch, m, S)
  /\ \A m \in L \ S : Avoids(ref, nx, ch, m, S)

Typed(L, ref, nx, pv, ch) ==
  /\ L \subseteq NodeIds
  /\ ref \in [NodeIds -> BOOLEAN]
  /\ nx \in [NodeIds -> Link]
  /\ pv \in [NodeIds -> Link]
  /\ ch \in [NodeIds -> Link]

Consistent(L, ref, nx, pv, ch) ==
  /\ \A n \in L : Into(ref, nx, ch, n, L) /\ pv[n] \in L \cup {None}
  /\ \A n \in NodeIds \ L : nx[n] = None /\ pv[n] = None /\ ch[n] = None
  /\ \A m, n \in L : nx[m] = n <=> pv[n] = m

OneOwner(L, ref, pv, ch) ==
  \A p \in L : ~ref[p] /\ ch[p] # None =>
    /\ pv[ch[p]] = None
    /\ \A q \in L : ~ref[q] /\ ch[q] = ch[p] => q = p

Unheld(L, ref, nx, ch, n) == \A m \in L : nx[m] # n /\ (ref[m] \/ ch[m] # n)

Alone(L, ref, nx, pv, ch) ==
  \A n \in L : Unheld(L, ref, nx, ch, n) => nx[n] = None /\ pv[n] = None

NoLoop(L, ref, nx, ch) ==
  \A n \in L : \E S \in SUBSET L :
    n \notin S /\ \A m \in S \cup {n} : Into(ref, nx, ch, m, S)

Sound(L, ref, nx, pv, ch) ==
  /\ Typed(L, ref, nx, pv, ch)
  /\ Consistent(L, ref, nx, pv, ch)
  /\ OneOwner(L, ref, pv, ch)
  /\ Alone(L, ref, nx, pv, ch)
  /\ NoLoop(L, ref, nx, ch)

TreeInv == BoundsInv /\ Sound(Live, isRef, next, prev, child)

-----------------------------------------------------------------------------
(* Facts about the walks. *)

\* A walk stays inside every set that is closed under its links.
LEMMA WalkInside ==
  ASSUME NEW nx, NEW from, NEW stop, NEW S \in SUBSET NodeIds,
         from \in S \cup {stop, None},
         \A m \in S : nx[m] \in S \cup {stop, None}
  PROVE  Walk(nx, from, stop) \subseteq S
BY DEF Walk

\* What a walk visits, except where it starts, it enters from a node it visits;
\* it never visits the node where it stops.
LEMMA WalkEnters ==
  ASSUME NEW nx \in [NodeIds -> Link], NEW from \in Link, NEW stop \in Link,
         NEW x \in Walk(nx, from, stop), x # from
  PROVE  \E m \in Walk(nx, from, stop) : nx[m] = x
<1> DEFINE W == Walk(nx, from, stop)
<1> SUFFICES ASSUME \A m \in W : nx[m] # x PROVE FALSE
  OBVIOUS
<1>1. from \in (W \ {x}) \cup {stop, None}
  BY DEF Walk, Link
<1>2. ASSUME NEW m \in W \ {x} PROVE nx[m] \in (W \ {x}) \cup {stop, None}
  <2>1. m \in NodeIds /\ nx[m] \in NodeIds \cup {None}
    BY DEF Walk, Link
  <2>2. nx[m] \in W \cup {stop, None}
    BY <2>1 DEF Walk
  <2> QED
    BY <2>2
<1>3. W \ {x} \in SUBSET NodeIds
  BY DEF Walk
<1>4. W \subseteq W \ {x}
  BY <1>1, <1>2, <1>3 DEF Walk
<1> QED
  BY <1>4

LEMMA WalkMisses ==
  ASSUME NEW nx \in [NodeIds -> Link], NEW from \in Link, NEW stop \in NodeIds
  PROVE  stop \notin Walk(nx, from, stop)
<1>1. /\ from \in (NodeIds \ {stop}) \cup {stop, None}
      /\ \A m \in NodeIds \ {stop} : nx[m] \in (NodeIds \ {stop}) \cup {stop, None}
  BY DEF Link
<1>2. Walk(nx, from, stop) \subseteq NodeIds \ {stop}
  BY <1>1, WalkInside
<1> QED
  BY <1>2

\* The nodes a deletion visits from a tree nothing holds form a block.
LEMMA OwnedBlock ==
  ASSUME NEW nx, NEW pv, NEW ch, NEW n \in Live,
         Live \cap deleted = {},
         Sound(Live, isRef, nx, pv, ch),
         Unheld(Live, isRef, nx, ch, n)
  PROVE  n \in Owned(nx, ch, n) /\ Block(Live, isRef, nx, ch, Owned(nx, ch, n))
<1> DEFINE D == Owned(nx, ch, n)
<1> USE NoneIsNoNode
<1>1. Live \subseteq NodeIds
  BY DEF Sound, Typed
<1>2. \A m \in Live : Into(isRef, nx, ch, m, Live)
  BY DEF Sound, Consistent
<1>3. ASSUME NEW S \in SUBSET Live, n \in S, \A m \in S : Into(isRef, nx, ch, m, S)
      PROVE  D \subseteq S
  BY <1>1, <1>3 DEF Owned, Into
<1>4. D \subseteq Live
  BY <1>2, <1>3
<1>5. n \in D
  BY <1>1 DEF Owned
<1>6. \A m \in D : Into(isRef, nx, ch, m, D)
  <2> SUFFICES ASSUME NEW m \in D PROVE Into(isRef, nx, ch, m, D)
    OBVIOUS
  <2>1. Into(isRef, nx, ch, m, Live)
    BY <1>2, <1>4
  <2>2. nx[m] \in D \cup {None}
    BY <2>1, <1>1 DEF Owned, Into
  <2>3. isRef[m] \/ ch[m] \in D \cup {None}
    BY <2>1, <1>1 DEF Owned, Into
  <2> QED
    BY <2>2, <2>3 DEF Into
<1>7. ASSUME NEW z \in D, z # n, \A e \in D : Avoids(isRef, nx, ch, e, {z})
      PROVE  FALSE
  <2>1. \A m \in D \ {z} : Into(isRef, nx, ch, m, D \ {z})
    BY <1>6, <1>7 DEF Into, Avoids
  <2> QED
    BY <2>1, <1>3, <1>4, <1>5, <1>7
<1>8. ASSUME NEW m \in Live \ D PROVE Avoids(isRef, nx, ch, m, D)
  <2>1. ASSUME NEW z \in D, nx[m] = z PROVE FALSE
    <3>1. z # n
      BY <2>1 DEF Unheld
    <3>2. pv[z] = m
      BY <2>1, <1>4 DEF Sound, Consistent
    <3>3. \A e \in D : Avoids(isRef, nx, ch, e, {z})
      BY <3>2, <1>1, <1>4 DEF Sound, Consistent, OneOwner, Avoids
    <3> QED
      BY <3>1, <3>3, <1>7
  <2>2. ASSUME NEW z \in D, ~isRef[m], ch[m] = z PROVE FALSE
    <3>1. z # n
      BY <2>2 DEF Unheld
    <3>2. pv[z] = None /\ \A q \in Live : ~isRef[q] /\ ch[q] = z => q = m
      BY <2>2, <1>1, <1>4 DEF Sound, OneOwner
    <3>3. \A e \in D : Avoids(isRef, nx, ch, e, {z})
      BY <3>2, <1>1, <1>4 DEF Sound, Consistent, Avoids
    <3> QED
      BY <3>1, <3>3, <1>7
  <2> QED
    BY <2>1, <2>2 DEF Avoids
<1> QED
  BY <1>4, <1>5, <1>6, <1>8 DEF Block

-----------------------------------------------------------------------------
(* The four edits. *)

\* A new blank node, or a new reference that borrows any list, is a tree of its
\* own that nothing holds.
LEMMA AllocSafe ==
  ASSUME NEW L, NEW ref, NEW nx, NEW pv, NEW ch, Sound(L, ref, nx, pv, ch),
         NEW id \in NodeIds \ L, NEW r \in BOOLEAN, NEW c \in Link, r \/ c = None,
         NEW ref2, ref2 = [ref EXCEPT ![id] = r],
         NEW ch2, ch2 = [ch EXCEPT ![id] = c]
  PROVE  /\ Sound(L \cup {id}, ref2, nx, pv, ch2)
         /\ Unheld(L \cup {id}, ref2, nx, ch2, id)
         /\ Block(L \cup {id}, ref2, nx, ch2, {id})
<1> USE NoneIsNoNode
<1> DEFINE L2 == L \cup {id}
<1>1. Typed(L2, ref2, nx, pv, ch2)
  BY DEF Sound, Typed
<1>2. /\ nx[id] = None /\ pv[id] = None /\ ref2[id] = r /\ ch2[id] = c
      /\ \A m \in NodeIds \ {id} : ref2[m] = ref[m] /\ ch2[m] = ch[m]
      /\ L \subseteq NodeIds
  BY DEF Sound, Typed, Consistent
<1>3. \A m \in L : Into(ref, nx, ch, m, L) /\ pv[m] \in L \cup {None}
  BY DEF Sound, Consistent
<1>4. Consistent(L2, ref2, nx, pv, ch2)
  <2>1. \A n \in L2 : Into(ref2, nx, ch2, n, L2) /\ pv[n] \in L2 \cup {None}
    BY <1>2, <1>3 DEF Into
  <2>2. \A n \in NodeIds \ L2 : nx[n] = None /\ pv[n] = None /\ ch2[n] = None
    BY <1>2 DEF Sound, Consistent
  <2>3. \A m, n \in L2 : nx[m] = n <=> pv[n] = m
    BY <1>2, <1>3 DEF Sound, Consistent, Into
  <2> QED
    BY <2>1, <2>2, <2>3 DEF Consistent
<1>5. OneOwner(L2, ref2, pv, ch2)
  BY <1>2, <1>3 DEF Sound, OneOwner, Into
<1>6. Unheld(L2, ref2, nx, ch2, id)
  BY <1>2, <1>3 DEF Unheld, Into
<1>7. Alone(L2, ref2, nx, pv, ch2)
  BY <1>2 DEF Sound, Alone, Unheld
<1>8. NoLoop(L2, ref2, nx, ch2)
  <2> SUFFICES ASSUME NEW n \in L2
               PROVE  \E S \in SUBSET L2 : n \notin S /\ \A m \in S \cup {n} : Into(ref2, nx, ch2, m, S)
    BY DEF NoLoop
  <2>1. CASE n = id
    <3>1. Into(ref2, nx, ch2, id, {})
      BY <1>2 DEF Into
    <3> QED
      BY <2>1, <3>1
  <2>2. CASE n \in L
    <3>1. PICK S \in SUBSET L : n \notin S /\ \A m \in S \cup {n} : Into(ref, nx, ch, m, S)
      BY <2>2 DEF Sound, NoLoop
    <3>2. \A m \in S \cup {n} : Into(ref2, nx, ch2, m, S)
      BY <2>2, <3>1, <1>2 DEF Into
    <3> QED
      BY <3>1, <3>2
  <2> QED
    BY <2>1, <2>2
<1>9. Block(L2, ref2, nx, ch2, {id})
  BY <1>2, <1>3, <1>6 DEF Block, Into, Avoids, Unheld
<1> QED
  BY <1>1, <1>4, <1>5, <1>6, <1>7, <1>8, <1>9 DEF Sound

\* Deleting a block leaves the rest as it was.
LEMMA ClearSafe ==
  ASSUME NEW L, NEW ref, NEW nx, NEW pv, NEW ch, Sound(L, ref, nx, pv, ch),
         NEW D, Block(L, ref, nx, ch, D)
  PROVE  Sound(L \ D, ref, Cleared(nx, D), Cleared(pv, D), Cleared(ch, D))
<1> USE NoneIsNoNode
<1> DEFINE L2 == L \ D
           nx2 == Cleared(nx, D)
           pv2 == Cleared(pv, D)
           ch2 == Cleared(ch, D)
<1>1. Typed(L2, ref, nx2, pv2, ch2)
  BY DEF Sound, Typed, Cleared, Link
<1>2. /\ \A m \in NodeIds : nx2[m] = IF m \in D THEN None ELSE nx[m]
      /\ \A m \in NodeIds : pv2[m] = IF m \in D THEN None ELSE pv[m]
      /\ \A m \in NodeIds : ch2[m] = IF m \in D THEN None ELSE ch[m]
      /\ L \subseteq NodeIds
      /\ D \subseteq L
  BY DEF Cleared, Sound, Typed, Block
<1>3. \A m \in L2 : Avoids(ref, nx, ch, m, D) /\ Into(ref, nx, ch, m, L) /\ pv[m] \in L \cup {None}
  BY DEF Sound, Consistent, Block
<1>4. \A m \in L2 : Into(ref, nx2, ch2, m, L2)
  BY <1>2, <1>3 DEF Into, Avoids
<1>5. \A m \in L2 : pv[m] \notin D
  BY <1>2 DEF Sound, Consistent, Block, Into
<1> HIDE DEF nx2, pv2, ch2
<1>6. Consistent(L2, ref, nx2, pv2, ch2)
  <2>1. \A n \in L2 : pv2[n] \in L2 \cup {None}
    BY <1>2, <1>3, <1>5
  <2>2. \A n \in NodeIds \ L2 : nx2[n] = None /\ pv2[n] = None /\ ch2[n] = None
    BY <1>2 DEF Sound, Consistent
  <2>3. \A m, n \in L2 : nx2[m] = n <=> pv2[n] = m
    BY <1>2 DEF Sound, Consistent
  <2> QED
    BY <1>4, <2>1, <2>2, <2>3 DEF Consistent
<1>7. OneOwner(L2, ref, pv2, ch2)
  BY <1>2, <1>4 DEF Sound, OneOwner, Into
<1>8. Alone(L2, ref, nx2, pv2, ch2)
  <2> SUFFICES ASSUME NEW n \in L2, Unheld(L2, ref, nx2, ch2, n)
               PROVE  nx2[n] = None /\ pv2[n] = None
    BY DEF Alone
  <2>1. \A m \in D : Avoids(ref, nx, ch, m, {n})
    BY <1>2 DEF Block, Into, Avoids
  <2>2. Unheld(L, ref, nx, ch, n)
    BY <2>1, <1>2 DEF Unheld, Avoids
  <2> QED
    BY <2>2, <1>2 DEF Sound, Alone
<1>9. NoLoop(L2, ref, nx2, ch2)
  <2> SUFFICES ASSUME NEW n \in L2
               PROVE  \E S \in SUBSET L2 : n \notin S /\ \A m \in S \cup {n} : Into(ref, nx2, ch2, m, S)
    BY DEF NoLoop
  <2>1. PICK S \in SUBSET L : n \notin S /\ \A m \in S \cup {n} : Into(ref, nx, ch, m, S)
    BY DEF Sound, NoLoop
  <2>2. \A m \in (S \ D) \cup {n} : Into(ref, nx2, ch2, m, S \ D)
    BY <2>1, <1>2, <1>3 DEF Into, Avoids
  <2> QED
    BY <2>1, <2>2
<1> QED
  BY <1>1, <1>6, <1>7, <1>8, <1>9 DEF Sound, nx2, pv2, ch2

\* Taking item out of parent's list, where `before' precedes it or it is the head.
LEMMA UnlinkSafe ==
  ASSUME NEW L, NEW ref, NEW nx, NEW pv, NEW ch, Sound(L, ref, nx, pv, ch),
         NEW parent \in L, ~ref[parent], NEW item \in L, NEW before \in L \cup {None},
         \/ before = None /\ ch[parent] = item
         \/ before # None /\ nx[before] = item,
         NEW nx2, nx2 = [n \in NodeIds |-> IF n = item THEN None
                                           ELSE IF n = before THEN nx[item] ELSE nx[n]],
         NEW pv2, pv2 = [n \in NodeIds |-> IF n = item THEN None
                                           ELSE IF n = nx[item] THEN before ELSE pv[n]],
         NEW ch2, ch2 = IF before = None THEN [ch EXCEPT ![parent] = nx[item]] ELSE ch
  PROVE  Sound(L, ref, nx2, pv2, ch2) /\ Unheld(L, ref, nx2, ch2, item)
<1> USE NoneIsNoNode
<1>1. L \subseteq NodeIds /\ nx[item] \in L \cup {None}
  BY DEF Sound, Typed, Consistent, Into
<1>2. Typed(L, ref, nx2, pv2, ch2)
  BY <1>1 DEF Sound, Typed, Link
<1>3. /\ \A n \in NodeIds : nx2[n] = IF n = item THEN None
                                     ELSE IF n = before THEN nx[item] ELSE nx[n]
      /\ \A n \in NodeIds : pv2[n] = IF n = item THEN None
                                     ELSE IF n = nx[item] THEN before ELSE pv[n]
      /\ \A n \in NodeIds : ch2[n] = IF n = parent /\ before = None THEN nx[item] ELSE ch[n]
  BY <1>1 DEF Sound, Typed
<1>4. /\ \A m, n \in L : nx[m] = n <=> pv[n] = m
      /\ \A m \in L : Into(ref, nx, ch, m, L) /\ pv[m] \in L \cup {None}
  BY DEF Sound, Consistent
<1>5. \A p \in L : ~ref[p] /\ ch[p] # None =>
        /\ pv[ch[p]] = None
        /\ \A q \in L : ~ref[q] /\ ch[q] = ch[p] => q = p
  BY DEF Sound, OneOwner
\* item is not its own neighbour: no loop.
<1>6. nx[item] # item
  <2>1. PICK S \in SUBSET L : item \notin S /\ \A m \in S \cup {item} : Into(ref, nx, ch, m, S)
    BY DEF Sound, NoLoop
  <2>2. Into(ref, nx, ch, item, S)
    BY <2>1
  <2> QED
    BY <2>1, <2>2, <1>1 DEF Into
<1>7. Consistent(L, ref, nx2, pv2, ch2)
  <2>1. \A n \in L : Into(ref, nx2, ch2, n, L) /\ pv2[n] \in L \cup {None}
    BY <1>1, <1>3, <1>4 DEF Into
  <2>2. \A n \in NodeIds \ L : nx2[n] = None /\ pv2[n] = None /\ ch2[n] = None
    BY <1>1, <1>3 DEF Sound, Consistent
  <2>3. \A m, n \in L : nx2[m] = n <=> pv2[n] = m
    BY <1>1, <1>3, <1>4, <1>5, <1>6
  <2> QED
    BY <2>1, <2>2, <2>3 DEF Consistent
<1>8. OneOwner(L, ref, pv2, ch2)
  <2> SUFFICES ASSUME NEW p \in L, ~ref[p], ch2[p] # None
               PROVE  /\ pv2[ch2[p]] = None
                      /\ \A q \in L : ~ref[q] /\ ch2[q] = ch2[p] => q = p
    BY DEF OneOwner
  <2>1. ch2[p] \in L
    BY <1>7 DEF Consistent, Into
  <2>2. CASE p = parent /\ before = None
    BY <2>1, <2>2, <1>1, <1>3, <1>4, <1>5
  <2>3. CASE ~(p = parent /\ before = None)
    BY <2>1, <2>3, <1>1, <1>3, <1>4, <1>5
  <2> QED
    BY <2>2, <2>3
<1>9. Unheld(L, ref, nx2, ch2, item)
  BY <1>1, <1>3, <1>4, <1>5, <1>6 DEF Unheld
<1>10. Alone(L, ref, nx2, pv2, ch2)
  <2> SUFFICES ASSUME NEW n \in L, n # item, Unheld(L, ref, nx2, ch2, n)
               PROVE  nx2[n] = None /\ pv2[n] = None
    BY <1>1, <1>3 DEF Alone
  <2>1. n # nx[item]
    BY <1>1, <1>3, <1>6 DEF Unheld
  <2>2. Unheld(L, ref, nx, ch, n)
    BY <2>1, <1>1, <1>3 DEF Unheld
  <2> QED
    BY <2>1, <2>2, <1>1, <1>3 DEF Sound, Alone
<1>11. NoLoop(L, ref, nx2, ch2)
  <2> SUFFICES ASSUME NEW n \in L
               PROVE  \E S \in SUBSET L : n \notin S /\ \A m \in S \cup {n} : Into(ref, nx2, ch2, m, S)
    BY DEF NoLoop
  <2>1. PICK S \in SUBSET L : n \notin S /\ \A m \in S \cup {n} : Into(ref, nx, ch, m, S)
    BY DEF Sound, NoLoop
  <2>2. \A m \in S \cup {n} : Into(ref, nx2, ch2, m, S)
    BY <2>1, <1>1, <1>3 DEF Into
  <2> QED
    BY <2>1, <2>2
<1> QED
  BY <1>2, <1>7, <1>8, <1>9, <1>10, <1>11 DEF Sound

\* The links once item stands between previous and before in parent's list.
LinkedNext(nx, previous, item, before) ==
  [n \in NodeIds |-> IF n = previous THEN item ELSE IF n = item THEN before ELSE nx[n]]
LinkedPrev(pv, previous, item, before) ==
  [n \in NodeIds |-> IF n = before THEN item ELSE IF n = item THEN previous ELSE pv[n]]
LinkedChild(ch, parent, previous, item) ==
  IF previous = None THEN [ch EXCEPT ![parent] = item] ELSE ch

\* Putting item, with the block R below it, into parent's list between previous
\* (None: at the head) and before (None: at the end).
LEMMA LinkSafe ==
  ASSUME NEW L, NEW ref, NEW nx, NEW pv, NEW ch, Sound(L, ref, nx, pv, ch),
         NEW parent \in L, ~ref[parent], NEW item \in L, Unheld(L, ref, nx, ch, item),
         NEW R, item \in R, Block(L, ref, nx, ch, R), parent \notin R,
         NEW previous \in L \cup {None}, NEW before \in L \cup {None},
         \/ previous = None /\ ch[parent] = before
         \/ /\ previous \in L \ R
            /\ ~Unheld(L, ref, nx, ch, previous)
            /\ nx[previous] = before
  PROVE  Sound(L, ref, LinkedNext(nx, previous, item, before),
                       LinkedPrev(pv, previous, item, before),
                       LinkedChild(ch, parent, previous, item))
<1> USE NoneIsNoNode
<1> DEFINE nx2 == LinkedNext(nx, previous, item, before)
           pv2 == LinkedPrev(pv, previous, item, before)
           ch2 == LinkedChild(ch, parent, previous, item)
<1>1. L \subseteq NodeIds /\ R \subseteq L
  BY DEF Sound, Typed, Block
<1>2. Typed(L, ref, nx2, pv2, ch2)
  BY <1>1 DEF Sound, Typed, Link, LinkedNext, LinkedPrev, LinkedChild
<1>3. /\ \A n \in NodeIds : nx2[n] = IF n = previous THEN item
                                     ELSE IF n = item THEN before ELSE nx[n]
      /\ \A n \in NodeIds : pv2[n] = IF n = before THEN item
                                     ELSE IF n = item THEN previous ELSE pv[n]
      /\ \A n \in NodeIds : ch2[n] = IF n = parent /\ previous = None THEN item ELSE ch[n]
  BY <1>1 DEF Sound, Typed, LinkedNext, LinkedPrev, LinkedChild
<1> HIDE DEF nx2, pv2, ch2
<1>4. /\ \A m, n \in L : nx[m] = n <=> pv[n] = m
      /\ \A m \in L : Into(ref, nx, ch, m, L) /\ pv[m] \in L \cup {None}
  BY DEF Sound, Consistent
<1>5. \A p \in L : ~ref[p] /\ ch[p] # None =>
        /\ pv[ch[p]] = None
        /\ \A q \in L : ~ref[q] /\ ch[q] = ch[p] => q = p
  BY DEF Sound, OneOwner
\* item stands alone, and its new neighbours lie outside R.
<1>6. nx[item] = None /\ pv[item] = None
  BY DEF Sound, Alone
<1>7. \A m \in L : nx[m] # item /\ (ref[m] \/ ch[m] # item)
  BY DEF Unheld
<1>8. previous \notin R /\ before \notin R
  BY <1>1 DEF Block, Avoids
<1>9. Consistent(L, ref, nx2, pv2, ch2)
  <2>1. \A n \in L : Into(ref, nx2, ch2, n, L) /\ pv2[n] \in L \cup {None}
    BY <1>1, <1>3, <1>4 DEF Into
  <2>2. \A n \in NodeIds \ L : nx2[n] = None /\ pv2[n] = None /\ ch2[n] = None
    BY <1>1, <1>3 DEF Sound, Consistent
  <2>3. \A m, n \in L : nx2[m] = n <=> pv2[n] = m
    BY <1>1, <1>3, <1>4, <1>5, <1>6, <1>7, <1>8
  <2> QED
    BY <2>1, <2>2, <2>3 DEF Consistent
<1>10. OneOwner(L, ref, pv2, ch2)
  <2> SUFFICES ASSUME NEW p \in L, ~ref[p], ch2[p] # None
               PROVE  /\ pv2[ch2[p]] = None
                      /\ \A q \in L : ~ref[q] /\ ch2[q] = ch2[p] => q = p
    BY DEF OneOwner
  <2>1. ch2[p] \in L
    BY <1>9 DEF Consistent, Into
  <2>2. CASE p = parent /\ previous = None
    BY <2>1, <2>2, <1>1, <1>3, <1>5, <1>7, <1>8
  <2>3. CASE ~(p = parent /\ previous = None)
    BY <2>1, <2>3, <1>1, <1>3, <1>4, <1>5, <1>7, <1>8
  <2> QED
    BY <2>2, <2>3
<1>11. Alone(L, ref, nx2, pv2, ch2)
  <2> SUFFICES ASSUME NEW n \in L, Unheld(L, ref, nx2, ch2, n)
               PROVE  nx2[n] = None /\ pv2[n] = None
    BY DEF Alone
  <2>1. n # item /\ n # before
    BY <1>1, <1>3, <1>8 DEF Unheld
  <2>2. Unheld(L, ref, nx, ch, n)
    <3> SUFFICES ASSUME NEW m \in L PROVE nx[m] # n /\ (ref[m] \/ ch[m] # n)
      BY DEF Unheld
    <3>1. nx[m] # n
      BY <2>1, <1>1, <1>3, <1>6 DEF Unheld
    <3>2. ref[m] \/ ch[m] # n
      BY <2>1, <1>1, <1>3 DEF Unheld
    <3> QED
      BY <3>1, <3>2
  <2> QED
    BY <2>1, <2>2, <1>1, <1>3 DEF Sound, Alone
<1>12. NoLoop(L, ref, nx2, ch2)
  <2> DEFINE holder == IF previous = None THEN parent ELSE previous
  <2>1. holder \in L \ R
    BY <1>8
  <2>2. PICK B \in SUBSET L : holder \notin B /\ \A m \in B \cup {holder} : Into(ref, nx, ch, m, B)
    BY <2>1 DEF Sound, NoLoop
  <2>3. before \in B \cup {None}
    <3>1. Into(ref, nx, ch, holder, B)
      BY <2>2
    <3> QED
      BY <3>1, <1>1 DEF Into
  <2>4. \A m \in R : Into(ref, nx, ch, m, R)
    BY DEF Block
  <2>5. \A m \in L \ R : Avoids(ref, nx, ch, m, R)
    BY DEF Block
  <2> SUFFICES ASSUME NEW n \in L
               PROVE  \E S \in SUBSET L : n \notin S /\ \A m \in S \cup {n} : Into(ref, nx2, ch2, m, S)
    BY DEF NoLoop
  <2>6. PICK S \in SUBSET L : n \notin S /\ \A m \in S \cup {n} : Into(ref, nx, ch, m, S)
    BY DEF Sound, NoLoop
  \* n below item: what is below it in R, and what follows item in the list.
  <2>7. CASE n \in R
    <3> DEFINE T == (S \cap R) \cup (B \ R)
    <3>1. \A m \in (S \cap R) \cup {n} : Into(ref, nx2, ch2, m, T)
      BY <2>1, <2>3, <2>4, <2>6, <2>7, <1>1, <1>3, <1>8 DEF Into
    <3>2. \A m \in B \ R : Into(ref, nx2, ch2, m, T)
      BY <2>1, <2>2, <2>5, <1>1, <1>3 DEF Into, Avoids
    <3> QED
      BY <3>1, <3>2, <2>6, <2>7
  \* n above item: everything below item comes after n now.
  <2>8. CASE n \notin R /\ holder \in S \cup {n}
    <3>1. \A m \in S \cup R \cup {n} : Into(ref, nx2, ch2, m, S \cup R)
      BY <2>4, <2>6, <2>8, <1>1, <1>3 DEF Into
    <3> QED
      BY <3>1, <2>6, <2>8, <1>1
  <2>9. CASE n \notin R /\ holder \notin S \cup {n}
    <3>1. \A m \in (S \ R) \cup {n} : Into(ref, nx2, ch2, m, S \ R)
      BY <2>5, <2>6, <2>9, <1>1, <1>3 DEF Into, Avoids
    <3> QED
      BY <3>1, <2>6, <2>9
  <2> QED
    BY <2>7, <2>8, <2>9
<1> QED
  BY <1>2, <1>9, <1>10, <1>11, <1>12 DEF Sound, nx2, pv2, ch2

-----------------------------------------------------------------------------
(* What a walk of an owned list visits. *)

\* Only live nodes outside every block the owner is outside of, each of them held.
LEMMA ChainFacts ==
  ASSUME NEW L, NEW ref, NEW nx, NEW pv, NEW ch, Sound(L, ref, nx, pv, ch),
         NEW p \in L, ~ref[p], NEW R, Block(L, ref, nx, ch, R), p \notin R,
         NEW stop \in Link, NEW x \in Walk(nx, ch[p], stop)
  PROVE  /\ x \in L \ R
         /\ x = ch[p] \/ \E m \in L : m \in Walk(nx, ch[p], stop) /\ nx[m] = x
<1> USE NoneIsNoNode
<1>1. L \subseteq NodeIds /\ nx \in [NodeIds -> Link] /\ ch[p] \in Link
  BY DEF Sound, Typed
<1>2. \A m \in L : Into(ref, nx, ch, m, L)
  BY DEF Sound, Consistent
<1>3. \A m \in L \ R : Avoids(ref, nx, ch, m, R)
  BY DEF Block
<1>4. \A m \in L \ R : nx[m] \in (L \ R) \cup {stop, None}
  BY <1>2, <1>3 DEF Into, Avoids
<1>5. ch[p] \in (L \ R) \cup {stop, None}
  <2>1. Into(ref, nx, ch, p, L) /\ Avoids(ref, nx, ch, p, R)
    BY <1>2, <1>3
  <2> QED
    BY <2>1 DEF Into, Avoids
<1>6. L \ R \in SUBSET NodeIds
  BY <1>1
<1>7. Walk(nx, ch[p], stop) \subseteq L \ R
  BY <1>4, <1>5, <1>6 DEF Walk
<1>8. x = ch[p] \/ \E m \in Walk(nx, ch[p], stop) : nx[m] = x
  BY <1>1, WalkEnters
<1> QED
  BY <1>7, <1>8

LEMMA ChainHeld ==
  ASSUME NEW L, NEW ref, NEW nx, NEW pv, NEW ch, Sound(L, ref, nx, pv, ch),
         NEW p \in L, ~ref[p], NEW R, Block(L, ref, nx, ch, R), p \notin R,
         NEW stop \in Link, NEW x \in Walk(nx, ch[p], stop)
  PROVE  x \in L \ R /\ ~Unheld(L, ref, nx, ch, x)
<1>1. /\ x \in L \ R
      /\ x = ch[p] \/ \E m \in L : m \in Walk(nx, ch[p], stop) /\ nx[m] = x
  BY ChainFacts
<1> QED
  BY <1>1 DEF Unheld

\* Nothing is a block.
LEMMA EmptyBlock == \A L, ref, nx, ch : Block(L, ref, nx, ch, {})
BY DEF Block, Avoids

\* The predecessor of an item in an owned list.
LEMMA BeforeFacts ==
  ASSUME NEW L, NEW ref, Sound(L, ref, next, prev, child),
         NEW p \in L, ~ref[p], NEW R, Block(L, ref, next, child, R), p \notin R,
         NEW item \in L, NEW before \in Predecessor(p, item)
  PROVE  \/ before = None /\ child[p] = item
         \/ /\ before \in L \ R /\ next[before] = item /\ before # item
            /\ \/ before = child[p]
               \/ \E m \in L : m # item /\ m # before /\ next[m] = before
<1> USE NoneIsNoNode
<1>1. item \in NodeIds /\ item \in Link /\ next \in [NodeIds -> Link] /\ child[p] \in Link
  BY DEF Sound, Typed, Link
<1>2. CASE before \in Walk(next, child[p], item) /\ next[before] = item
  <2>1. item \notin Walk(next, child[p], item)
    BY <1>1, WalkMisses
  <2>2. /\ before \in L \ R
        /\ \/ before = child[p]
           \/ \E m \in L : m \in Walk(next, child[p], item) /\ next[m] = before
    BY <1>1, <1>2, ChainFacts
  <2> QED
    BY <1>2, <2>1, <2>2
<1> QED
  BY <1>2, PredecessorFacts

-----------------------------------------------------------------------------
(* The composite edits of the code. *)

\* append_child
LEMMA LinkLastSafe ==
  ASSUME NEW L, NEW ref, Sound(L, ref, next, prev, child),
         NEW p \in L, ~ref[p], NEW item \in L, Unheld(L, ref, next, child, item),
         NEW R, item \in R, Block(L, ref, next, child, R), p \notin R,
         NEW k, LinkLast(p, item, k)
  PROVE  Sound(L, ref, next', prev', child')
<1> USE NoneIsNoNode
<1>1. /\ next \in [NodeIds -> Link] /\ prev \in [NodeIds -> Link] /\ child \in [NodeIds -> Link]
      /\ L \subseteq NodeIds
  BY DEF Sound, Typed
<1>2. next[item] = None /\ prev[item] = None
  BY DEF Sound, Alone
<1>3. [next EXCEPT ![item] = None] = next /\ [prev EXCEPT ![item] = None] = prev
  BY <1>1, <1>2
<1>4. CASE /\ child[p] = None
           /\ child' = [child EXCEPT ![p] = item]
           /\ next' = next
           /\ prev' = prev
  <2>1. /\ next' = LinkedNext(next, None, item, None)
        /\ prev' = LinkedPrev(prev, None, item, None)
        /\ child' = LinkedChild(child, p, None, item)
    BY <1>1, <1>2, <1>4 DEF LinkedNext, LinkedPrev, LinkedChild
  <2>2. Sound(L, ref, LinkedNext(next, None, item, None), LinkedPrev(prev, None, item, None),
              LinkedChild(child, p, None, item))
    BY <1>4, LinkSafe
  <2> QED
    BY <2>1, <2>2
<1>5. ASSUME NEW last \in Walk(next, child[p], None), next[last] = None,
             next' = [next EXCEPT ![last] = item],
             prev' = [prev EXCEPT ![item] = last],
             child' = child
      PROVE  Sound(L, ref, next', prev', child')
  <2>1. last \in L \ R /\ ~Unheld(L, ref, next, child, last)
    BY ChainHeld DEF Link
  <2>2. /\ next' = LinkedNext(next, last, item, None)
        /\ prev' = LinkedPrev(prev, last, item, None)
        /\ child' = LinkedChild(child, p, last, item)
    BY <1>1, <1>2, <1>5, <2>1 DEF LinkedNext, LinkedPrev, LinkedChild
  <2>3. Sound(L, ref, LinkedNext(next, last, item, None), LinkedPrev(prev, last, item, None),
              LinkedChild(child, p, last, item))
    BY <1>5, <2>1, LinkSafe
  <2> QED
    BY <2>2, <2>3
<1> QED
  BY <1>3, <1>4, <1>5 DEF LinkLast

\* The edit of detach_item_via_pointer.
LEMMA DetachSafe ==
  ASSUME NEW L, NEW ref, Sound(L, ref, next, prev, child),
         NEW p \in L, ~ref[p], NEW item \in L, NEW before \in Predecessor(p, item)
  PROVE  /\ Sound(L, ref, UnlinkedNext(before, item), UnlinkedPrev(before, item),
                  UnlinkedChild(p, before, item))
         /\ Unheld(L, ref, UnlinkedNext(before, item), UnlinkedChild(p, before, item), item)
<1> USE NoneIsNoNode
<1>1. \/ before = None /\ child[p] = item
      \/ before \in L /\ next[before] = item
  BY BeforeFacts, EmptyBlock
<1>2. L \subseteq NodeIds
  BY DEF Sound, Typed
<1>3. /\ before \in L \cup {None}
      /\ \/ before = None /\ child[p] = item
         \/ before # None /\ next[before] = item
  BY <1>1, <1>2
<1> QED
  BY <1>3, UnlinkSafe DEF UnlinkedNext, UnlinkedPrev, UnlinkedChild

\* The edit of insert_item_in_array, before the child `before'.
LEMMA InsertSafe ==
  ASSUME NEW L, NEW ref, Sound(L, ref, next, prev, child),
         NEW p \in L, ~ref[p], NEW item \in L, Unheld(L, ref, next, child, item),
         NEW R, item \in R, Block(L, ref, next, child, R), p \notin R,
         NEW before \in Chain(p)
  PROVE  Sound(L, ref, LinkedNext(next, prev[before], item, before),
                       LinkedPrev(prev, prev[before], item, before),
                       LinkedChild(child, p, prev[before], item))
<1> USE NoneIsNoNode
<1> DEFINE previous == prev[before]
<1>1. before \in Walk(next, child[p], None) /\ None \in Link
  BY DEF Chain, Link
<1>2. /\ before \in L \ R
      /\ \/ before = child[p]
         \/ \E m \in L : m \in Walk(next, child[p], None) /\ next[m] = before
  BY <1>1, ChainFacts
<1>3. /\ L \subseteq NodeIds
      /\ \A m, n \in L : next[m] = n <=> prev[n] = m
      /\ prev[before] \in L \cup {None}
      /\ child[p] # None => prev[child[p]] = None
  BY <1>2 DEF Sound, Typed, Consistent, OneOwner
<1>4. CASE previous = None
  <2>1. child[p] = before
    BY <1>2, <1>3, <1>4
  <2> QED
    BY <1>2, <1>4, <2>1, LinkSafe
<1>5. CASE previous # None
  <2>1. previous \in L /\ next[previous] = before
    BY <1>2, <1>3, <1>5
  <2>2. previous \in Walk(next, child[p], None)
    BY <1>2, <1>3, <1>5, <2>1
  <2>3. previous \in L \ R /\ ~Unheld(L, ref, next, child, previous)
    BY <1>1, <2>2, ChainHeld
  <2> QED
    BY <1>2, <1>5, <2>1, <2>3, LinkSafe
<1> QED
  BY <1>4, <1>5

\* The edit of replace_item_via_pointer: the old item is taken out, the new one
\* linked between its neighbours.
LEMMA ReplaceSafe ==
  ASSUME NEW L, NEW ref, Sound(L, ref, next, prev, child),
         NEW p \in L, ~ref[p], NEW new \in L, Unheld(L, ref, next, child, new),
         NEW R, new \in R, Block(L, ref, next, child, R), p \notin R,
         NEW old \in L, old # new, NEW before \in Predecessor(p, old)
  PROVE  /\ Sound(L, ref, ReplacedNext(before, old, new), ReplacedPrev(before, old, new),
                  ReplacedChild(p, before, new))
         /\ Unheld(L, ref, ReplacedNext(before, old, new), ReplacedChild(p, before, new), old)
<1> USE NoneIsNoNode
<1> DEFINE nx == UnlinkedNext(before, old)
           pv == UnlinkedPrev(before, old)
           ch == UnlinkedChild(p, before, old)
           after == next[old]
<1>1. Sound(L, ref, nx, pv, ch) /\ Unheld(L, ref, nx, ch, old)
  BY DetachSafe
<1>2. \/ before = None /\ child[p] = old
      \/ /\ before \in L \ R /\ next[before] = old /\ before # old
         /\ \/ before = child[p]
            \/ \E m \in L : m # old /\ m # before /\ next[m] = before
  BY BeforeFacts
<1>3. /\ next \in [NodeIds -> Link] /\ prev \in [NodeIds -> Link] /\ child \in [NodeIds -> Link]
      /\ L \subseteq NodeIds /\ R \subseteq L
  BY DEF Sound, Typed, Block
<1>4. /\ \A n \in NodeIds : nx[n] = IF n = old THEN None
                                    ELSE IF n = before THEN after ELSE next[n]
      /\ \A n \in NodeIds : pv[n] = IF n = old THEN None
                                    ELSE IF n = after THEN before ELSE prev[n]
      /\ \A n \in NodeIds : ch[n] = IF n = p /\ before = None THEN after ELSE child[n]
  BY <1>3 DEF UnlinkedNext, UnlinkedPrev, UnlinkedChild
<1>5. \A m \in L : next[m] # new /\ (ref[m] \/ child[m] # new)
  BY DEF Unheld
<1>6. old \notin R
  BY <1>2, <1>3 DEF Block, Avoids
<1>7. /\ after \in L \cup {None} /\ after \notin R
  <2>1. Into(ref, next, child, old, L) /\ Avoids(ref, next, child, old, R)
    BY <1>6 DEF Sound, Consistent, Block
  <2> QED
    BY <2>1 DEF Into, Avoids
<1>8. after # old
  <2>1. PICK S \in SUBSET L : old \notin S /\ \A m \in S \cup {old} : Into(ref, next, child, m, S)
    BY DEF Sound, NoLoop
  <2>2. Into(ref, next, child, old, S)
    BY <2>1
  <2> QED
    BY <2>1, <2>2, <1>3 DEF Into
<1> HIDE DEF nx, pv, ch, after
<1>9. Unheld(L, ref, nx, ch, new)
  <2>1. after # new
    BY <1>5 DEF after
  <2> QED
    BY <2>1, <1>3, <1>4, <1>5 DEF Unheld
<1>10. Block(L, ref, nx, ch, R)
  <2>1. \A m \in R : Into(ref, nx, ch, m, R)
    BY <1>2, <1>3, <1>4, <1>6 DEF Block, Into
  <2>2. \A m \in L \ R : Avoids(ref, nx, ch, m, R)
    BY <1>3, <1>4, <1>7 DEF Block, Avoids
  <2> QED
    BY <1>3, <2>1, <2>2 DEF Block
<1>11. /\ before \in L \cup {None}
       /\ \/ before = None /\ ch[p] = after
          \/ /\ before \in L \ R
             /\ ~Unheld(L, ref, nx, ch, before)
             /\ nx[before] = after
  <2>1. CASE before = None
    BY <1>3, <1>4, <2>1
  <2>2. CASE before # None
    <3>1. before = ch[p] \/ \E m \in L : nx[m] = before
      BY <1>2, <1>3, <1>4, <2>2
    <3> QED
      BY <1>2, <1>3, <1>4, <2>2, <3>1 DEF Unheld
  <2> QED
    BY <2>1, <2>2
<1>12. Sound(L, ref, LinkedNext(nx, before, new, after), LinkedPrev(pv, before, new, after),
             LinkedChild(ch, p, before, new))
  BY <1>1, <1>7, <1>9, <1>10, <1>11, LinkSafe
<1>13. LinkedNext(nx, before, new, after) = ReplacedNext(before, old, new)
  BY <1>2, <1>3, <1>4, <1>8 DEF LinkedNext, ReplacedNext, after
<1>14. LinkedPrev(pv, before, new, after) = ReplacedPrev(before, old, new)
  BY <1>2, <1>3, <1>4, <1>8 DEF LinkedPrev, ReplacedPrev, after
<1>15. LinkedChild(ch, p, before, new) = ReplacedChild(p, before, new)
  BY <1>3 DEF LinkedChild, ReplacedChild, UnlinkedChild, ch
<1>16. Unheld(L, ref, ReplacedNext(before, old, new), ReplacedChild(p, before, new), old)
  <2> SUFFICES ASSUME NEW m \in L
               PROVE  /\ ReplacedNext(before, old, new)[m] # old
                      /\ ref[m] \/ ReplacedChild(p, before, new)[m] # old
    BY DEF Unheld
  <2>1. nx[m] # old /\ (ref[m] \/ ch[m] # old)
    BY <1>1 DEF Unheld
  <2>2. ReplacedNext(before, old, new)[m] # old
    BY <2>1, <1>3, <1>4, <1>8 DEF ReplacedNext, after
  <2>3. ref[m] \/ ReplacedChild(p, before, new)[m] # old
    BY <2>1, <1>3, <1>4 DEF ReplacedChild
  <2> QED
    BY <2>2, <2>3
<1> QED
  BY <1>12, <1>13, <1>14, <1>15, <1>16

\* Deleting a tree nothing holds, on sound links.
LEMMA DeleteSafe ==
  ASSUME NEW nx, NEW pv, NEW ch, NEW ky, NEW n \in Live,
         Sound(Live, isRef, nx, pv, ch), Unheld(Live, isRef, nx, ch, n),
         DeleteChain(nx, pv, ch, ky, n)
  PROVE  Sound(Live', isRef', next', prev', child')
<1> DEFINE D == Owned(nx, ch, n)
<1>1. Live \cap deleted = {}
  BY DEF Live
<1>2. Block(Live, isRef, nx, ch, D)
  BY <1>1, OwnedBlock
<1>3. Sound(Live \ D, isRef, Cleared(nx, D), Cleared(pv, D), Cleared(ch, D))
  BY <1>2, ClearSafe
<1>4. Live' = Live \ D
  BY DEF DeleteChain, Live, InBounds
<1>5. isRef' = isRef /\ next' = Cleared(nx, D) /\ prev' = Cleared(pv, D) /\ child' = Cleared(ch, D)
  BY DEF DeleteChain
<1> QED
  BY <1>3, <1>4, <1>5

-----------------------------------------------------------------------------
(* The invariants are what Sound says of the state. *)

LEMMA HeldIsUnheld ==
  ASSUME NEW n, isRef \in [NodeIds -> BOOLEAN], Live \subseteq NodeIds
  PROVE  Held(n) <=> n \in Live /\ Unheld(Live, isRef, next, child, n)
BY DEF Held, Holds, Unheld

LEMMA SoundMeans ==
  ASSUME TypeOK, Sound(Live, isRef, next, prev, child)
  PROVE  LinksConsistent /\ SingleOwner /\ RootsStandAlone /\ Acyclic
<1>1. Live \subseteq NodeIds /\ isRef \in [NodeIds -> BOOLEAN]
  BY DEF Sound, Typed
<1>2. LinksConsistent
  BY DEF Sound, Consistent, Into, LinksConsistent
<1>3. SingleOwner
  BY DEF Sound, OneOwner, SingleOwner
<1>4. RootsStandAlone
  BY <1>1, HeldIsUnheld DEF Sound, Alone, RootsStandAlone
<1>5. Acyclic
  BY DEF Sound, NoLoop, Into, Acyclic
<1> QED
  BY <1>2, <1>3, <1>4, <1>5

\* What the contract gives: the item's tree is a block the parent is outside of.
LEMMA MayLinkFacts ==
  ASSUME TreeInv, NEW p, NEW item, MayLink(p, item)
  PROVE  /\ p \in Live /\ ~isRef[p] /\ item \in Live
         /\ Unheld(Live, isRef, next, child, item)
         /\ \E R : item \in R /\ p \notin R /\ Block(Live, isRef, next, child, R)
<1>1. Live \subseteq NodeIds /\ isRef \in [NodeIds -> BOOLEAN] /\ Live \cap deleted = {}
  BY DEF TreeInv, Sound, Typed, Live
<1>2. p \in Live /\ ~isRef[p] /\ item \in Live /\ Unheld(Live, isRef, next, child, item)
  BY <1>1, HeldIsUnheld DEF MayLink, OwnsList
<1>3. item \in Owned(next, child, item) /\ Block(Live, isRef, next, child, Owned(next, child, item))
  BY <1>1, <1>2, OwnedBlock DEF TreeInv
<1> QED
  BY <1>2, <1>3 DEF MayLink

-----------------------------------------------------------------------------
(* One lemma per group of operations: the links stay sound. *)

Safe == Sound(Live, isRef, next, prev, child)

LEMMA CreateKeeps ==
  ASSUME TreeInv, NEW c \in Link, NEW r \in BOOLEAN, r \/ c = None, Alloc(c, r)
  PROVE  Safe'
<1>1. size \in 0 .. MaxNodes /\ deleted \subseteq InBounds
  BY DEF TreeInv, BoundsInv, TypeOK, LinksInBounds
<1>2. size \in NodeIds \ Live /\ Live' = Live \cup {size}
  BY <1>1, MaxNodesAssumption DEF Alloc, Live, InBounds, NodeIds
<1>3. Sound(Live \cup {size}, [isRef EXCEPT ![size] = r], next, prev, [child EXCEPT ![size] = c])
  BY <1>2, AllocSafe DEF TreeInv
<1> QED
  BY <1>2, <1>3 DEF Alloc, Safe

LEMMA AddKeeps ==
  ASSUME TreeInv, NEW p \in NodeIds, NEW i \in NodeIds, NEW k,
         MayLink(p, i), LinkLast(p, i, k), UNCHANGED <<size, deleted, isRef>>
  PROVE  Safe'
<1>1. Live' = Live
  BY DEF Live, InBounds
<1>2. PICK R : i \in R /\ p \notin R /\ Block(Live, isRef, next, child, R)
  BY MayLinkFacts
<1>3. Sound(Live, isRef, next', prev', child')
  BY <1>2, MayLinkFacts, LinkLastSafe DEF TreeInv
<1> QED
  BY <1>1, <1>3 DEF Safe

LEMMA InsertKeeps ==
  ASSUME TreeInv, NEW p \in NodeIds, NEW i \in NodeIds, NEW index \in NodeIds,
         MayLink(p, i), InsertItemInArray(p, index, i)
  PROVE  Safe'
<1>1. Live' = Live /\ isRef' = isRef
  BY DEF Live, InBounds, InsertItemInArray
<1>2. CASE LinkLast(p, i, None)
  BY <1>2, AddKeeps DEF InsertItemInArray
<1>3. ASSUME NEW before \in Nth(p, index),
             next' = [n \in NodeIds |-> IF n = prev[before] THEN i
                                        ELSE IF n = i THEN before ELSE next[n]],
             prev' = [n \in NodeIds |-> IF n = before THEN i
                                        ELSE IF n = i THEN prev[before] ELSE prev[n]],
             child' = IF prev[before] = None THEN [child EXCEPT ![p] = i] ELSE child
      PROVE  Safe'
  <2>1. PICK R : i \in R /\ p \notin R /\ Block(Live, isRef, next, child, R)
    BY MayLinkFacts
  <2>2. before \in Chain(p)
    BY DEF Nth
  <2>3. Sound(Live, isRef, LinkedNext(next, prev[before], i, before),
              LinkedPrev(prev, prev[before], i, before),
              LinkedChild(child, p, prev[before], i))
    BY <2>1, <2>2, MayLinkFacts, InsertSafe DEF TreeInv
  <2> QED
    BY <1>1, <1>3, <2>3 DEF LinkedNext, LinkedPrev, LinkedChild, Safe
<1> QED
  BY <1>2, <1>3 DEF InsertItemInArray

LEMMA AddCreatedKeeps ==
  ASSUME TreeInv, NEW p \in NodeIds, NEW k, p \in Live => OwnsList(p), AddCreatedToObject(p, k)
  PROVE  Safe'
<1> USE NoneIsNoNode
<1>1. size \in 0 .. MaxNodes /\ deleted \subseteq InBounds
  BY DEF TreeInv, BoundsInv, TypeOK, LinksInBounds
<1>2. /\ size \in NodeIds \ Live
      /\ deleted' = deleted => Live' = Live \cup {size}
      /\ deleted' = deleted \cup {size} => Live' = Live
  BY <1>1, MaxNodesAssumption DEF AddCreatedToObject, Live, InBounds, NodeIds
<1> DEFINE ref == [isRef EXCEPT ![size] = FALSE]
           L == Live \cup {size}
<1>3. /\ child \in [NodeIds -> Link] /\ isRef \in [NodeIds -> BOOLEAN] /\ child[size] = None
      /\ Live \subseteq NodeIds
  BY <1>2 DEF TreeInv, Sound, Typed, Consistent
<1>4. [child EXCEPT ![size] = None] = child
  BY <1>3
<1>5. /\ Sound(L, ref, next, prev, child)
      /\ Unheld(L, ref, next, child, size)
      /\ Block(L, ref, next, child, {size})
  BY <1>2, <1>4, AllocSafe DEF TreeInv, Link
<1>6. CASE p \in Live /\ LinkLast(p, size, k) /\ deleted' = deleted
  <2>1. p \in L /\ p \notin {size} /\ ~ref[p] /\ size \in L /\ size \in {size}
    BY <1>2, <1>3, <1>6 DEF OwnsList
  <2>2. Sound(L, ref, next', prev', child')
    BY <1>5, <1>6, <2>1, LinkLastSafe
  <2>3. isRef' = ref
    BY DEF AddCreatedToObject
  <2> QED
    BY <1>2, <1>6, <2>2, <2>3 DEF Safe
<1>7. CASE deleted' = deleted \cup {size} /\ UNCHANGED <<links, key>>
  <2>2. isRef' \in [NodeIds -> BOOLEAN] /\ \A m \in Live : isRef'[m] = isRef[m]
    BY <1>2, <1>3 DEF AddCreatedToObject
  <2>3. Sound(Live, isRef, next, prev, child)
    BY DEF TreeInv
  <2>4. Typed(Live, isRef', next, prev, child)
    BY <2>2, <2>3 DEF Sound, Typed
  <2>5. Consistent(Live, isRef', next, prev, child)
    BY <2>2, <2>3 DEF Sound, Consistent, Into
  <2>6. OneOwner(Live, isRef', prev, child)
    BY <2>2, <2>3 DEF Sound, OneOwner
  <2>7. Alone(Live, isRef', next, prev, child)
    BY <2>2, <2>3 DEF Sound, Alone, Unheld
  <2>8. NoLoop(Live, isRef', next, child)
    <3> SUFFICES ASSUME NEW n \in Live
                 PROVE  \E S \in SUBSET Live : n \notin S /\ \A m \in S \cup {n} : Into(isRef', next, child, m, S)
      BY DEF NoLoop
    <3>1. PICK S \in SUBSET Live : n \notin S /\ \A m \in S \cup {n} : Into(isRef, next, child, m, S)
      BY <2>3 DEF Sound, NoLoop
    <3>2. \A m \in S \cup {n} : Into(isRef', next, child, m, S)
      BY <2>2, <3>1 DEF Into
    <3> QED
      BY <3>1, <3>2
  <2>9. Sound(Live, isRef', next, prev, child)
    BY <2>4, <2>5, <2>6, <2>7, <2>8 DEF Sound
  <2> QED
    BY <1>2, <1>7, <2>9 DEF Safe, links
<1> QED
  BY <1>6, <1>7 DEF AddCreatedToObject

LEMMA DetachKeeps ==
  ASSUME TreeInv, NEW p \in NodeIds, NEW i \in NodeIds, OwnsList(p), DetachItemViaPointer(p, i)
  PROVE  Safe'
<1>1. PICK before \in Predecessor(p, i) :
        /\ next'  = UnlinkedNext(before, i)
        /\ prev'  = UnlinkedPrev(before, i)
        /\ child' = UnlinkedChild(p, before, i)
  BY DEF DetachItemViaPointer
<1>2. p \in Live /\ ~isRef[p] /\ i \in Live /\ Live' = Live /\ isRef' = isRef
  BY DEF OwnsList, DetachItemViaPointer, Live, InBounds
<1>3. Sound(Live, isRef, UnlinkedNext(before, i), UnlinkedPrev(before, i), UnlinkedChild(p, before, i))
  BY <1>2, DetachSafe DEF TreeInv
<1> QED
  BY <1>1, <1>2, <1>3 DEF Safe

LEMMA DetachAndDeleteKeeps ==
  ASSUME TreeInv, NEW p \in NodeIds, NEW i \in NodeIds, OwnsList(p), DetachAndDelete(p, i)
  PROVE  Safe'
<1>1. PICK before \in Predecessor(p, i) :
        DeleteChain(UnlinkedNext(before, i), UnlinkedPrev(before, i), UnlinkedChild(p, before, i),
                    [key EXCEPT ![i] = None], i)
  BY DEF DetachAndDelete
<1>2. p \in Live /\ ~isRef[p] /\ i \in Live
  BY DEF OwnsList, DetachAndDelete
<1>3. /\ Sound(Live, isRef, UnlinkedNext(before, i), UnlinkedPrev(before, i), UnlinkedChild(p, before, i))
      /\ Unheld(Live, isRef, UnlinkedNext(before, i), UnlinkedChild(p, before, i), i)
  BY <1>2, DetachSafe DEF TreeInv
<1> QED
  BY <1>1, <1>2, <1>3, DeleteSafe DEF Safe

LEMMA DeleteKeeps ==
  ASSUME TreeInv, NEW n \in NodeIds, Held(n), Delete(n)
  PROVE  Safe'
<1>1. n \in Live /\ Unheld(Live, isRef, next, child, n)
  BY HeldIsUnheld DEF TreeInv, Sound, Typed
<1> QED
  BY <1>1, DeleteSafe DEF Delete, TreeInv, Safe

LEMMA ReplaceKeeps ==
  ASSUME TreeInv, NEW p \in NodeIds, NEW old \in NodeIds, NEW new \in NodeIds, NEW ky,
         MayLink(p, new), Replace(p, old, new, ky)
  PROVE  Safe'
<1>1. old \in Live
  BY DEF Replace
<1>2. CASE old = new
  <2>1. UNCHANGED <<size, deleted, links, isRef>>
    BY <1>2 DEF Replace
  <2> QED
    BY <2>1 DEF TreeInv, Safe, Live, InBounds, links
<1>3. CASE old # new
  <2>1. PICK before \in Predecessor(p, old) :
          DeleteChain(ReplacedNext(before, old, new), ReplacedPrev(before, old, new),
                      ReplacedChild(p, before, new), ky, old)
    BY <1>3 DEF Replace
  <2>2. PICK R : new \in R /\ p \notin R /\ Block(Live, isRef, next, child, R)
    BY MayLinkFacts
  <2>3. /\ Sound(Live, isRef, ReplacedNext(before, old, new), ReplacedPrev(before, old, new),
                 ReplacedChild(p, before, new))
        /\ Unheld(Live, isRef, ReplacedNext(before, old, new), ReplacedChild(p, before, new), old)
    BY <1>1, <1>3, <2>2, MayLinkFacts, ReplaceSafe DEF TreeInv
  <2> QED
    BY <1>1, <2>1, <2>3, DeleteSafe DEF Safe
<1> QED
  BY <1>2, <1>3

-----------------------------------------------------------------------------
(* The theorem. *)

LEMMA TreeInit == Init => TreeInv
<1> SUFFICES ASSUME Init PROVE TreeInv
  OBVIOUS
<1>1. Live = {}
  BY DEF Init, Live, InBounds
<1>2. Sound(Live, isRef, next, prev, child)
  BY <1>1 DEF Init, Sound, Typed, Consistent, OneOwner, Alone, NoLoop, Link
<1> QED
  BY <1>2, InitBounds DEF TreeInv

\* The contract only takes steps away.
LEMMA TreeNextIsNext == TypeOK /\ TreeNext => Next
<1> SUFFICES ASSUME TypeOK, TreeNext PROVE Next
  OBVIOUS
<1>1. Live \subseteq NodeIds
  BY BoundsAreIds DEF TypeOK, Live
<1>2. CASE TCreate
  BY <1>1, <1>2 DEF TCreate, Next
<1>3. CASE TAdd
  BY <1>3 DEF TAdd, Next
<1>4. CASE TAddCreated
  BY <1>4 DEF TAddCreated, Next
<1>5. CASE TDetach
  BY <1>5 DEF TDetach, Next
<1>6. CASE TDelete
  BY <1>6 DEF TDelete, Next
<1>7. CASE TReplace
  BY <1>7 DEF TReplace, Next
<1> QED
  BY <1>2, <1>3, <1>4, <1>5, <1>6, <1>7 DEF TreeNext

LEMMA TreeStep == TreeInv /\ [TreeNext]_vars => TreeInv'
<1> SUFFICES ASSUME TreeInv, [TreeNext]_vars PROVE TreeInv'
  OBVIOUS
<1>1. BoundsInv'
  <2>1. [Next]_vars
    BY TreeNextIsNext DEF TreeInv, BoundsInv
  <2> QED
    BY <2>1, StepBounds DEF TreeInv
<1>2. Safe'
  <2>1. CASE TCreate
    <3>1. CASE Create
      BY <3>1, CreateKeeps DEF Create, Link
    <3>2. CASE CreateStringReference
      BY <3>2, CreateKeeps DEF CreateStringReference, Link
    <3>3. ASSUME NEW source \in Live, CreateReference(source) PROVE Safe'
      <4>1. child[source] \in Link
        BY DEF TreeInv, Sound, Typed
      <4> QED
        BY <3>3, <4>1, CreateKeeps DEF CreateReference
    <3> QED
      BY <2>1, <3>1, <3>2, <3>3 DEF TCreate
  <2>2. CASE TAdd
    <3>1. PICK p \in NodeIds, i \in NodeIds :
            /\ MayLink(p, i)
            /\ \/ AddItemToArray(p, i)
               \/ \E k \in Keys : AddItemToObject(p, k, i)
               \/ \E index \in NodeIds : InsertItemInArray(p, index, i)
      BY <2>2 DEF TAdd
    <3>2. CASE AddItemToArray(p, i)
      BY <3>1, <3>2, AddKeeps DEF AddItemToArray
    <3>3. ASSUME NEW k \in Keys, AddItemToObject(p, k, i) PROVE Safe'
      BY <3>1, <3>3, AddKeeps DEF AddItemToObject
    <3>4. ASSUME NEW index \in NodeIds, InsertItemInArray(p, index, i) PROVE Safe'
      BY <3>1, <3>4, InsertKeeps
    <3> QED
      BY <3>1, <3>2, <3>3, <3>4
  <2>3. CASE TAddCreated
    BY <2>3, AddCreatedKeeps DEF TAddCreated
  <2>4. CASE TDetach
    <3>1. PICK p \in NodeIds :
            /\ OwnsList(p)
            /\ \/ \E i \in NodeIds : DetachItemViaPointer(p, i)
               \/ \E index \in NodeIds : DetachItemFromArray(p, index)
               \/ \E k \in Keys, cs \in BOOLEAN : DetachItemFromObject(p, k, cs)
      BY <2>4 DEF TDetach
    <3>2. \E i \in NodeIds : DetachItemViaPointer(p, i)
      BY <3>1, ChildrenAreIds DEF DetachItemFromArray, DetachItemFromObject
    <3> QED
      BY <3>1, <3>2, DetachKeeps
  <2>5. CASE TDelete
    <3>1. ASSUME NEW n \in NodeIds, Held(n), Delete(n) PROVE Safe'
      BY <3>1, DeleteKeeps
    <3>2. ASSUME NEW p \in NodeIds, OwnsList(p),
                 \/ \E index \in NodeIds : DeleteItemFromArray(p, index)
                 \/ \E k \in Keys, cs \in BOOLEAN : DeleteItemFromObject(p, k, cs)
          PROVE  Safe'
      <4>1. \E i \in NodeIds : DetachAndDelete(p, i)
        BY <3>2, ChildrenAreIds DEF DeleteItemFromArray, DeleteItemFromObject
      <4> QED
        BY <3>2, <4>1, DetachAndDeleteKeeps
    <3> QED
      BY <2>5, <3>1, <3>2 DEF TDelete
  <2>6. CASE TReplace
    <3>1. PICK p \in NodeIds, i \in NodeIds :
            /\ MayLink(p, i)
            /\ \/ \E old \in NodeIds : ReplaceItemViaPointer(p, old, i)
               \/ \E index \in NodeIds : ReplaceItemInArray(p, index, i)
               \/ \E k \in Keys, cs \in BOOLEAN : ReplaceItemInObject(p, k, i, cs)
      BY <2>6 DEF TReplace
    <3>2. ASSUME NEW old \in NodeIds, NEW ky, Replace(p, old, i, ky) PROVE Safe'
      BY <3>1, <3>2, ReplaceKeeps
    <3>3. ASSUME UNCHANGED <<size, deleted, links, isRef>> PROVE Safe'
      BY <3>3 DEF TreeInv, Safe, Live, InBounds, links
    <3>4. ASSUME NEW k \in Keys, NEW cs \in BOOLEAN, ReplaceItemInObject(p, k, i, cs) PROVE Safe'
      BY <3>2, <3>3, <3>4, ChildrenAreIds DEF ReplaceItemInObject
    <3> QED
      BY <3>1, <3>2, <3>4, ChildrenAreIds DEF ReplaceItemViaPointer, ReplaceItemInArray
  <2>7. CASE UNCHANGED vars
    BY <2>7 DEF TreeInv, Safe, Live, InBounds, vars
  <2> QED
    BY <2>1, <2>2, <2>3, <2>4, <2>5, <2>6, <2>7 DEF TreeNext
<1> QED
  BY <1>1, <1>2 DEF TreeInv, Safe

LEMMA TreeInvAlways == TreeSpec => []TreeInv
BY TreeInit, TreeStep, PTL DEF TreeSpec

LEMMA TreeInvMeans ==
  TreeInv => TypeOK /\ LinksConsistent /\ SingleOwner /\ RootsStandAlone /\ Acyclic
BY SoundMeans DEF TreeInv, BoundsInv

\* Lists read the same in both directions and hold live nodes only, after any
\* sequence of operations that keeps the contract (DECISIONS.md, section 4).
THEOREM LinksStayConsistent == TreeSpec => []LinksConsistent
BY TreeInvAlways, TreeInvMeans, PTL

\* Every node hangs in at most one place.
THEOREM OneOwnerAlways == TreeSpec => []SingleOwner
BY TreeInvAlways, TreeInvMeans, PTL

\* What detach returns, or the caller creates, drags no siblings into a deletion
\* (DECISIONS.md, section 6).
THEOREM RootsAlwaysStandAlone == TreeSpec => []RootsStandAlone
BY TreeInvAlways, TreeInvMeans, PTL

\* No node is ever below or behind itself: every loop over siblings and every
\* recursion over children ends.
THEOREM NeverCyclic == TreeSpec => []Acyclic
BY TreeInvAlways, TreeInvMeans, PTL
=============================================================================
