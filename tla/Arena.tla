------------------------------- MODULE Arena -------------------------------
(***************************************************************************)
(* The arena of rJSON/src/arena.rs: a vector of tree nodes that point at   *)
(* each other by index, with the public operations that build, link,       *)
(* unlink and delete them.                                                 *)
(*                                                                         *)
(* The node fields that decide where a node hangs (next, prev, child, key, *)
(* is_reference) are modelled; the payload (node_type, value_string,       *)
(* value_double) is not, because no operation of this module branches on   *)
(* it.  key_is_const is FALSE in every node this code creates.             *)
(*                                                                         *)
(* Spec lets the caller pass any NodeId to any operation: only the guards  *)
(* the code has restrict it.  A loop over links that never ends, and a     *)
(* panic, are steps that do not happen.                                    *)
(***************************************************************************)
EXTENDS Integers, FiniteSets

CONSTANTS
  MaxNodes,   \* bound: the number of nodes the arena ever allocates
  Keys,       \* object keys
  Lower,      \* the ASCII lower-case form of a key
  None        \* Option::None

NodeIds == 0 .. MaxNodes - 1

ASSUME MaxNodesAssumption == MaxNodes \in Nat
ASSUME LowerAssumption    == Lower \in [Keys -> Keys]
ASSUME NoneAssumption     == None \notin NodeIds /\ None \notin Keys

VARIABLES
  size,       \* nodes.len(): ids below it are in bounds
  deleted,    \* the ids whose entry of the deleted sidecar is true
  next, prev, child,
  key,
  isRef       \* is_reference

vars  == <<size, deleted, next, prev, child, key, isRef>>
links == <<next, prev, child>>

Link == NodeIds \cup {None}

TypeOK ==
  /\ size \in 0 .. MaxNodes
  /\ deleted \in SUBSET NodeIds
  /\ next  \in [NodeIds -> Link]
  /\ prev  \in [NodeIds -> Link]
  /\ child \in [NodeIds -> Link]
  /\ key   \in [NodeIds -> Keys \cup {None}]
  /\ isRef \in [NodeIds -> BOOLEAN]

InBounds == 0 .. size - 1

\* is_live_node: in bounds and not deleted.
Live == InBounds \ deleted

Init ==
  /\ size = 0
  /\ deleted = {}
  /\ next  = [n \in NodeIds |-> None]
  /\ prev  = [n \in NodeIds |-> None]
  /\ child = [n \in NodeIds |-> None]
  /\ key   = [n \in NodeIds |-> None]
  /\ isRef = [n \in NodeIds |-> FALSE]

-----------------------------------------------------------------------------
(* Walks.  A loop over links visits the least set closed under those links. *)

\* The nodes a walk along nx visits from `from' before it reaches `stop'.
Walk(nx, from, stop) ==
  LET Closed == {S \in SUBSET NodeIds :
                   /\ from \in S \cup {stop, None}
                   /\ \A m \in S : nx[m] \in S \cup {stop, None}}
  IN  {n \in NodeIds : \A S \in Closed : n \in S}

\* The children of p in the sense of every reader: all a walk of its list visits.
Chain(p) == Walk(next, child[p], None)

\* Mutant: positions counted from one.
NthFromOne(p, index) == {n \in Chain(p) : Cardinality(Walk(next, child[p], n)) + 1 = index}

\* The child of p at an index, if the list is that long.
Nth(p, index) == {n \in Chain(p) : Cardinality(Walk(next, child[p], n)) = index}

\* The walk of p's list comes to an end.
WalkEnds(p) == child[p] = None \/ \E last \in Chain(p) : next[last] = None

KeyMatches(candidate, k, caseSensitive) ==
  /\ candidate # None
  /\ IF caseSensitive THEN candidate = k ELSE Lower[candidate] = Lower[k]

\* Mutant: the last child whose key matches.
FindLastChild(ky, object, k, caseSensitive) ==
  {n \in Chain(object) :
     /\ KeyMatches(ky[n], k, caseSensitive)
     /\ \A m \in Walk(next, next[n], None) : ~KeyMatches(ky[m], k, caseSensitive)}

\* find_object_child: the first child whose key, in ky, matches.
FindObjectChild(ky, object, k, caseSensitive) ==
  {n \in Chain(object) :
     /\ KeyMatches(ky[n], k, caseSensitive)
     /\ \A m \in Walk(next, child[object], n) : ~KeyMatches(ky[m], k, caseSensitive)}

\* Mutant: the deletion follows child of a reference as well.
OwnedThroughReferences(nx, ch, n) ==
  LET Closed == {S \in SUBSET NodeIds :
                   /\ n \in S \cup deleted
                   /\ \A m \in S : {nx[m], ch[m]} \subseteq S \cup deleted \cup {None}}
  IN  {m \in NodeIds : \A S \in Closed : m \in S}

\* What delete_chain visits from n: it follows next, and child unless the node
\* is a reference, and stops at a node that is already deleted.
Owned(nx, ch, n) ==
  LET Closed == {S \in SUBSET NodeIds :
                   /\ n \in S \cup deleted
                   /\ \A m \in S :
                        /\ nx[m] \in S \cup deleted \cup {None}
                        /\ isRef[m] \/ ch[m] \in S \cup deleted \cup {None}}
  IN  {m \in NodeIds : \A S \in Closed : m \in S}

Cleared(f, D) == [n \in NodeIds |-> IF n \in D THEN None ELSE f[n]]

\* delete_chain(n) on the links nx, pv, ch and the keys ky.
DeleteChain(nx, pv, ch, ky, n) ==
  LET D == Owned(nx, ch, n) IN
  /\ deleted' = deleted \cup D
  /\ next'  = Cleared(nx, D)
  /\ prev'  = Cleared(pv, D)
  /\ child' = Cleared(ch, D)
  /\ key'   = Cleared(ky, {m \in D : ~isRef[m]})
  /\ UNCHANGED <<size, isRef>>

-----------------------------------------------------------------------------
(* Creation. *)

\* alloc: the new node's id is the old length of the vector.
Alloc(ch, ref) ==
  /\ size < MaxNodes
  /\ size'  = size + 1
  /\ child' = [child EXCEPT ![size] = ch]
  /\ isRef' = [isRef EXCEPT ![size] = ref]
  /\ UNCHANGED <<deleted, next, prev, key>>

\* create_null .. create_raw, create_array, create_object
Create == Alloc(None, FALSE)

CreateStringReference == Alloc(None, TRUE)

\* create_object_reference, create_array_reference: the new node shares the
\* source's child list.  get() panics on an id out of bounds and takes a
\* deleted source as it is.
CreateReference(source) ==
  /\ source < size
  /\ Alloc(child[source], TRUE)

-----------------------------------------------------------------------------
(* Linking. *)

\* Mutant: the last child's next leads back to the head.
LinkLastCircular(parent, item, k) ==
  /\ key' = [key EXCEPT ![item] = k]
  /\ \/ /\ child[parent] = None
        /\ child' = [child EXCEPT ![parent] = item]
        /\ UNCHANGED <<next, prev>>
     \/ /\ child[parent] # None
        /\ \E last \in Walk(next, child[parent], None) :
             /\ next[last] = None
             /\ next' = [next EXCEPT ![last] = item, ![item] = child[parent]]
             /\ prev' = [prev EXCEPT ![item] = last]
        /\ UNCHANGED child

\* append_child's writes: reset the child's attachment, then hang it at the end
\* of the parent's list.
LinkLast(parent, item, k) ==
  LET nx == [next EXCEPT ![item] = None]
      pv == [prev EXCEPT ![item] = None]
  IN
  /\ key' = [key EXCEPT ![item] = k]
  /\ \/ /\ child[parent] = None
        /\ child' = [child EXCEPT ![parent] = item]
        /\ next' = nx
        /\ prev' = pv
     \/ /\ child[parent] # None
        /\ \E last \in Walk(nx, child[parent], None) :
             /\ nx[last] = None
             /\ next' = [nx EXCEPT ![last] = item]
             /\ prev' = [pv EXCEPT ![item] = last]
        /\ UNCHANGED child

\* Mutant: the index of the item is not checked.
AppendChildUnchecked(parent, item, k) ==
  /\ parent # item /\ parent < size
  /\ LinkLast(parent, item, k)
  /\ UNCHANGED <<size, deleted, isRef>>

\* append_child: public, with an assertion and two index checks for guards.
AppendChild(parent, item, k) ==
  /\ parent # item /\ parent < size /\ item < size
  /\ LinkLast(parent, item, k)
  /\ UNCHANGED <<size, deleted, isRef>>

CanAdd(parent, item) == parent # item /\ parent \in Live /\ item \in Live

AddItemToArray(array, item) ==
  /\ CanAdd(array, item)
  /\ LinkLast(array, item, None)
  /\ UNCHANGED <<size, deleted, isRef>>

AddItemToObject(object, k, item) ==
  /\ CanAdd(object, item)
  /\ LinkLast(object, item, k)
  /\ UNCHANGED <<size, deleted, isRef>>

\* Mutant: the item that could not be added stays.
AddCreatedOrKeep(object, k) ==
  /\ size < MaxNodes
  /\ size' = size + 1
  /\ isRef' = [isRef EXCEPT ![size] = FALSE]
  /\ UNCHANGED deleted
  /\ \/ object \in Live /\ LinkLast(object, size, k)
     \/ object \notin Live /\ UNCHANGED <<links, key>>

\* add_null_to_object .. add_raw_to_object: create the item, add it, and delete
\* it again when the object is not live (add_created_to_object).
AddCreatedToObject(object, k) ==
  /\ size < MaxNodes
  /\ size' = size + 1
  /\ isRef' = [isRef EXCEPT ![size] = FALSE]
  /\ \/ /\ object \in Live
        /\ LinkLast(object, size, k)
        /\ UNCHANGED deleted
     \/ /\ object \notin Live
        /\ deleted' = deleted \cup {size}
        /\ UNCHANGED <<links, key>>

\* Mutant: the head of the list stays the old first child.
InsertKeepingHead(array, index, item) ==
  /\ CanAdd(array, item)
  /\ \E before \in Nth(array, index) :
       /\ next' = [next EXCEPT ![item] = before]
       /\ prev' = [prev EXCEPT ![before] = item]
       /\ key' = [key EXCEPT ![item] = None]
  /\ UNCHANGED <<size, deleted, isRef, child>>

\* insert_item_in_array: past the end it appends.
InsertItemInArray(array, index, item) ==
  /\ CanAdd(array, item)
  /\ \/ /\ Nth(array, index) = {} /\ WalkEnds(array)
        /\ LinkLast(array, item, None)
     \/ \E before \in Nth(array, index) :
          /\ next' = [n \in NodeIds |-> IF n = prev[before] THEN item
                                        ELSE IF n = item THEN before ELSE next[n]]
          /\ prev' = [n \in NodeIds |-> IF n = before THEN item
                                        ELSE IF n = item THEN prev[before] ELSE prev[n]]
          /\ child' = IF prev[before] = None
                        THEN [child EXCEPT ![array] = item] ELSE child
          /\ key' = [key EXCEPT ![item] = None]
  /\ UNCHANGED <<size, deleted, isRef>>

-----------------------------------------------------------------------------
(* Unlinking. *)

\* The node a walk of p's list visits just before item; None at the head.
Predecessor(p, item) ==
  IF child[p] = item THEN {None}
  ELSE {n \in Walk(next, child[p], item) : next[n] = item}

\* Mutants: the item keeps its next; the follower keeps its prev.
UnlinkedNextKept(before, item) ==
  [n \in NodeIds |-> IF n = before THEN next[item] ELSE next[n]]
UnlinkedPrevStale(before, item) == [prev EXCEPT ![item] = None]

\* The links once item, after `before' in parent's list, is taken out.
UnlinkedNext(before, item) ==
  [n \in NodeIds |-> IF n = item THEN None
                     ELSE IF n = before THEN next[item] ELSE next[n]]
UnlinkedPrev(before, item) ==
  [n \in NodeIds |-> IF n = item THEN None
                     ELSE IF n = next[item] THEN before ELSE prev[n]]
UnlinkedChild(parent, before, item) ==
  IF before = None THEN [child EXCEPT ![parent] = next[item]] ELSE child

DetachItemViaPointer(parent, item) ==
  /\ parent \in Live
  /\ item \in Live
  /\ \E before \in Predecessor(parent, item) :
       /\ next'  = UnlinkedNext(before, item)
       /\ prev'  = UnlinkedPrev(before, item)
       /\ child' = UnlinkedChild(parent, before, item)
  /\ key' = [key EXCEPT ![item] = None]
  /\ UNCHANGED <<size, deleted, isRef>>

DetachItemFromArray(array, index) ==
  /\ array \in Live
  /\ \E item \in Nth(array, index) : DetachItemViaPointer(array, item)

DetachItemFromObject(object, k, caseSensitive) ==
  /\ object \in Live
  /\ \E item \in FindObjectChild(key, object, k, caseSensitive) :
       DetachItemViaPointer(object, item)

\* detach_item_via_pointer(parent, item), then delete(item)
DetachAndDelete(parent, item) ==
  /\ parent \in Live
  /\ item \in Live
  /\ \E before \in Predecessor(parent, item) :
       DeleteChain(UnlinkedNext(before, item), UnlinkedPrev(before, item),
                   UnlinkedChild(parent, before, item),
                   [key EXCEPT ![item] = None], item)

DeleteItemFromArray(array, index) ==
  /\ array \in Live
  /\ \E item \in Nth(array, index) : DetachAndDelete(array, item)

DeleteItemFromObject(object, k, caseSensitive) ==
  /\ object \in Live
  /\ \E item \in FindObjectChild(key, object, k, caseSensitive) :
       DetachAndDelete(object, item)

\* delete: nothing happens to a node that is already deleted.
Delete(n) ==
  /\ n \in Live
  /\ DeleteChain(next, prev, child, key, n)

-----------------------------------------------------------------------------
(* Replacing. *)

\* Mutant: the parent still points at the replaced head.
ReplacedChildStale(parent, before, newItem) == child

\* The links once newItem stands in oldItem's place and oldItem's own are cut.
ReplacedNext(before, oldItem, newItem) ==
  [n \in NodeIds |-> IF n = oldItem THEN None
                     ELSE IF n = before THEN newItem
                     ELSE IF n = newItem THEN next[oldItem] ELSE next[n]]
ReplacedPrev(before, oldItem, newItem) ==
  [n \in NodeIds |-> IF n = oldItem THEN None
                     ELSE IF n = next[oldItem] THEN newItem
                     ELSE IF n = newItem THEN before ELSE prev[n]]
ReplacedChild(parent, before, newItem) ==
  IF before = None THEN [child EXCEPT ![parent] = newItem] ELSE child

\* replace_item_via_pointer, on the keys ky.
Replace(parent, oldItem, newItem, ky) ==
  /\ parent # newItem
  /\ {parent, oldItem, newItem} \subseteq Live
  /\ \E before \in Predecessor(parent, oldItem) :
       IF oldItem = newItem
         THEN key' = ky /\ UNCHANGED <<size, deleted, links, isRef>>
         ELSE DeleteChain(ReplacedNext(before, oldItem, newItem),
                          ReplacedPrev(before, oldItem, newItem),
                          ReplacedChild(parent, before, newItem), ky, oldItem)

ReplaceItemViaPointer(parent, oldItem, newItem) ==
  Replace(parent, oldItem, newItem, key)

ReplaceItemInArray(array, index, newItem) ==
  /\ array \in Live
  /\ newItem \in Live
  /\ \E oldItem \in Nth(array, index) : Replace(array, oldItem, newItem, key)

\* replace_item_in_object_by_case: newItem gets the key before the lookup, and
\* keeps it when no child matches or the replacement is refused.
ReplaceItemInObject(object, k, newItem, caseSensitive) ==
  LET ky    == [key EXCEPT ![newItem] = k]
      found == FindObjectChild(ky, object, k, caseSensitive)
  IN
  /\ object \in Live
  /\ newItem \in Live
  /\ \/ \E oldItem \in found : Replace(object, oldItem, newItem, ky)
     \/ /\ \/ found = {} /\ WalkEnds(object)
           \/ found # {} /\ object = newItem
           \/ ~(found \subseteq Live)
        /\ key' = ky
        /\ UNCHANGED <<size, deleted, links, isRef>>

-----------------------------------------------------------------------------
(* Any caller, any arguments. *)

Next ==
  \/ Create
  \/ CreateStringReference
  \/ \E n \in NodeIds : CreateReference(n) \/ Delete(n)
  \/ \E p, i \in NodeIds : AddItemToArray(p, i) \/ DetachItemViaPointer(p, i)
  \/ \E p, i \in NodeIds, k \in Keys : AddItemToObject(p, k, i)
  \/ \E p, i \in NodeIds, k \in Keys \cup {None} : AppendChild(p, i, k)
  \/ \E p \in NodeIds, k \in Keys : AddCreatedToObject(p, k)
  \/ \E p, i, index \in NodeIds :
       InsertItemInArray(p, index, i) \/ ReplaceItemInArray(p, index, i)
  \/ \E p, index \in NodeIds :
       DetachItemFromArray(p, index) \/ DeleteItemFromArray(p, index)
  \/ \E p \in NodeIds, k \in Keys, cs \in BOOLEAN :
       DetachItemFromObject(p, k, cs) \/ DeleteItemFromObject(p, k, cs)
  \/ \E p, old, new \in NodeIds : ReplaceItemViaPointer(p, old, new)
  \/ \E p, i \in NodeIds, k \in Keys, cs \in BOOLEAN : ReplaceItemInObject(p, k, i, cs)

Spec == Init /\ [][Next]_vars

-----------------------------------------------------------------------------
(* What holds whatever the caller does, and what the documents say holds. *)

\* Every stored link is the index of an existing slot, so a loop that follows
\* links never indexes past the vector (`get' would panic), even in trees the
\* caller has tangled or half deleted.
LinksInBounds ==
  /\ deleted \subseteq InBounds
  /\ \A n \in NodeIds : {next[n], prev[n], child[n]} \subseteq InBounds \cup {None}

\* DECISIONS.md, section 4: every node's prev is its true immediate predecessor,
\* and the first child has none.
PrevIsPredecessor ==
  \A m \in Live :
    /\ next[m] # None => prev[next[m]] = m
    /\ ~isRef[m] /\ child[m] # None => prev[child[m]] = None

\* DECISIONS.md, section 7: every public entry point checks that the NodeId it is
\* given is in bounds and not deleted, so no reference is made of a dead node.
ReferencesNeedLiveSource ==
  [][\A source \in NodeIds : CreateReference(source) => source \in Live]_vars
=============================================================================
