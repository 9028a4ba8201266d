----------------------------- MODULE ArenaTrees -----------------------------
(***************************************************************************)
(* The arena driven by callers that keep cJSON's usage contract, the only  *)
(* way the rest of rJSON drives it (the parser and the facade link freshly *)
(* created nodes):                                                         *)
(*                                                                         *)
(*   - an item that is added, inserted or put in another's place is a tree *)
(*     the caller holds (created, detached, never linked since), and does  *)
(*     not contain the parent;                                             *)
(*   - what is deleted directly is such a tree as well (DECISIONS.md,      *)
(*     section 6: detach first);                                           *)
(*   - a reference is made of a live source, and the list it borrows is    *)
(*     changed only through its owner.                                     *)
(*                                                                         *)
(* The code checks none of this.  Under it the links always spell a forest *)
(* (the invariants below); module ArenaForest says what each operation     *)
(* does to that forest.                                                    *)
(***************************************************************************)
EXTENDS Arena

\* m holds n: as its next sibling, or as the head of a list it owns.
Holds(m, n) == next[m] = n \/ (~isRef[m] /\ child[m] = n)

\* A tree in the caller's hands.
Held(n) == n \in Live /\ \A m \in Live : ~Holds(m, n)

OwnsList(p) == p \in Live /\ ~isRef[p]

\* The item may be linked under the parent.
MayLink(parent, item) ==
  OwnsList(parent) /\ Held(item) /\ parent \notin Owned(next, child, item)

-----------------------------------------------------------------------------

TCreate == Create \/ CreateStringReference \/ \E source \in Live : CreateReference(source)

TAdd ==
  \E p, i \in NodeIds :
    /\ MayLink(p, i)
    /\ \/ AddItemToArray(p, i)
       \/ \E k \in Keys : AddItemToObject(p, k, i)
       \/ \E index \in NodeIds : InsertItemInArray(p, index, i)

TAddCreated ==
  \E p \in NodeIds, k \in Keys :
    (p \in Live => OwnsList(p)) /\ AddCreatedToObject(p, k)

TDetach ==
  \E p \in NodeIds :
    /\ OwnsList(p)
    /\ \/ \E i \in NodeIds : DetachItemViaPointer(p, i)
       \/ \E index \in NodeIds : DetachItemFromArray(p, index)
       \/ \E k \in Keys, cs \in BOOLEAN : DetachItemFromObject(p, k, cs)

TDelete ==
  \/ \E n \in NodeIds : Held(n) /\ Delete(n)
  \/ \E p \in NodeIds :
       /\ OwnsList(p)
       /\ \/ \E index \in NodeIds : DeleteItemFromArray(p, index)
          \/ \E k \in Keys, cs \in BOOLEAN : DeleteItemFromObject(p, k, cs)

TReplace ==
  \E p, i \in NodeIds :
    /\ MayLink(p, i)
    /\ \/ \E old \in NodeIds : ReplaceItemViaPointer(p, old, i)
       \/ \E index \in NodeIds : ReplaceItemInArray(p, index, i)
       \/ \E k \in Keys, cs \in BOOLEAN : ReplaceItemInObject(p, k, i, cs)

TreeNext == TCreate \/ TAdd \/ TAddCreated \/ TDetach \/ TDelete \/ TReplace

TreeSpec == Init /\ [][TreeNext]_vars

-----------------------------------------------------------------------------
(* Invariants. *)

\* Live nodes point only at live nodes, next and prev are each other's inverse,
\* and a dead or unused slot points nowhere: after any sequence of adds,
\* inserts, detaches, replacements and deletions a list reads the same in both
\* directions and never runs into a deleted node (DECISIONS.md, section 4).
LinksConsistent ==
  /\ \A n \in Live :
       /\ next[n] \in Live \cup {None}
       /\ prev[n] \in Live \cup {None}
       /\ isRef[n] \/ child[n] \in Live \cup {None}
  /\ \A n \in NodeIds \ Live : next[n] = None /\ prev[n] = None /\ child[n] = None
  /\ \A m, n \in Live : next[m] = n <=> prev[n] = m

\* A node hangs in one place: the head of an owned list has no predecessor and
\* no second owner, so no two deletions can meet in one node.
SingleOwner ==
  \A p \in Live : ~isRef[p] /\ child[p] # None =>
    /\ prev[child[p]] = None
    /\ \A q \in Live : ~isRef[q] /\ child[q] = child[p] => q = p

\* A tree in the caller's hands drags no siblings along: deleting it, or linking
\* it elsewhere, concerns that tree alone (DECISIONS.md, section 6).
RootsStandAlone == \A n \in Live : Held(n) => next[n] = None /\ prev[n] = None

\* No node is below or behind itself: there is a set closed under the links that
\* holds n's successors and not n.  So every loop over siblings ends, and so does
\* the recursion of delete_chain.  What a reference borrows is not below it: a
\* reader that follows references (compare, print, duplicate) may still come back
\* to a reference that hangs in the list it borrows.
Acyclic ==
  \A n \in Live : \E S \in SUBSET Live :
    /\ n \notin S
    /\ \A m \in S \cup {n} : /\ next[m] \in S \cup {None}
                             /\ isRef[m] \/ child[m] \in S \cup {None}

=============================================================================
