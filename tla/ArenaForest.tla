---------------------------- MODULE ArenaForest ----------------------------
(***************************************************************************)
(* The forest that the links of the arena spell, and what the operations   *)
(* of arena.rs do to it: ArenaTrees implements Forest.                     *)
(***************************************************************************)
EXTENDS ArenaTrees, Sequences, SequencesExt

\* The children p owns, in order: the list read from its head, one next at a time.
Kids(p) ==
  LET at[j \in Nat] == IF j = 0 THEN child[p]
                       ELSE IF at[j - 1] = None THEN None ELSE next[at[j - 1]]
      length == CHOOSE l \in 0 .. MaxNodes : at[l] = None /\ \A j \in 0 .. l - 1 : at[j] # None
  IN  IF OwnsList(p) THEN [j \in 1 .. length |-> at[j - 1]] ELSE <<>>

F == INSTANCE Forest WITH
       used  <- size,
       nodes <- Live,
       kids  <- [n \in NodeIds |-> Kids(n)],
       name  <- [n \in NodeIds |-> IF n \in Live THEN key[n] ELSE None]

\* Every operation on the links is an operation on the forest they spell, or
\* leaves it as it is: hanging moves one whole tree, deleting removes one whole
\* tree and nothing that is only referenced, ids are never used twice.
ForestSpec == F!Spec

\* An index means the position in the list: insert puts the item before the
\* child at that position or at the end, detach and delete take that child.
IndexIsPosition ==
  [][\A p \in Live : OwnsList(p) =>
       /\ \A i \in NodeIds : MayLink(p, i) =>
            \A index \in NodeIds : InsertItemInArray(p, index, i) =>
              Kids(p)' = IF index < Len(Kids(p)) THEN InsertAt(Kids(p), index + 1, i)
                                                 ELSE Append(Kids(p), i)
       /\ \A index \in NodeIds :
            DetachItemFromArray(p, index) \/ DeleteItemFromArray(p, index) =>
              Kids(p)' = RemoveAt(Kids(p), index + 1)]_vars

\* The position of the first child of p that k names.
FirstNamed(p, k, cs) ==
  CHOOSE j \in 1 .. Len(Kids(p)) :
    /\ KeyMatches(key[Kids(p)[j]], k, cs)
    /\ \A l \in 1 .. j - 1 : ~KeyMatches(key[Kids(p)[l]], k, cs)

\* A key means the first child that carries it, in the case mode of the call: of
\* several equal keys the later ones stay, with their order.
KeyIsFirstMatch ==
  [][\A p \in Live, k \in Keys, cs \in BOOLEAN :
       /\ OwnsList(p) /\ (DetachItemFromObject(p, k, cs) \/ DeleteItemFromObject(p, k, cs)) =>
            Kids(p)' = RemoveAt(Kids(p), FirstNamed(p, k, cs))
       /\ \A i \in NodeIds : MayLink(p, i) /\ ReplaceItemInObject(p, k, i, cs) =>
            Kids(p)' = IF \E j \in 1 .. Len(Kids(p)) : KeyMatches(key[Kids(p)[j]], k, cs)
                         THEN ReplaceAt(Kids(p), FirstNamed(p, k, cs), i)
                         ELSE Kids(p)]_vars

\* An item that is created for an object is its last child, under its key; and where
\* there is no such object, no live node and no list is other than before.
CreatedHangsOrIsGone ==
  [][\A p \in NodeIds, k \in Keys : (p \in Live => OwnsList(p)) /\ AddCreatedToObject(p, k) =>
       IF p \in Live
         THEN Kids(p)' = Append(Kids(p), size) /\ key'[size] = k /\ Live' = Live \cup {size}
         ELSE Live' = Live /\ \A q \in Live : Kids(q)' = Kids(q)]_vars
=============================================================================
