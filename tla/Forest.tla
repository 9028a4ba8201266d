------------------------------- MODULE Forest -------------------------------
(***************************************************************************)
(* What the tree operations of rJSON promise, with no links: a set of      *)
(* ordered trees.  A node has a sequence of children and a name (its key   *)
(* in the object that holds it).  An item is hung whole under a parent,    *)
(* taken off whole, or dropped with everything below it; nothing else      *)
(* moves.                                                                  *)
(***************************************************************************)
EXTENDS Integers, Sequences, SequencesExt

CONSTANTS MaxNodes, Keys, None

VARIABLES
  used,    \* how many nodes were ever handed out; ids are never reused
  nodes,   \* the nodes that exist
  kids,    \* the children of every node, in order
  name

fvars == <<used, nodes, kids, name>>

Ids == 0 .. MaxNodes - 1

Hung(n) == \E p \in nodes : n \in Range(kids[p])
IsRoot(n) == n \in nodes /\ ~Hung(n)

\* n and everything below it
Subtree(n) ==
  {m \in Ids : \A S \in SUBSET Ids :
     (n \in S /\ \A x \in S : Range(kids[x]) \subseteq S) => m \in S}

Init ==
  /\ used = 0
  /\ nodes = {}
  /\ kids = [n \in Ids |-> <<>>]
  /\ name = [n \in Ids |-> None]

Create ==
  /\ used < MaxNodes
  /\ used' = used + 1
  /\ nodes' = nodes \cup {used}
  /\ UNCHANGED <<kids, name>>

\* A node that was created and given up in the same call.
CreateAndDiscard ==
  /\ used < MaxNodes
  /\ used' = used + 1
  /\ UNCHANGED <<nodes, kids, name>>

\* The tree rooted at i becomes the child of p at position pos.
Hang(p, pos, i, k) ==
  /\ UNCHANGED <<used, nodes>>
  /\ kids' = [kids EXCEPT ![p] = InsertAt(@, pos, i)]
  /\ name' = [name EXCEPT ![i] = k]
  /\ IsRoot(i)
  /\ p \notin Subtree(i)

CreateAndHang(p, k) ==
  /\ used < MaxNodes
  /\ used' = used + 1
  /\ nodes' = nodes \cup {used}
  /\ kids' = [kids EXCEPT ![p] = Append(@, used)]
  /\ name' = [name EXCEPT ![used] = k]

TakeOff(p, pos) ==
  /\ UNCHANGED <<used, nodes>>
  /\ kids' = [kids EXCEPT ![p] = RemoveAt(@, pos)]
  /\ name' = [name EXCEPT ![kids[p][pos]] = None]

\* The nodes of D cease to exist; ks and nm are the children and names of the rest.
Without(D, ks, nm) ==
  /\ nodes' = nodes \ D
  /\ UNCHANGED used
  /\ kids' = [n \in Ids |-> IF n \in D THEN <<>> ELSE ks[n]]
  /\ name' = [n \in Ids |-> IF n \in D THEN None ELSE nm[n]]

Drop(n) == IsRoot(n) /\ Without(Subtree(n), kids, name)

TakeOffAndDrop(p, pos) ==
  Without(Subtree(kids[p][pos]), [kids EXCEPT ![p] = RemoveAt(@, pos)], name)

\* The tree rooted at i takes the place of the child at pos, which is dropped.
Replace(p, pos, i, k) ==
  /\ Without(Subtree(kids[p][pos]), [kids EXCEPT ![p] = ReplaceAt(@, pos, i)],
             [name EXCEPT ![i] = k])
  /\ IsRoot(i)
  /\ p \notin Subtree(i)

Rename(n, k) ==
  /\ UNCHANGED <<used, nodes, kids>>
  /\ name' = [name EXCEPT ![n] = k]
  /\ IsRoot(n)

Next ==
  \/ Create
  \/ CreateAndDiscard
  \/ \E p \in nodes :
       \/ \E k \in Keys : CreateAndHang(p, k)
       \/ \E pos \in 1 .. Len(kids[p]) : TakeOff(p, pos) \/ TakeOffAndDrop(p, pos)
       \/ Drop(p)
       \/ \E k \in Keys : Rename(p, k)
       \/ \E i \in nodes, k \in Keys \cup {None} :
            \/ \E pos \in 1 .. Len(kids[p]) + 1 : Hang(p, pos, i, k)
            \/ \E pos \in 1 .. Len(kids[p]) : Replace(p, pos, i, k)

Spec == Init /\ [][Next]_fvars
=============================================================================
