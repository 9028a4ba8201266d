--------------------------- MODULE ArenaDuplicate ---------------------------
(***************************************************************************)
(* Arena::duplicate of rJSON/src/arena.rs: a copy made with a work list    *)
(* instead of recursion.  It follows the lists that references borrow, so  *)
(* it may meet deleted nodes and, through a reference that hangs in the    *)
(* list it borrows, come back to where it was: the depth limit ends that.  *)
(* When it gives up it discards the nodes it has put down in a list.       *)
(*                                                                         *)
(* A behaviour builds an arena under the contract of ArenaTrees and calls  *)
(* duplicate once.  The payload of a node is not modelled, its key is.     *)
(***************************************************************************)
EXTENDS ArenaForest

CONSTANTS
  BuildNodes,      \* bound: how many nodes are created before the call
  CircularLimit    \* CJSON_CIRCULAR_LIMIT

ASSUME BuildNodesAssumption == BuildNodes \in 0 .. MaxNodes
ASSUME CircularLimitAssumption == CircularLimit \in Nat

VARIABLES
  source, deep,   \* the arguments; deep is `recurse'
  root,           \* the copy of the source
  copies,         \* duplicated_nodes: what the call puts down as made
  pending,        \* the nodes copied whose children are not
  frame,          \* the loop over the children of one of them
  pc

call  == <<source, deep, root>>
dvars == <<vars, call, copies, pending, frame, pc>>

\* What the call has made, put down or not: all that was allocated since it began.
Made == IF root = None THEN {} ELSE root .. size - 1

Work(node, copy, depth) == [node |-> node, copy |-> copy, depth |-> depth]

\* next: the child the loop has reached; previous: the copy of the one before.
Loop(work) == [copy |-> work.copy, depth |-> work.depth,
               next |-> child[work.node], previous |-> None]

DupTypeOK ==
  /\ TypeOK
  /\ {source, root} \subseteq Link
  /\ deep \in BOOLEAN
  /\ copies \subseteq InBounds
  /\ pending \in Seq([node : InBounds, copy : copies, depth : 0 .. CircularLimit])
  /\ frame \in {None} \cup [copy : copies, depth : 0 .. CircularLimit,
                            next : Link, previous : copies \cup {None}]
  /\ pc \in {"idle", "pop", "children", "done", "refused"}

DupInit ==
  /\ Init
  /\ source = None /\ deep = FALSE /\ root = None
  /\ copies = {}
  /\ pending = <<>>
  /\ frame = None
  /\ pc = "idle"

Build ==
  /\ pc = "idle"
  /\ TreeNext
  /\ size' <= BuildNodes
  /\ UNCHANGED <<call, copies, pending, frame, pc>>

-----------------------------------------------------------------------------

\* duplicate_single_node: a node of its own with the same key.
DuplicateSingleNode(node) ==
  /\ size < MaxNodes
  /\ size' = size + 1
  /\ key' = [key EXCEPT ![size] = key[node]]
  /\ isRef' = [isRef EXCEPT ![size] = FALSE]
  /\ UNCHANGED deleted

Duplicate(node, recurse) ==
  /\ pc = "idle"
  /\ node \in Live
  /\ DuplicateSingleNode(node)
  /\ source' = node /\ deep' = recurse /\ root' = size
  /\ copies' = {size}
  /\ pending' = IF recurse THEN <<Work(node, size, 0)>> ELSE <<>>
  /\ pc' = IF recurse THEN "pop" ELSE "done"
  /\ UNCHANGED <<links, frame>>

PopPending ==
  /\ pc = "pop" /\ pending # <<>>
  /\ frame' = Loop(Last(pending))
  /\ pending' = Front(pending)
  /\ pc' = "children"
  /\ UNCHANGED <<vars, call, copies>>

\* Mutants: the limit is passed by one; a deleted child is copied like another.
MayCopyOneDeeper == frame.depth <= CircularLimit /\ frame.next \in Live
MayCopyDeleted == frame.depth < CircularLimit

MayCopy == frame.depth < CircularLimit /\ frame.next \in Live

\* Mutants: each copy becomes the first child; prev of the copy is not set; the
\* source is linked in the place of the copy.
LinkCopyAsHead(copy) ==
  /\ child' = [child EXCEPT ![frame.copy] = copy]
  /\ prev' = [prev EXCEPT ![copy] = frame.previous]
  /\ UNCHANGED next
LinkCopyOneWay(copy) ==
  /\ UNCHANGED prev
  /\ IF frame.previous # None
       THEN next' = [next EXCEPT ![frame.previous] = copy] /\ UNCHANGED child
       ELSE child' = [child EXCEPT ![frame.copy] = copy] /\ UNCHANGED next
LinkSource(copy) ==
  /\ prev' = [prev EXCEPT ![frame.next] = frame.previous]
  /\ IF frame.previous # None
       THEN next' = [next EXCEPT ![frame.previous] = copy] /\ UNCHANGED child
       ELSE child' = [child EXCEPT ![frame.copy] = copy] /\ UNCHANGED next

\* The copy goes behind the copy before it, or under the copied parent.
LinkCopy(copy) ==
  /\ prev' = [prev EXCEPT ![copy] = frame.previous]
  /\ IF frame.previous # None
       THEN next' = [next EXCEPT ![frame.previous] = copy] /\ UNCHANGED child
       ELSE child' = [child EXCEPT ![frame.copy] = copy] /\ UNCHANGED next

\* Mutant: a child is as deep as its parent.
CopyChildFlat ==
  /\ pc = "children" /\ frame.next # None
  /\ MayCopy
  /\ DuplicateSingleNode(frame.next)
  /\ copies' = copies \cup {size}
  /\ LinkCopy(size)
  /\ pending' = Append(pending, Work(frame.next, size, frame.depth))
  /\ frame' = [frame EXCEPT !.next = next[frame.next], !.previous = size]
  /\ UNCHANGED <<call, pc>>

\* Mutant: the copy of a child is not put down.
CopyChildUnlisted ==
  /\ pc = "children" /\ frame.next # None
  /\ MayCopy
  /\ DuplicateSingleNode(frame.next)
  /\ LinkCopy(size)
  /\ pending' = Append(pending, Work(frame.next, size, frame.depth + 1))
  /\ frame' = [frame EXCEPT !.next = next[frame.next], !.previous = size]
  /\ UNCHANGED <<call, copies, pc>>

CopyChild ==
  /\ pc = "children" /\ frame.next # None
  /\ MayCopy
  /\ DuplicateSingleNode(frame.next)
  /\ copies' = copies \cup {size}
  /\ LinkCopy(size)
  /\ pending' = Append(pending, Work(frame.next, size, frame.depth + 1))
  /\ frame' = [frame EXCEPT !.next = next[frame.next], !.previous = size]
  /\ UNCHANGED <<call, pc>>

ChildrenCopied ==
  /\ pc = "children" /\ frame.next = None
  /\ frame' = None
  /\ pc' = "pop"
  /\ UNCHANGED <<vars, call, copies, pending>>

\* discard_nodes: every node of the list, one by one.
DiscardNodes ==
  /\ deleted' = deleted \cup copies
  /\ next'  = Cleared(next, copies)
  /\ prev'  = Cleared(prev, copies)
  /\ child' = Cleared(child, copies)
  /\ key'   = Cleared(key, copies)
  /\ UNCHANGED <<size, isRef>>

GiveUp ==
  /\ pc = "children" /\ frame.next # None
  /\ ~MayCopy
  /\ DiscardNodes
  /\ frame' = None
  /\ pending' = <<>>
  /\ pc' = "refused"
  /\ UNCHANGED <<call, copies>>

Return ==
  /\ pc = "pop" /\ pending = <<>>
  /\ pc' = "done"
  /\ UNCHANGED <<vars, call, copies, pending, frame>>

CopyNext == PopPending \/ CopyChild \/ ChildrenCopied \/ GiveUp \/ Return

DupNext ==
  \/ Build
  \/ \E node \in NodeIds, recurse \in BOOLEAN : Duplicate(node, recurse)
  \/ CopyNext

\* duplicate is one call on one thread: it goes on until it returns.
DupSpec == DupInit /\ [][DupNext]_dvars /\ WF_dvars(CopyNext)

-----------------------------------------------------------------------------
(* Properties. *)

\* The finished copy is the source over again: every copy stands for one node,
\* with its key, its first child and its next sibling, and nothing stands beside
\* the root.  A source node that is reached twice, through a reference, is
\* copied twice, and no copy is a reference.
CopyIsFaithful ==
  pc = "done" =>
    \E of \in [Made -> InBounds \ Made] :
      LET Copies(c, n) == IF n = None THEN c = None ELSE c \in Made /\ of[c] = n IN
      /\ Copies(root, source)
      /\ next[root] = None /\ prev[root] = None
      /\ \A c \in Made :
           /\ ~isRef[c] /\ key[c] = key[of[c]]
           /\ Copies(child[c], IF deep THEN child[of[c]] ELSE None)
           /\ c # root => Copies(next[c], next[of[c]])

\* No step of the call touches a node that it did not make: not the source, not
\* what references borrow, not what is already deleted.
OthersUntouched ==
  [][pc' # "idle" =>
       /\ \A n \in InBounds \ Made :
            /\ next'[n] = next[n]
            /\ prev'[n] = prev[n] /\ child'[n] = child[n]
            /\ key'[n] = key[n] /\ isRef'[n] = isRef[n]
       /\ deleted' \ Made = deleted \ Made]_dvars

\* A call that gives up leaves nothing of its own: every node allocated since it
\* began is deleted, hangs nowhere and has no key.  What is discarded is what the
\* call put down on the way, in two places, and what it allocated another matter.
NothingLeftOfARefusedCopy ==
  pc = "refused" =>
    \A n \in Made : n \in deleted /\ {next[n], prev[n], child[n], key[n]} = {None}

\* The nodes at a depth below the source, as duplicate finds them: through the
\* lists that references borrow as well.
AtDepth ==
  LET at[d \in Nat] == IF d = 0 THEN Chain(source)
                       ELSE UNION {Chain(n) : n \in at[d - 1]}
  IN  at

\* A copy is refused exactly when there is something it cannot copy: a deleted
\* node, or a node below the limit.  Neither the order of the work list nor where
\* the trouble is decides.
RefusedForAReason ==
  pc \in {"done", "refused"} /\ deep =>
    (pc = "refused" <=> \/ AtDepth[CircularLimit] # {}
                        \/ \E d \in 0 .. CircularLimit : ~(AtDepth[d] \subseteq Live))

\* Every call comes to an end, also when the source leads back into itself.
CopyEnds == pc \notin {"idle"} ~> pc \in {"done", "refused"}
=============================================================================
