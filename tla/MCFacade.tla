------------------------------ MODULE MCFacade ------------------------------
(***************************************************************************)
(* Small documents for the C interface.                                    *)
(***************************************************************************)
EXTENDS Facade

Leaf(value, key) == [value |-> value, key |-> key, kids |-> <<>>]
Container(kids) == [value |-> FALSE, key |-> FALSE, kids |-> kids]

\* A number or an empty container, a string, a new member of either sort, a list
\* of two, a container of one member, and that in a container.
MCDocs == {
  Leaf(FALSE, FALSE), Leaf(TRUE, FALSE), Leaf(FALSE, TRUE), Leaf(TRUE, TRUE),
  Container(<<Leaf(FALSE, FALSE), Leaf(TRUE, FALSE)>>),
  Container(<<Leaf(TRUE, TRUE)>>), Container(<<Container(<<Leaf(TRUE, TRUE)>>)>>) }

\* One allocator when no property tells them apart; libc and another.
OnlyLibc == {"libc"}
TwoAllocators == {"libc", "hook"}

\* Bound: once blocks of the other allocator are alive, libc makes no more.
OneSwitch == \A b, c \in allocated : b < c /\ from[b] = "hook" => from[c] = "hook"

\* Bound: a text is rejected only while the heap is empty.
RejectedFirst == errorPtr # Null => allocated = {}

\* Bound: the caller keeps at most two trees at a time.
TwoTrees == Cardinality(held) <= 2
=============================================================================
