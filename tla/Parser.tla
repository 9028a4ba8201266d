------------------------------- MODULE Parser -------------------------------
(***************************************************************************)
(* One top-level parse of rJSON/src/parser.rs into an arena: the recursive *)
(* descent of parse_value, parse_array and parse_object with its call      *)
(* stack made explicit, and the entry points above it.                     *)
(*                                                                         *)
(* The input is a sequence of tokens instead of bytes: a bracket, a comma, *)
(* a colon, a blank, a NUL and a stray byte are one byte; a number that    *)
(* fits a double (Scalar) or overflows to infinity (Huge), a well formed   *)
(* string (a member of Keys), a string with an invalid escape (Broken) and *)
(* a byte order mark stand for several.  A literal (null, true, false) is  *)
(* read and linked as a Scalar is.  What is inside the tokens is modelled  *)
(* in Literals.                                                            *)
(* The offset counts tokens.  The code steps back by one byte only over a  *)
(* blank or a bracket, so the two ways of counting agree on every guard.   *)
(*                                                                         *)
(* A new node is allocated only when it is complete: children before the   *)
(* container that holds them.                                              *)
(***************************************************************************)
EXTENDS Arena, Sequences, SequencesExt

CONSTANTS
  Inputs,        \* the byte strings handed to the parser
  NestingLimit   \* CJSON_NESTING_LIMIT

Scalar == "scalar"
Huge   == "1e999"
Broken == "broken"
Blank  == "blank"
Nul    == "NUL"
Stray  == "stray"
BOM    == "BOM"

Scalars == {Scalar, Huge}
Marks  == {"[", "]", "{", "}", ",", ":", Broken, Blank, Nul, Stray, BOM}
Tokens == Marks \cup Scalars \cup Keys

\* A string is no other token, and no container.
ASSUME KeysAssumption == Keys \cap (Marks \cup Scalars \cup {"array", "object"}) = {}

ASSUME InputsAssumption == Inputs \subseteq Seq(Tokens)
ASSUME NestingLimitAssumption == NestingLimit \in Nat

VARIABLES
  input,
  requireEnd,   \* require_null_terminated
  offset,       \* current_offset
  depth,
  stack,        \* the parse_array and parse_object calls under way, innermost last
  pc,           \* where the innermost call stands
  ret,          \* the node a call just returned
  kind          \* what each node holds: node_type, and its string

parser == <<input, requireEnd, offset, depth, stack, pc, ret, kind>>
pvars  == <<vars, parser>>

\* Every variable within its range, and depth counts the calls under way: it is
\* given back on every way out of a call, however it fails.
ParserTypeOK ==
  /\ TypeOK
  /\ input \in Seq(Tokens)
  /\ requireEnd \in BOOLEAN
  /\ offset \in Int
  /\ depth \in 0 .. NestingLimit
  /\ stack \in Seq([container : {"array", "object"}, head : Link, tail : Link,
                    key : Keys \cup {None}])
  /\ Len(stack) = depth
  /\ pc \in {"start", "value", "loop", "return", "linked", "fail", "accepted", "rejected"}
  /\ ret \in Link
  /\ kind \in [NodeIds -> {"array", "object", None} \cup Scalars \cup Keys]

\* The first NUL ends the text for cjson_parse and cjson_parse_with_opts.
UpToNul(raw) == SelectInSeq(raw, LAMBDA t : t = Nul)
Truncated(raw) == IF UpToNul(raw) = 0 THEN raw ELSE SubSeq(raw, 1, UpToNul(raw) - 1)

ParseInit ==
  /\ Init
  /\ \E raw \in Inputs : input \in {raw, Truncated(raw)}
  /\ requireEnd \in BOOLEAN
  /\ offset = 0
  /\ depth = 0
  /\ stack = <<>>
  /\ pc = "start"
  /\ ret = None
  /\ kind = [n \in NodeIds |-> None]

-----------------------------------------------------------------------------
(* The buffer. *)

Reads(o, t) == o < Len(input) /\ input[o + 1] = t
ReadsString(o) == o < Len(input) /\ input[o + 1] \in Keys
ReadsScalar(o) == o < Len(input) /\ input[o + 1] \in Scalars

\* skip_whitespace: every byte up to 32 is a blank, NUL included.
IsBlank(o) == Reads(o, Blank) \/ Reads(o, Nul)
AfterBlanks(o) ==
  {e \in o .. Len(input) : (\A i \in o .. e - 1 : IsBlank(i)) /\ ~IsBlank(e)}

\* skip_utf8_bom asks for at least one byte behind the mark.
AfterBOM == IF Reads(0, BOM) /\ Len(input) > 1 THEN 1 ELSE 0

-----------------------------------------------------------------------------
(* Frames. *)

Frame(container) == [container |-> container, head |-> None, tail |-> None, key |-> None]
Top == stack[Len(stack)]
Pop == SubSeq(stack, 1, Len(stack) - 1)
SetTop(frame) == [stack EXCEPT ![Len(stack)] = frame]

Closing(container) == IF container = "array" THEN "]" ELSE "}"

\* Mutant: an error inside a container skips the element.
FailsSkipping ==
  /\ pc' = IF stack = <<>> THEN "fail" ELSE "loop"
  /\ UNCHANGED <<vars, input, requireEnd, depth, stack, ret, kind>>

Fails == /\ pc' = "fail"
         /\ UNCHANGED <<vars, input, requireEnd, depth, stack, ret, kind>>

\* The call returns a new node that holds k and owns the list from head.
Returns(head, k) ==
  /\ Alloc(head, FALSE)
  /\ kind' = [kind EXCEPT ![size] = k]
  /\ ret' = size
  /\ pc' = "return"
  /\ UNCHANGED <<input, requireEnd>>

-----------------------------------------------------------------------------
(* parse_value. *)

ParseScalar ==
  /\ pc = "value"
  /\ ReadsScalar(offset) \/ ReadsString(offset)
  /\ offset' = offset + 1
  /\ Returns(None, input[offset + 1])
  /\ UNCHANGED <<depth, stack>>

\* Nothing a value starts with, a string parse_string gives up on, or the end.
ParseNothing ==
  /\ pc = "value"
  /\ ~Reads(offset, "[") /\ ~Reads(offset, "{")
  /\ ~ReadsScalar(offset) /\ ~ReadsString(offset)
  /\ Fails
  /\ UNCHANGED offset

Opens(container) ==
  /\ pc = "value"
  /\ Reads(offset, IF container = "array" THEN "[" ELSE "{")

TooDeep(container) ==
  /\ Opens(container)
  /\ depth >= NestingLimit
  /\ Fails
  /\ UNCHANGED offset

\* An empty container returns before its loop, its depth given back.
ParseEmpty(container) ==
  /\ Opens(container)
  /\ depth < NestingLimit
  /\ \E e \in AfterBlanks(offset + 1) :
       /\ Reads(e, Closing(container))
       /\ offset' = e + 1
  /\ Returns(None, container)
  /\ UNCHANGED <<depth, stack>>

\* Mutant: the step back starts at the bracket.
ParseOpenEndedBackTwice(container) ==
  /\ Opens(container)
  /\ depth < NestingLimit
  /\ Len(input) \in AfterBlanks(offset + 1)
  /\ offset' = offset - 1
  /\ Fails

\* The input ends behind the opening bracket: one step back, and fail.
ParseOpenEnded(container) ==
  /\ Opens(container)
  /\ depth < NestingLimit
  /\ Len(input) \in AfterBlanks(offset + 1)
  /\ offset' = Len(input) - 1
  /\ Fails

\* Mutant: the depth is not taken.
EnterFlat(container) ==
  /\ Opens(container)
  /\ depth < NestingLimit
  /\ \E e \in AfterBlanks(offset + 1) :
       /\ e < Len(input) /\ ~Reads(e, Closing(container))
       /\ offset' = e - 1
  /\ stack' = Append(stack, Frame(container))
  /\ pc' = "loop"
  /\ UNCHANGED <<vars, input, requireEnd, depth, ret, kind>>

\* Otherwise one step back in front of the first element, and into the loop.
Enter(container) ==
  /\ Opens(container)
  /\ depth < NestingLimit
  /\ \E e \in AfterBlanks(offset + 1) :
       /\ e < Len(input) /\ ~Reads(e, Closing(container))
       /\ offset' = e - 1
  /\ depth' = depth + 1
  /\ stack' = Append(stack, Frame(container))
  /\ pc' = "loop"
  /\ UNCHANGED <<vars, input, requireEnd, ret, kind>>

-----------------------------------------------------------------------------
(* The loops of parse_array and parse_object. *)

NextElement ==
  /\ pc = "loop" /\ Top.container = "array"
  /\ offset' \in AfterBlanks(offset + 1)
  /\ pc' = "value"
  /\ UNCHANGED <<vars, input, requireEnd, depth, stack, ret, kind>>

\* Mutant: the key of the member before is not replaced.
NextMemberStaleKey ==
  /\ pc = "loop" /\ Top.container = "object"
  /\ offset + 1 < Len(input)
  /\ \E name \in AfterBlanks(offset + 1) :
       /\ ReadsString(name)
       /\ \E colon \in AfterBlanks(name + 1) :
            /\ Reads(colon, ":")
            /\ offset' \in AfterBlanks(colon + 1)
       /\ stack' = SetTop([Top EXCEPT !.key = IF @ = None THEN input[name + 1] ELSE @])
  /\ pc' = "value"
  /\ UNCHANGED <<vars, input, requireEnd, depth, ret, kind>>

\* A member: its key, a colon, and on to its value.
NextMember ==
  /\ pc = "loop" /\ Top.container = "object"
  /\ offset + 1 < Len(input)
  /\ \E name \in AfterBlanks(offset + 1) :
       /\ ReadsString(name)
       /\ \E colon \in AfterBlanks(name + 1) :
            /\ Reads(colon, ":")
            /\ offset' \in AfterBlanks(colon + 1)
       /\ stack' = SetTop([Top EXCEPT !.key = input[name + 1]])
  /\ pc' = "value"
  /\ UNCHANGED <<vars, input, requireEnd, depth, ret, kind>>

\* Nothing behind the comma, no string for a key, or no colon behind the key.
MalformedMember ==
  /\ pc = "loop" /\ Top.container = "object"
  /\ \/ offset + 1 >= Len(input) /\ UNCHANGED offset
     \/ /\ offset + 1 < Len(input)
        /\ \E name \in AfterBlanks(offset + 1) :
             \/ ~ReadsString(name) /\ offset' = name
             \/ /\ ReadsString(name)
                /\ \E colon \in AfterBlanks(name + 1) :
                     ~Reads(colon, ":") /\ offset' = colon
  /\ Fails

\* Mutant: prev of the new tail is not set.
LinkAsNextSiblingOneWay(item) ==
  /\ next' = IF Top.tail = None THEN next ELSE [next EXCEPT ![Top.tail] = item]
  /\ UNCHANGED prev

\* link_as_next_sibling, or the start of the list.
LinkAsNextSibling(item) ==
  /\ next' = IF Top.tail = None THEN next ELSE [next EXCEPT ![Top.tail] = item]
  /\ prev' = IF Top.tail = None THEN prev ELSE [prev EXCEPT ![item] = Top.tail]

\* Mutant: the list starts at its last element.
LinkItemMovingHead ==
  /\ pc = "return" /\ stack # <<>>
  /\ key' = [key EXCEPT ![ret] = Top.key]
  /\ LinkAsNextSibling(ret)
  /\ stack' = SetTop([Top EXCEPT !.head = ret, !.tail = ret])
  /\ offset' \in AfterBlanks(offset)
  /\ pc' = "linked"
  /\ ret' = None
  /\ UNCHANGED <<size, deleted, child, isRef, input, requireEnd, depth, kind>>

\* The value of an element or member came back: name it, skip, link it.
LinkItem ==
  /\ pc = "return" /\ stack # <<>>
  /\ key' = [key EXCEPT ![ret] = Top.key]
  /\ LinkAsNextSibling(ret)
  /\ stack' = SetTop([Top EXCEPT !.head = IF @ = None THEN ret ELSE @, !.tail = ret])
  /\ offset' \in AfterBlanks(offset)
  /\ pc' = "linked"
  /\ ret' = None
  /\ UNCHANGED <<size, deleted, child, isRef, input, requireEnd, depth, kind>>

ContinueLoop ==
  /\ pc = "linked" /\ Reads(offset, ",")
  /\ pc' = "loop"
  /\ UNCHANGED <<vars, input, requireEnd, offset, depth, stack, ret, kind>>

CloseContainer ==
  /\ pc = "linked" /\ Reads(offset, Closing(Top.container))
  /\ depth' = depth - 1
  /\ stack' = Pop
  /\ offset' = offset + 1
  /\ Returns(Top.head, Top.container)

ExpectedEnd ==
  /\ pc = "linked"
  /\ ~Reads(offset, ",") /\ ~Reads(offset, Closing(Top.container))
  /\ Fails
  /\ UNCHANGED offset

\* Mutant: the elements stay.
LeaveKeepingElements == depth' = depth - 1 /\ UNCHANGED vars

\* A failing call gives its depth back and deletes the elements it had linked.
Leave ==
  /\ depth' = depth - 1
  /\ IF Top.head = None THEN UNCHANGED vars ELSE Delete(Top.head)

\* An error inside a container, its own or of an element, ends its call too.
Abandon ==
  /\ pc = "fail" /\ stack # <<>>
  /\ Leave
  /\ stack' = Pop
  /\ UNCHANGED <<input, requireEnd, offset, pc, ret, kind>>

-----------------------------------------------------------------------------
(* The entry point: cjson_parse_with_length_opts. *)

Begin ==
  /\ pc = "start"
  /\ \/ /\ input = <<>>
        /\ pc' = "rejected"
        /\ UNCHANGED offset
     \/ /\ input # <<>>
        /\ offset' \in AfterBlanks(AfterBOM)
        /\ pc' = "value"
  /\ UNCHANGED <<vars, input, requireEnd, depth, stack, ret, kind>>

Reject ==
  /\ pc = "fail" /\ stack = <<>>
  /\ pc' = "rejected"
  /\ UNCHANGED <<vars, input, requireEnd, offset, depth, stack, ret, kind>>

\* Mutant: what follows the value does not matter.
AcceptTrailing ==
  /\ pc = "return" /\ stack = <<>>
  /\ pc' = "accepted"
  /\ UNCHANGED <<vars, input, requireEnd, offset, depth, stack, ret, kind>>

Accept ==
  /\ pc = "return" /\ stack = <<>>
  /\ IF requireEnd THEN Len(input) \in AfterBlanks(offset) /\ offset' = Len(input)
                   ELSE UNCHANGED offset
  /\ pc' = "accepted"
  /\ UNCHANGED <<vars, input, requireEnd, depth, stack, ret, kind>>

\* require_null_terminated and something follows: the finished tree is deleted.
RejectTrailing ==
  /\ pc = "return" /\ stack = <<>>
  /\ requireEnd
  /\ Len(input) \notin AfterBlanks(offset)
  /\ offset' \in AfterBlanks(offset)
  /\ Delete(ret)
  /\ pc' = "rejected"
  /\ ret' = None
  /\ UNCHANGED <<input, requireEnd, depth, stack, kind>>

ParseNext ==
  \/ Begin \/ ParseScalar \/ ParseNothing
  \/ \E container \in {"array", "object"} :
       \/ TooDeep(container) \/ ParseEmpty(container)
       \/ ParseOpenEnded(container) \/ Enter(container)
  \/ NextElement \/ NextMember \/ MalformedMember
  \/ LinkItem \/ ContinueLoop \/ CloseContainer \/ ExpectedEnd
  \/ Abandon \/ Reject \/ Accept \/ RejectTrailing

\* The parse is one call on one thread: it goes on until it returns.
ParseSpec == ParseInit /\ [][ParseNext]_pvars /\ WF_pvars(ParseNext)
=============================================================================
