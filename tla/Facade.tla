------------------------------- MODULE Facade -------------------------------
(***************************************************************************)
(* The C interface of rJSON/src/facade.rs: cJSON structs and strings on a  *)
(* heap whose allocator may refuse any request (cJSON_InitHooks lets the   *)
(* caller install such a one), and the calls that build, link and free     *)
(* them.  A call allocates block by block; when a request is refused it    *)
(* frees what it has built and returns null.  The hooks may be changed at  *)
(* any time between calls, so blocks of several allocators live side by    *)
(* side, and a block is freed by whatever function is installed by then.   *)
(*                                                                         *)
(* A block is a struct or a string.  Of a struct the pointers are          *)
(* modelled; type and numbers are not.  What a call builds is a document:  *)
(* a record [value, key, kids] that says whether a struct has a            *)
(* valuestring and a string of its own, and what its children are.         *)
(* cJSON_Parse builds any document, CreateString one with a value,         *)
(* Create*Array one with children, Add*ToObject one with a key.            *)
(***************************************************************************)
EXTENDS Integers, FiniteSets, Sequences, SequencesExt

CONSTANTS
  MaxBlocks,   \* bound: how many requests for memory are ever granted
  Docs,        \* the documents calls build
  Texts,       \* the texts the caller parses
  Allocators,  \* libc, and those whose functions the caller installs
  Null

Blocks == 0 .. MaxBlocks - 1

ASSUME MaxBlocksAssumption == MaxBlocks \in Nat
ASSUME NullAssumption == Null \notin Blocks \cup Texts

\* No hook means libc.
ASSUME AllocatorsAssumption == "libc" \in Allocators

\* The children of a document are documents a call may build as well.
ASSUME DocsAssumption == Docs \subseteq [value : BOOLEAN, key : BOOLEAN, kids : Seq(Docs)]

VARIABLES
  used,        \* how many blocks were handed out; addresses are not reused
  allocated,   \* the blocks not freed yet
  next, prev, child, valuestring, string,
  held,        \* the structs the caller got and has not given away or deleted
  calls,       \* the structs a call is building, outermost first
  target,      \* the object an Add*ToObject call adds to
  refused,     \* malloc returned null in the call under way
  hooks,       \* GLOBAL_MALLOC_HOOK and GLOBAL_FREE_HOOK: whose functions they are
  from,        \* the allocator each block came from
  astray,      \* the blocks handed to the free function of another allocator
  errorPtr,    \* GLOBAL_ERROR_PTR: the text it points into
  lastText     \* the text of the last parse

fields  == <<next, prev, child, valuestring, string>>
blocks  == <<used, allocated, from, astray>>
heap    == <<blocks, fields>>
globals == <<hooks, errorPtr, lastText>>
hvars   == <<heap, held, calls, target, refused, globals>>

Pointer == Blocks \cup {Null}

HeapInit ==
  /\ used = 0
  /\ allocated = {}
  /\ from = [b \in Blocks |-> Null]
  /\ hooks = [malloc |-> "libc", free |-> "libc"]
  /\ astray = {}
  /\ next        = [b \in Blocks |-> Null]
  /\ prev        = [b \in Blocks |-> Null]
  /\ child       = [b \in Blocks |-> Null]
  /\ valuestring = [b \in Blocks |-> Null]
  /\ string      = [b \in Blocks |-> Null]
  /\ held = {}
  /\ calls = <<>>
  /\ target = Null
  /\ refused = FALSE
  /\ errorPtr = Null
  /\ lastText = Null

Idle == calls = <<>>

-----------------------------------------------------------------------------
(* Reachability, malloc and free. *)

\* Everything reached from the block b by following the links fs.
Reach(b, fs) ==
  LET Closed == {S \in SUBSET Blocks :
                   b \in S /\ \A m \in S, i \in DOMAIN fs : fs[i][m] \in S \cup {Null}}
  IN  {m \in Blocks : \A S \in Closed : m \in S}

\* What cJSON_Delete frees: the chain of next, every child below, their strings.
OwnedBlocks(b) == Reach(b, <<next, child, valuestring, string>>)

\* cjson_malloc, when the function installed grants the request.
Malloc ==
  /\ used < MaxBlocks
  /\ used' = used + 1
  /\ allocated' = allocated \cup {used}
  /\ from' = [from EXCEPT ![used] = hooks.malloc]
  /\ UNCHANGED astray

Freed(f, D) == [b \in Blocks |-> IF b \in D THEN Null ELSE f[b]]

\* cJSON_Delete: each block goes through cjson_free to the function installed now.
Free(b) ==
  LET D == OwnedBlocks(b) IN
  /\ allocated' = allocated \ D
  /\ astray' = astray \cup {d \in D : from[d] # hooks.free}
  /\ from'        = Freed(from, D)
  /\ next'        = Freed(next, D)
  /\ prev'        = Freed(prev, D)
  /\ child'       = Freed(child, D)
  /\ valuestring' = Freed(valuestring, D)
  /\ string'      = Freed(string, D)
  /\ UNCHANGED used

-----------------------------------------------------------------------------
(* Building. *)

Frame(doc) == [doc |-> doc, ptr |-> Null, step |-> "struct", done |-> 0, tail |-> Null]

Top == Last(calls)
WithTop(frame) == Append(Front(calls), frame)

StepAfter(doc, step) ==
  IF step = "struct" /\ doc.value THEN "value"
  ELSE IF step # "string" /\ doc.key THEN "string"
  ELSE "kids"

\* alloc_cjson: a zeroed struct.
AllocStruct ==
  /\ ~Idle /\ ~refused /\ Top.step = "struct"
  /\ Malloc
  /\ calls' = WithTop([Top EXCEPT !.ptr = used, !.step = StepAfter(Top.doc, "struct")])
  /\ UNCHANGED <<fields, held, target, refused, globals>>

\* bytes_to_cstring_heap for the value, and for the key.
AllocValue ==
  /\ ~Idle /\ ~refused /\ Top.step = "value"
  /\ Malloc
  /\ valuestring' = [valuestring EXCEPT ![Top.ptr] = used]
  /\ calls' = WithTop([Top EXCEPT !.step = StepAfter(Top.doc, "value")])
  /\ UNCHANGED <<next, prev, child, string, held, target, refused, globals>>

AllocString ==
  /\ ~Idle /\ ~refused /\ Top.step = "string"
  /\ Malloc
  /\ string' = [string EXCEPT ![Top.ptr] = used]
  /\ calls' = WithTop([Top EXCEPT !.step = "kids"])
  /\ UNCHANGED <<next, prev, child, valuestring, held, target, refused, globals>>

Refuse ==
  /\ ~Idle /\ ~refused /\ Top.step # "kids"
  /\ refused' = TRUE
  /\ UNCHANGED <<heap, held, calls, target, globals>>

\* On to the next child.
NextKid ==
  /\ ~Idle /\ ~refused /\ Top.step = "kids"
  /\ Top.done < Len(Top.doc.kids)
  /\ calls' = Append(calls, Frame(Top.doc.kids[Top.done + 1]))
  /\ UNCHANGED <<heap, held, target, refused, globals>>

Finished == ~Idle /\ ~refused /\ Top.step = "kids" /\ Top.done = Len(Top.doc.kids)

\* Mutant: prev of the sibling is not set.
LinkKidOneWay(above, kid) ==
  /\ child' = IF above.tail = Null THEN [child EXCEPT ![above.ptr] = kid] ELSE child
  /\ next'  = IF above.tail = Null THEN next ELSE [next EXCEPT ![above.tail] = kid]
  /\ UNCHANGED prev

\* Mutant: the child goes in front of the list.
LinkKidInFront(above, kid) ==
  /\ child' = [child EXCEPT ![above.ptr] = kid]
  /\ next'  = [next EXCEPT ![kid] = child[above.ptr]]
  /\ prev'  = IF child[above.ptr] = Null THEN prev ELSE [prev EXCEPT ![child[above.ptr]] = kid]

\* A child that is complete goes behind the last one.
LinkKid(above, kid) ==
  /\ child' = IF above.tail = Null THEN [child EXCEPT ![above.ptr] = kid] ELSE child
  /\ next'  = IF above.tail = Null THEN next ELSE [next EXCEPT ![above.tail] = kid]
  /\ prev'  = IF above.tail = Null THEN prev ELSE [prev EXCEPT ![kid] = above.tail]

FinishKid ==
  /\ Finished /\ Len(calls) > 1
  /\ LET above == Last(Front(calls)) IN
       /\ LinkKid(above, Top.ptr)
       /\ calls' = Append(Front(Front(calls)),
                          [above EXCEPT !.done = @ + 1, !.tail = Top.ptr])
  /\ UNCHANGED <<blocks, valuestring, string, held, target, refused, globals>>

\* append_to_parent, without the key.
LinkLast(parent, item) ==
  /\ child' = IF child[parent] = Null THEN [child EXCEPT ![parent] = item] ELSE child
  /\ IF child[parent] = Null
       THEN UNCHANGED <<next, prev>>
       ELSE \E last \in Reach(child[parent], <<next>>) :
              /\ next[last] = Null
              /\ next' = [next EXCEPT ![last] = item]
              /\ prev' = [prev EXCEPT ![item] = last]

\* The call returns what it built, or has added it to the target.
Finish ==
  /\ Finished /\ Len(calls) = 1
  /\ IF target = Null
       THEN held' = held \cup {Top.ptr} /\ UNCHANGED <<next, prev, child>>
       ELSE LinkLast(target, Top.ptr) /\ UNCHANGED held
  /\ calls' = <<>>
  /\ target' = Null
  /\ UNCHANGED <<blocks, valuestring, string, refused, globals>>

\* Mutant: only the struct is freed, as if it owned nothing yet.
UnwindStructOnly ==
  /\ ~Idle /\ refused
  /\ allocated' = allocated \ {Top.ptr}
  /\ calls' = Front(calls)
  /\ refused' = (Len(calls) > 1)
  /\ target' = IF Len(calls) > 1 THEN target ELSE Null
  /\ UNCHANGED <<used, from, astray, fields, held, globals>>

\* Mutant: the level that freed what it has built comes to free it again.
UnwindTwice ==
  /\ ~Idle /\ refused
  /\ IF Top.ptr = Null THEN UNCHANGED heap ELSE Free(Top.ptr)
  /\ UNCHANGED <<held, calls, target, refused, globals>>

\* Mutant: a call that fails to add deletes the object as well.
UnwindDeletingTarget ==
  /\ ~Idle /\ refused
  /\ IF target # Null THEN Free(target)
     ELSE IF Top.ptr = Null THEN UNCHANGED heap ELSE Free(Top.ptr)
  /\ calls' = Front(calls)
  /\ refused' = (Len(calls) > 1)
  /\ target' = IF Len(calls) > 1 THEN target ELSE Null
  /\ UNCHANGED <<held, globals>>

\* malloc returned null: every level frees what it owns and returns null.
Unwind ==
  /\ ~Idle /\ refused
  /\ IF Top.ptr = Null THEN UNCHANGED heap ELSE Free(Top.ptr)
  /\ calls' = Front(calls)
  /\ refused' = (Len(calls) > 1)
  /\ target' = IF Len(calls) > 1 THEN target ELSE Null
  /\ UNCHANGED <<held, globals>>

-----------------------------------------------------------------------------
(* The calls of the interface. *)

StartBuild(doc, parent) ==
  /\ Idle
  /\ calls' = <<Frame(doc)>>
  /\ target' = parent
  /\ UNCHANGED <<heap, held, refused>>

\* cJSON_Create*
CreateItem(doc) ==
  /\ ~doc.key
  /\ StartBuild(doc, Null)
  /\ UNCHANGED globals

\* cJSON_Add*ToObject
AddNewToObject(object, doc) ==
  /\ doc.key /\ doc.kids = <<>>
  /\ StartBuild(doc, object)
  /\ UNCHANGED globals

\* cJSON_Parse and its variants: the text is well formed, and becomes structs.
ParseText(text, doc) ==
  /\ ~doc.key
  /\ StartBuild(doc, Null)
  /\ lastText' = text
  /\ UNCHANGED <<errorPtr, hooks>>

\* ... or it is not: null, and GLOBAL_ERROR_PTR says where.
RejectText(text) ==
  /\ Idle
  /\ errorPtr' = text
  /\ lastText' = text
  /\ UNCHANGED <<heap, held, calls, target, refused, hooks>>

\* A null text resets GLOBAL_ERROR_PTR.
ParseNull ==
  /\ Idle
  /\ errorPtr' = Null
  /\ UNCHANGED <<heap, held, calls, target, refused, lastText, hooks>>

\* cJSON_InitHooks: each function on its own; a null hook, and null for both, is
\* libc's.  A malloc that refuses everything is one whose requests Refuse refuses.
InitHooks(malloc, free) ==
  /\ Idle
  /\ hooks' = [malloc |-> malloc, free |-> free]
  /\ UNCHANGED <<heap, held, calls, target, refused, errorPtr, lastText>>

\* cJSON_AddItemToArray: the item loses the key it had.
AddItemToArray(array, item) ==
  /\ Idle
  /\ LinkLast(array, item)
  /\ string' = [string EXCEPT ![item] = Null]
  /\ held' = held \ {item}
  /\ UNCHANGED <<blocks, valuestring, calls, target, refused, globals>>

\* cJSON_AddItemToObject copies the key first; refused, it changes nothing.
AddItemToObject(object, item) ==
  /\ Idle
  /\ Malloc
  /\ LinkLast(object, item)
  /\ string' = [string EXCEPT ![item] = used]
  /\ held' = held \ {item}
  /\ UNCHANGED <<valuestring, calls, target, refused, globals>>

\* cJSON_Delete
DeleteItem(item) ==
  /\ Idle
  /\ Free(item)
  /\ held' = held \ {item}
  /\ UNCHANGED <<calls, target, refused, globals>>

\* The structs of the trees the caller holds.
HeldStructs == UNION {Reach(h, <<next, child>>) : h \in held}

\* The functions installed belong together, so what a call allocates it can free.
HooksMatch == hooks.malloc = hooks.free

\* The function installed takes every block of the item.
MayDelete(item) == \A b \in OwnedBlocks(item) : from[b] = hooks.free

\* Callers give away or delete only what they hold and hang nothing under itself.
\* They change the hooks whenever they like, also while they hold trees, and may mix
\* blocks of two allocators in one tree; but they build with functions that match,
\* and delete a tree only while the function installed takes all of it.
NextCall ==
  \/ \E malloc, free \in Allocators : InitHooks(malloc, free)
  \/ \E doc \in Docs : HooksMatch /\ CreateItem(doc)
  \/ \E object \in HeldStructs, doc \in Docs : HooksMatch /\ AddNewToObject(object, doc)
  \/ \E text \in Texts, doc \in Docs : HooksMatch /\ ParseText(text, doc)
  \/ \E text \in Texts : RejectText(text)
  \/ ParseNull
  \/ \E item \in held :
       \/ MayDelete(item) /\ DeleteItem(item)
       \/ \E parent \in HeldStructs \ Reach(item, <<next, child>>) :
            AddItemToArray(parent, item) \/ AddItemToObject(parent, item)

HeapNext ==
  \/ AllocStruct \/ AllocValue \/ AllocString \/ Refuse
  \/ NextKid \/ FinishKid \/ Finish \/ Unwind
  \/ Idle /\ NextCall

HeapSpec == HeapInit /\ [][HeapNext]_hvars

\* A caller that also hands an item over as its own parent.
SelfAddSpec ==
  HeapInit /\ [][HeapNext \/ \E item \in held : AddItemToArray(item, item)]_hvars

-----------------------------------------------------------------------------
(* Properties. *)

HeapTypeOK ==
  /\ used \in 0 .. MaxBlocks
  /\ allocated \subseteq 0 .. used - 1
  /\ \A f \in {next, prev, child, valuestring, string} : f \in [Blocks -> Pointer]
  /\ held \subseteq allocated
  /\ \A i \in DOMAIN calls : /\ calls[i].ptr \in allocated \cup {Null}
                             /\ calls[i].ptr = Null <=> calls[i].step = "struct"
  /\ target \in allocated \cup {Null}
  /\ hooks \in [malloc : Allocators, free : Allocators]
  /\ astray \subseteq Blocks
  /\ from \in [Blocks -> Allocators \cup {Null}]
  /\ {errorPtr, lastText} \subseteq Texts \cup {Null}

\* What the caller holds and what a call is building.
Roots == held \cup {calls[i].ptr : i \in {j \in DOMAIN calls : calls[j].ptr # Null}}

\* Every block that is not freed belongs to exactly one tree that someone holds: a
\* call whose allocation is refused at any point, and however deep, frees all it
\* has built, nothing is freed that still hangs somewhere, and no block can be
\* freed twice (hook_repro.c counts the frees of one such call).
NothingLeakedOrShared ==
  LET owned == [r \in Roots |-> OwnedBlocks(r)]
      pointers == <<next, child, valuestring, string>>
  IN  /\ allocated = UNION {owned[r] : r \in Roots}
      /\ \A q, r \in Roots : q # r => owned[q] \cap owned[r] = {}
      /\ \A c \in Blocks :
           Cardinality({p \in allocated \X DOMAIN pointers : pointers[p[2]][p[1]] = c}) <= 1

\* cJSON_InitHooks takes effect at once, for free as for malloc, whatever is alive.
\* A call that fails must then hand to the function installed what it has built and
\* nothing else: not the object it was to add to, nor anything the caller holds,
\* which may be of another allocator (as in cjson_add.c, where the hooks are changed
\* under a live object and a member is refused).  So no block ever goes astray.
FreedByItsAllocator == astray = {}

\* The siblings are linked both ways, and a root or a first child has no prev.
SiblingsLinkedBothWays ==
  /\ \A a, b \in allocated : next[a] = b <=> prev[b] = a
  /\ \A r \in Roots : prev[r] = Null /\ next[r] = Null
  /\ \A a \in allocated : child[a] # Null => prev[child[a]] = Null

\* The documents that a struct, and those behind it in its list, spell, given what
\* those below and behind it do.
SpelledAt(spelled, b) ==
  IF b = Null THEN <<>>
  ELSE <<[value |-> valuestring[b] # Null, key |-> string[b] # Null,
          kids |-> spelled[child[b]]]>> \o spelled[next[b]]

SpelledFrom(first) ==
  LET spelled[b \in Reach(first, <<next, child>>) \cup {Null}] == SpelledAt(spelled, b)
  IN  spelled[first]

\* What a call returns, and every part of it on the way, is the document it was
\* asked for: all its members, in order, each with its key and its value.
BuildsTheDocument == Finished => SpelledFrom(Top.ptr) = <<Top.doc>>

\* misc_tests.c, cjson_add_item_to_object_or_array_should_not_add_itself.
NoStructHoldsItself == \A b \in allocated : child[b] # b

\* facade.rs on GLOBAL_ERROR_PTR: null (no error), or into a text of the caller,
\* valid until the next parse call.  So after a parse it is null or in its text.
ErrorPtrOfTheLastParse == errorPtr \in {Null, lastText}
=============================================================================
