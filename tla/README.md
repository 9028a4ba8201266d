# A TLA+ model of rJSON

rJSON is a Rust port of cJSON 1.7.19: a parser and printer for JSON, a tree in
an arena, and a C interface with cJSON's own names and struct. It runs on one
thread. What makes it hard is not interleaving but long sequences of legal
calls on linked structures, clean-up paths that fail half way, and promises
about what the caller may do that no code checks.

This directory holds TLA+ modules for the core of the program, configurations
that check them with TLC, and proofs that TLAPS checks.

## 1. Inventory

| Component | Source (`src/rJSON/src`) | State it keeps | Operations | Status |
|---|---|---|---|---|
| Arena tree operations | `arena.rs` 117-190, 429-849, 973-990 | `nodes`, `deleted`: nodes linked by index (`next`, `prev`, `child`), keys, reference flags | create, create reference, `append_child`, add, insert, detach, replace, delete, find | modelled, partly proved |
| Duplicate | `arena.rs` 361-427 | work list, list of nodes made | `duplicate` | modelled |
| Compare | `arena.rs` 281-359 | none | `compare` | modelled |
| Printing | `arena.rs` 192-279, 851-971 | none | `print_*` | modelled but for the digits of numbers |
| Minify, escaping | `arena.rs` 36-115 | scanner state in locals | `minify`, `escape_json_bytes` | modelled |
| Parser | `parser.rs` 40-236, 540-844, 960-1051 | input, offset, depth, the call stack; nodes in the arena | `parse_value`, `parse_array`, `parse_object`, the three entry points | modelled |
| Literals | `parser.rs` 238-536, 846-925 | scanner state in locals | `parse_string`, `utf16_literal_to_utf8`, `parse_hex4`, `parse_number`, `strtod_prefix_len` | modelled but for the value of numbers |
| C interface | `facade.rs` | structs and strings on the C heap, `GLOBAL_ERROR_PTR`, two hook pointers | `cJSON_Parse*`, `cJSON_Create*`, `cJSON_Add*`, `cJSON_Delete`, `cJSON_InitHooks`, getters, print, compare | heap, hooks, errors, compare modelled; getters not |
| Benchmarks, fuzzing, tests, build | `bin/`, `bench/`, `fuzz/`, `rJSON/tests`, ... | | | not modelled |

How they interact. The parser allocates in an arena and writes its links
directly while it parses. The facade parses into an arena of its own for each
call, copies the tree block by block into C structs (`arena_to_cjson`) and
drops the arena. Its building calls (`cJSON_Create*`, `cJSON_Add*`) work on
the C structs and never touch an arena. Print, compare and minify copy the
structs into a temporary arena, or read them, and leave nothing behind.
Nothing runs concurrently. What calls share is the arena, the C heap and
`GLOBAL_ERROR_PTR`.

What is hard, and what makes each part correct:

- *Arena.* Four links are rewritten per operation, on different paths for a
  first, middle, last and only child. Deletion is logical and follows `next`,
  so one stale link deletes siblings. References borrow lists. Correct means:
  lists read the same in both directions and never reach a dead node, each
  node hangs in one place, nothing is cyclic, and an operation on the links is
  the operation on the tree it names.
- *Duplicate.* It copies with a work list, follows borrowed lists and may give
  up half way. Correct means: the copy is the tree over again, a refusal has a
  reason and leaves nothing, and nothing else changes.
- *Parser.* Ten failure exits clean up by hand, recursion carries depth and
  offset, and the offset steps back. Correct means: exactly the grammar is
  accepted, the tree spells the text, and a failure leaves no node and no
  depth.
- *Literals.* `parse_string` passes over the bytes twice and the passes must
  agree; half-right escapes (`\u` with bad digits, half a surrogate pair) must
  end in a definite way. Correct means: a string ends at the first bare quote,
  decodes to what is written, fits its buffer; a number is the longest prefix
  that is one; what is printed is read back.
- *Readers.* Compare, print and minify must mean something: equality of what
  trees say, the text that was parsed, the same tokens.
- *C interface.* Any allocation may be refused, and the caller may change the
  allocator. Correct means: no block leaks, none is freed twice, by the wrong
  allocator or shared, a call returns the document it was asked for, and the
  target of a failed call is as before.

`PROJECT.json` lists the hazards, each at its line, with the properties that
would catch it.

## 2. Modules

| Module | What it is |
|---|---|
| `Arena` | every public operation of the tree part of `arena.rs`, for a caller that may pass any id |
| `ArenaTrees` | the same operations under cJSON's usage contract, and the invariants of the links |
| `Forest` | abstract specification: ordered trees with named nodes and no links |
| `ArenaForest` | the refinement mapping from links to `Forest`, and what indexes and keys mean |
| `ArenaDuplicate` | one call of `duplicate` on an arena that `ArenaTrees` has built |
| `ArenaTreesProofs`, `ForestProofs`, `DuplicateProofs`, `ParserProofs`, `ReadersProofs`, `FacadeProofs`, `LiteralsProofs` | the proofs |
| `NaturalLemmas` | what they share: a least natural number, induction over a set, definition step by step, and what `FlattenSeq` of pieces is |
| `Parser` | one top-level parse, extending `Arena`; the recursive calls are an explicit stack |
| `ParserGrammar` | the grammar written without a parser, what a tree spells, and the parser's properties |
| `Readers` | `compare`, `cJSON_Compare` and the printer, as functions on the trees `Parser` builds |
| `Scan` | what the byte scanners share: text, place, output |
| `StringLiteral` | `parse_string`, both passes, one step per turn of a loop |
| `Minify` | `minify`, likewise |
| `Literals` | one call of a scanner: a string and its way through `escape_json_bytes` and back, a number, or `minify`; the properties of the scanners |
| `Facade` | the C heap, the calls that build, link and free, the hooks, and `GLOBAL_ERROR_PTR` |
| `MCArena`, `MCArenaDuplicate`, `MCParser`, `MCLiterals`, `MCFacade` | the small instances TLC checks |

### Arena

The variables are the fields of `Arena` and `Node` that say where a node
hangs. The payload (type, string, number) is left out: none of these
operations branches on it. Each public function is one action with the same
guards in the same order. A refused call changes nothing, and is a stuttering
step, except where the code has written before it refuses: the key in
`ReplaceItemInObject`, the node allocated in `AddCreatedToObject`.

Loops over links are the least set closed under the links (`Walk`), the
recursion of `delete_chain` is such a set too (`Owned`), so the modules need
no `RECURSIVE` operator and can be proved about. `delete_chain` stops its
sibling loop at a deleted node; `Owned` stops there too. A walk that
never ends, and a panic, are steps that do not happen: the calls have no
return to model. `Owned` and `Nth` end on a cycle of links where the code would not;
only a caller outside the contract can make one (`NeverCyclic`).

`Arena!Spec` lets a caller pass anything. `ArenaTrees!TreeSpec` adds what
cJSON demands of callers and the code does not check: an item that is added,
or replaces another, is a tree in the caller's hands (`Held`) that does not
contain the parent, and only such a tree is deleted directly (`DECISIONS.md`,
section 6). References may be made of any live node and borrowed lists change
only through their owner.

`Forest` knows nothing of links. `ArenaForest` reads the children of each node
off the links (`Kids`) and states as `ForestSpec` that every step of the arena
is one step of the forest or leaves it alone. This is where an operation that
keeps the links tidy but moves the wrong node shows up.

### Duplicate

`pending` is the work list and `frame` the state of the loop over the children
of the entry popped last; each step is one turn of one of the two loops.
`Build` is any legal operation on the arena before the call. `copies` is
`duplicated_nodes`, as a set: its order matters to nothing. It is written where
the code pushes, at the root and at each child, and what `discard_nodes` goes by.
The properties do not: they speak of `Made`, all that was allocated since the call
began, so a node that is made and not put down shows. The copy is
compared with the source by a mapping from copies to nodes (`CopyIsFaithful`),
and the refusals by what lies within the depth limit (`RefusedForAReason`), a
definition that knows nothing of the work list. A source is not always a tree:
a reference may hang in the list it borrows.

### Parser

Texts are sequences of tokens: the structural bytes, blanks, a NUL, a byte
that starts nothing, a byte order mark, a scalar (literal or number), well
formed strings (the keys), and a string with an invalid escape. Offsets count
tokens. Two scalars are told apart, a number that overflows (`Huge`) and any
other. Each action is one stretch of `parse_value`, `parse_array` or
`parse_object` between two calls; `stack` holds the locals (`head`, `tail`,
the key parsed) of the calls under way. A failure unwinds one frame per step
(`Abandon`), each deleting its own list, as every error exit of the code does.
`Inputs` are handed over whole (`cjson_parse_with_length_opts`) or cut at the
first NUL (`cjson_parse_with_opts`, `cjson_parse`), with and without
`require_null_terminated`.

### Readers

The readers change nothing, so they are functions of the state in which a parse
has succeeded, and every tree `Parser` builds is an argument. `Compare` is
set against `Meaning`, what a tree says when the order of members is left
out; they agree as long as no object holds a key twice and no number overflowed.
`cJSON_Compare` works
on copies, in which no node is another, hence the parameter `copied`. What an
overflowed number does, at any depth, is a property of its own
(`OverflowDiffersFromItsCopy`): the arena's test for one and the same node hides it,
the copies do not.
`PrintValue` prints tokens; formatted printing adds blanks. Indices are depths
at which the code tests the limit, and a refusal anywhere refuses the whole.

### Literals

These modules work on bytes. `Literals!LiteralsInit` chooses one call. A text
comes with the pieces it was put together from, when their meaning is known:
what a string must decode to, or `minify` must keep, is then read off the
pieces, with no second scanner in the properties. What a piece may be, each by
itself, is said once (`SpellsString`, `SpellsSource`): a byte, an escape, a code
unit or a pair of them; a byte, a blank, a string or a comment. Two neighbours
may not read as a third piece. Other texts, all short ones
over the bytes that steer a scanner, check what holds without such knowledge.
`skipped` holds the backslashes that `skipped_bytes` counts. The second pass
is one action per kind of escape; `\u` and a surrogate pair are read as the
code reads them, bad digits as zero.

### Facade

A block is a struct or a string. A building call works through a document, a
record that says which strings and children a struct gets: `calls` is the
stack of structs under construction, one allocation per step, each from the
allocator `hooks` names, and each may be refused (`Refuse`); then every level frees
what it owns (`Unwind`). Parsing
(`arena_to_cjson`), `cJSON_Create*Array` and `cJSON_Add*ToObject` are the same
steps on documents of different shapes. `SelfAddSpec` is a caller that also passes the parent as the item; other callers
give away or delete only what they hold, and hang nothing under itself.

`hooks` has the two function pointers. `InitHooks` sets each on its own at any time
between calls, also under live trees, as `cjson_add.c` of the original tests does.
`from` remembers which allocator a block came from, so trees of several, and
trees that mix them, live side by side, and `Free` asks of each block whether the
function installed now is its allocator's; one that is not goes `astray`. The contract
leaves the caller two duties: to build only with functions that belong together
(`HooksMatch`), and to delete a tree only when the function installed takes its blocks
(`MayDelete`). What a failing call frees by itself is the code's business, and
`FreedByItsAllocator` says it never reaches for a block from before the call.

## 3. Runs

| Run | Instance | What it shows |
|---|---|---|
| `arena_any` | any caller, 2 nodes, key in two cases | no operation on any arguments stores a link out of bounds |
| `arena_forest` | contract, 4 nodes, no keys, references | links symmetric and live, one owner each, held trees stand alone, no cycles; every operation is a forest operation; an index is the position |
| `arena_keys` | contract, 3 nodes, key in two cases | the same with keys; a key means the first match in the mode of the call; an item created for an object hangs in it or is gone |
| `arena_duplicate` | contract, 3 nodes and the copies of one, depth limit 2 | a copy is faithful or refused for a reason; a refused one leaves nothing it allocated; nothing else changes; the call ends |
| `parse_texts` | 9982 texts, nesting limit 2 | grammar, tree, clean-up, offsets, termination; equal means saying the same; a tree differs from its copy by overflowed numbers alone; a print is the text parsed |
| `literals` | 35332 texts of up to 27 bytes | strings end and decode as written, fit their buffer and survive printing; numbers are the longest prefix; minify keeps the tokens |
| `facade_heap` | 5 blocks, 2 held trees, 7 documents, 2 allocators | nothing leaked, shared, freed twice or by the wrong allocator under any refusals, though the hooks change under live trees; what is built is what was asked for; siblings linked both ways |
| `arena_relink` | any caller, 3 nodes | *violated*: adding an attached item breaks the documented meaning of `prev` |
| `arena_dead_source` | any caller, 3 nodes | *violated*: references are made of deleted nodes, against `DECISIONS.md` section 7 |
| `facade_self_add` | 3 blocks | *violated*: the C interface accepts an array as its own item, against the original test suite |
| `facade_error_ptr` | 3 blocks, 2 texts | *violated*: `GLOBAL_ERROR_PTR` outlives the next successful parse |
| `compare_self` | 4 objects | *violated*: `cJSON_Compare` of an item with itself is false when it holds a key twice, unlike the original |

Every passing property has a mutant: a definition of the model changed as a
plausible bug would change the code, under which TLC finds the property
violated. They stand in front of the definitions they mutate, marked
`Mutant:`.

Bounds, and why they are enough.

- `MaxNodes`. Ids are never reused, so it bounds how many nodes a behaviour ever
  creates. Four nodes give a parent with three children (first, middle, last)
  or two levels with siblings; with a reference in place of a node, a borrowed
  list whose owner changes it. The link invariants are proved for every size.
  Keys multiply the states by twelve, so the run about keys has three nodes: an
  object with two members of equal or case-equal names, or one and a new item.
  The links at keyed operations are covered by the proofs.
- `BuildNodes`, `CircularLimit`. Three nodes and a limit of 2 (10000 in the
  code) give copies that are refused for depth and for deleted nodes, at the
  first child or after copies in several lists, and references that lead back
  into their own list. `MaxNodes` is 8 and never met: a call stuck for want of
  nodes would violate `CopyEnds`.
- `Inputs`. All texts of at most three tokens, three small documents with any
  two tokens replaced, five nested documents cut anywhere, with each token
  replaced, dropped, or any token put in, and pairs of objects of up to two
  members with equal, repeated and case-equal keys. The nesting limit of 2 is passed by a
  document and reached by siblings at the same depth. Seven nodes are more
  than any of these texts creates, so the bound is never met.
- `StringCalls`. Up to three of nine pieces, up to two of all 28, whose code
  points lie at both ends of each length of UTF-8 and of both halves of
  surrogate pairs; six bytes behind the opening quote drawn from quote,
  backslash, `u` and a digit; and `\u` followed by seven bytes of quote,
  backslash and a letter, in which the two passes disagree on what is escaped.
- `NumberCalls`. `-` or a digit, as `parse_value` calls it, and up to five of
  every sort of byte a number may hold and one that ends it: all prefixes
  of sign, digits, dot, mark, sign, digits, and all ways to break off.
- `MinifyCalls`. Three strings, comments, blanks and bytes in any order, the last
  perhaps unfinished: a comment between two strings, and a string between two
  comments. A slash is a byte like any other, unless it and the next open a
  comment.
- `MaxBlocks` bounds granted allocations; five hold two structs with all their
  strings, or a container in a container with a named string in it.
  With two allocators that is an object of one, alive while a call of the other adds
  a member with value and key to it and is refused at any block. `OneSwitch` and
  `RejectedFirst` thin out what tells nothing new: the allocators swapped back and
  forth under live blocks, and an error pointer beside every heap.
  `TwoTrees` keeps the caller to two trees at a time, enough to link one under the
  other while a third call builds.
- Deadlock is not checked: in the bounded models the arena or heap is used up
  at some point, and a parse or scan that has returned does nothing more.

Fairness is assumed twice, `WF_pvars(ParseNext)` and `WF_dvars(CopyNext)`: a
parse, and a copy, is one call on one thread, and a call that can take its next
step takes it. `ParseEnds` and `CopyEnds` say that then they return. No other
liveness is claimed; that the sibling walks and the recursive deletion of the
arena end is the safety property `Acyclic`.

## 4. What is proved

`ArenaTreesProofs`, first part (any caller, all sizes, all keys):

- `TypeCorrect`: `Spec => []TypeOK`. In the runs it is checked as a part of
  `DupTypeOK` and `ParserTypeOK`.
- `LinksStayInBounds`: `Spec => []LinksInBounds`. The induction needs both
  together: a walk stays in bounds because each link it follows does.

`ArenaTreesProofs`, second part (callers under the contract, all sizes, all keys):

- `LinksStayConsistent`, `OneOwnerAlways`, `RootsAlwaysStandAlone`,
  `NeverCyclic`: `TreeSpec` implies always `LinksConsistent`, `SingleOwner`,
  `RootsStandAlone`, `Acyclic`.

The four are not inductive one by one. Linking at the end of a list needs to
know that the end has no successor and that the item is not in it; unlinking
needs that the item's only pointers are its neighbours'; deletion needs that
nothing outside the deleted set points into it, which is ownership, and
ownership survives linking only because no cycle is closed. The inductive
invariant `TreeInv` is `BoundsInv` (type and bounds) and `Sound`, the four of
them as one predicate on a set of live nodes and three link functions. Stated
so, it can be followed through the intermediate links of an operation: every
operation is a composition of four edits, each with a lemma that it keeps the
links sound: one more blank node (`AllocSafe`), a node taken out of its list
(`UnlinkSafe`), a tree that nothing holds put between two neighbours
(`LinkSafe`), a tree that nothing holds deleted (`ClearSafe`). `TreeStep` has
one step per action and cites them. The lemmas about `Walk` and `Owned` say
what a least closed set gives without induction: it is inside every closed
set, so what a walk visits is placed by exhibiting a set that is closed.
Acyclicity is stated the same way, by a closed set that misses the node, which
is what lets the proofs do without induction on lengths.

`ForestProofs` (callers under the contract, all sizes, all keys):

- `LinksImplementForest`: `TreeSpec => ForestSpec`, the refinement. Each operation
  on the links does to the sequences of children what `Forest` says of it, or
  leaves all of them alone.
- `AnIndexIsThePosition`, `AKeyIsTheFirstMatch`, `ACreatedItemHangsOrIsGone`:
  `TreeSpec` implies `IndexIsPosition`, `KeyIsFirstMatch` and
  `CreatedHangsOrIsGone`. The refinement says that each step is some operation of the
  forest; these say that it is the one the call asked for.

The mapping reads a list off the links with a recursive function, and to prove
anything about it one has to know what it returns. `Spells` says, without
recursion, that a sequence is the list at a head: it starts there, each element
points at the next, the last at nothing. A list without a cycle spells one
sequence and no other, a recursive read that goes on until `None` finds it
(`KidsSpell`: were every read as long as there are nodes, two positions would
hold the same node, and the list a cycle), so for each edit of the links it is enough to
show the new sequence and that the new links spell it (`LinkSpelled`, `UnlinkSpelled`,
`ReplaceSpelled`, `ClearSpelled`). Where a fact holds at every position, the
proof looks at the least position at which it fails, which the library's
theorem on well-founded relations gives (`LeastNatural`). What
`delete_chain` visits is the subtree `Forest` deletes (`OwnedIsBelow`), two least
closed sets, one over links and one over sequences. The inductive invariant is
`TreeInv` and that a slot not yet used has no key. For keys and indices, what
has been walked over on the way to the `j`-th child is the first `j - 1`
(`ChildPlaces`).

`DuplicateProofs` (every arena, source, and limit):

- `DuplicateTypes`, `CopiesAreFaithful`, `RefusedCopyIsGone`: `DupSpec` implies
  always `DupTypeOK`, `CopyIsFaithful`, `NothingLeftOfARefusedCopy`.
- `RefusedExactlyForAReason`: `DupSpec => []RefusedForAReason`.
- `DuplicateTouchesNothingElse`: `DupSpec => OthersUntouched`, of every step.
- `CopyKeepsLinksConsistent`: `LinksConsistent` holds in the arena with the copy.

The inductive invariant `DupInv` has `TreeInv`, for the unfinished copy is a tree
like any other; what the work list and the loop say (`WorkInv`); that no link leads
between copies and the other nodes (`ApartInv`), which is why cleaning up
touches nothing else; and that there is a mapping from copies to nodes under which what is
finished is as in the source (`Faithful`): children are still missing where the
work list says, and the successor at the copy the loop linked last.
`RefusedForAReason` needs the depths besides, a second function on the copies
(`Levels`). From it, by induction on the depth, all that hangs at a depth below the
source has been copied when the call succeeds (`CopiedWithoutTrouble`), and
what the loop could not copy hangs where `AtDepth` finds it when the call gives
up, also after the copies are cleared (`GivesUpForAReason`).

What is discarded is what was put down, and what must be gone is what was allocated.
`BookInv` ties the two: while the call runs, the nodes from the root to the end of the
vector are all in `copies`, at every step, for nothing else allocates meanwhile; and
when the call is refused each of them is dead and blank. Without the push at either
place it is not kept.

`ParserProofs` (every text, nesting limit and number of nodes):

- `ParserTypes`, `OffsetStaysInText`, `ParserLinksInBounds`: types, depth, the
  place in the text, bounds.
- `NodesInOneHand`: every live node hangs below the node just returned, or in the
  list of exactly one call under way.
- `ParseLeavesNothing`: a parse that fails leaves no node and no depth.
- `ParserLinksConsistent`: also the lists that have no parent yet are linked both
  ways.
- `ParseEndsWellFormed`: a finished parse leaves `TreeInv`, so the theorems
  about the operations hold for what is done with the tree.
- `ParsesTheGrammar`: `ParseSpec => []AcceptsTheGrammar`.

While a container is parsed its elements hang together and nowhere else, which
`RootsStandAlone` forbids for good reason between operations. `ParserInv` says
instead that the live nodes are parted into the trees that hang, siblings
included, from the hands: the node on its way up and the head of each call's list
(`Grown`), that each list ends at the call's `tail` and that no two calls hold
the same. Three edits do all the work: a new node is a hand of its own
(`GrowSafe`), two hands become one (`JoinSafe`, for an element linked behind the
tail and for the list hung in its container), and a hand is dropped with its
tree (`DropSafe`, every error exit).

`AcceptsTheGrammar` compares the parser with a grammar that knows no left to right:
spans of the text, and lists cut at any of its commas. The parser decides early and
never comes back, so it has to be shown that no other reading is left. Three lemmas
about the grammar alone do that: a list is one part, or a part, a comma and a list
(`ListSplits`), whatever its cuts; a value begins with its own first token and with no
blank (`GradedBegins`); and a value ends at one place, so a container whose first part
has ended goes on, ends, or is none, by the next token that is no blank (`ListGoesOn`).

`GrammarInv` then says what a half-read text has settled. There are `U`, the spans
that are values by number of nested containers, and for the open calls `O`, where
each container began, `P`, where the part it is in began, and `C`, what it is. For
each call (`Lists`), a span from `O` on is a value exactly when what is left from `P` to
a closing bracket is a list; and for all but the innermost (`Expects`), that part is one
exactly when the value begun in it ends there. `Knows` adds what the innermost call has
found out at its place in the code: where its value ends, that it has none, or that it
has not looked yet. So failure is an outcome like another: a call that fails has
shown that nothing beginning at its `O` is a value (`Dead`), and the call above it
concludes the same of its own (`NoPartFails`). With no call open, `Knows` is what the
property says (`GrammarMeans`). As before, the four are witnessed anew at each step and
none is a variable; that the grammar's own recursion over the nesting limit is `U` is
shown by an induction over a set of numbers (`ValuesAre`).

`ReadersProofs` (every text, nesting limit, number of nodes and set of keys):

- `ComparesByMeaning`: `ParseSpec => []CompareIsMeaning`.
- `ComparesBothWays`: `ParseSpec => []CompareIsSymmetric`. It has no run of its own:
  where names are not repeated `CompareIsMeaning` speaks of both orders already.
- `DiffersOnlyByOverflow`: `ParseSpec => []OverflowDiffersFromItsCopy`.
- `TreesSpellTheText`: `ParseSpec => []TreeSpellsTheText`.
- `ParsedTextsAreReprinted`: `ParseSpec => []PrintsWhatItParsed`.

`NodesInv` is what the parser puts into nodes, inductive next to `ParserInv`: every
live node holds something, only containers have children, and in the list of an
object, finished or under construction, every node has a key. `compare_nodes` and
`Meaning` call themselves on children, so before anything can be said of them it has to be
shown that such a function exists: what a node is to them depends on its
children (`MatchIsLocal`, `ToldIsLocal`), which have fewer nodes below them than it has
(`HeightFalls`), and the functions that are right up to a height form a set that an
induction over `Nat` can speak of (`SameExists`, `SaysExists`). Symmetry and
meaning then go up the same way. The heart of the second is `MembersMean`: where no key is
repeated, a lookup by key finds the one member that has it, so one object's members
all have their match exactly when it says no more than the other. That a tree which
matches its copy holds no overflowed number needs no height: the nodes that match
themselves have only children that do (`KidsMatchThemselves`), and so are all that the
root reaches (`ReachedFromRoot`).

That a finished tree spells the text is tied to what is half read by `SpellInv`, the
fourth part of the inductive invariant. While nothing has gone wrong, there are `T`,
the text without blanks up to each offset, `W` and `P`, the text of each node and of
its list up to it, `H`, where its list begins, and `A`, the text in front of the element
each call is at. What has been read, `T[offset]`, is then the text in front of the
innermost call's element and what of it there is (`Reached`): nothing yet, the node on
its way up, or the container as far as it is linked. All five are witnessed anew at each
step (`ReturnsListed` for a new node, `LinkListed` for one linked behind the tail); none
is kept in a variable, so that the model stays the code's. When the parse is over no
call is left, and the text is that of the node returned. `Spelling` then is `W`, by
the same induction over heights (`NodeSpelt`, `SpellingIs`).

Printing needs one fact more, that the printer never meets its limit. `LevelInv`, the
fifth part, says there is a number for each node, how many containers may still be open
at it and below: a container has one at least, its children have one less, and the node
on its way up has what the open calls leave of the limit. `NodePrinted` then takes one
node: if the prints of its children are their texts, so is its own. The two differ in
where they put the comma, behind an item or in front of the next (`ItemsPrinted`), in an
overflowed number (`Shown`) and in what formatting adds (`Wash`).

`FacadeProofs` (every number of blocks, allocators, documents, texts):

- `NothingLeaks`: `HeapSpec => []NothingLeakedOrShared`, whichever allocation is
  refused.
- `BlocksGoBackWhereTheyCameFrom`, `SiblingsStayLinked`, `HeapTypes`:
  `FreedByItsAllocator`, `SiblingsLinkedBothWays`, `HeapTypeOK`.
- `BuildsDocuments`: `HeapSpec => []BuildsTheDocument`.

What `cJSON_Delete` frees is what is reached by pointers. `HeapInv` gives each
block one owner among the roots (the held trees and the structs and strings under construction)
such that pointers stay with the owner and each block but the root is pointed at
once (`Trees`, `Once`, `OwnersInv`); then what is reached from a root is
what it owns (`OwnedIsTree`). The owner is witnessed anew at each step: a new
block owns itself (`GrowSafe`), a root hung in a pointer takes the owner of the
block with the pointer (`HangSafe`), a freed root takes its blocks with it (`DropSafe`). `CallsInv`
and `KeysInv` tie the stack of calls to the blocks: which struct a call has, which pointers of
it are null still, and that the item being keyed is nobody's child.

For `FreedByItsAllocator` the invariant says of every block that it belongs to what the
caller holds or is of the allocator whose free function is installed, and that while a call
builds the two functions match, so that this is where its blocks come from. The hooks
change only when no call is under way; then everything belongs to what is held, and the
new functions need to fit nothing. A refused call frees the block it has built and what
that block owns, and it owns nothing that was held. With the target freed instead, or a
string taken from another allocator, the step fails.

`BuildsTheDocument` reads back what was built with a function that recurs over the
pointers, and what is half built spells nothing yet. `BuildInv` therefore labels
each struct that a call has linked with what is *to be* spelled from it on, to the
end of its list (`LinkedInv`): its first document has the strings the struct has, its
children's label is the list of its children, its successor's label is what is left. Only the
last child of a struct under construction still waits for a successor, and what is left
there is what `done` says (`FrameSays`); a frame builds the child its parent is at
(`Nested`). Addresses are not reused, so a struct is younger than its parent and
its elder siblings: below a completed struct the pointers cannot lead in a circle, the
recursion has one solution, and that is the labels (`FinishedSpells`). A
refused call needs no labels, for it builds nothing any more.

`LiteralsProofs` (every text, and every sequence of pieces):

- `LiteralsTypesCorrect`: `LiteralsSpec => []LiteralsTypeOK`.
- `OutputAlwaysFits`, `BuffersAreLargeEnough`: what the second pass has written
  never exceeds what the first pass measured (`OutputFits`), for `StringSpec` and
  for every call of a scanner.
- `StringsEndAtTheQuote`: `EndsAtTheFirstBareQuote`.
- `NumbersAreLongest`: `NumberIsLongestPrefix`.
- `PiecesAreDecoded`: `DecodesWhatIsWritten`, strings of any length.
- `PrintsComeBack`: `EscapedComesBack`, for any bytes a string may hold.
- `NeverWritesAhead`, `TokensAreKept`: `minify` has never written more than it has
  read, and `MinifyKeepsTheTokens`. `cJSON_Minify` writes the result over its
  input and has no other reason why it fits.

*The buffer.* The two passes need not agree on what is escaped. The first takes the byte
behind a backslash for escaped and goes on two bytes further; the second goes on
as many as the escape is long, six or twelve for `\u`, and may land between a
backslash and the byte it escapes. So it cannot be said that the second pass
meets the backslashes the first counted, only that they are far enough apart
(`Spaced`): no two neighbouring bytes are both counted (`TwoBytes`), so at most
three of six (`SixBytes`). `StringInv` says that the bytes
written, and one for each backslash counted so far, are paid for by the bytes
read (`Paid`). Each turn of the second loop keeps the account: a byte copied reads
one and meets no counted backslash, a short escape reads two, writes one and meets
one, `\u` reads six, writes at most three and meets three, a pair reads twelve
and writes four. At the end the account is what `OutputFits` says.

*The end of a string.* Where the first pass stands, an even number of backslashes
comes before (`EvenBefore`), and no bare quote was passed (`QuoteInv`); the two
bytes of an escape keep the number even.

*Numbers.* `NumberEnds` collects what the grammar allows from every start at
once; `StrtodPrefixLen` goes forward and never back. `RunEnd` is the end of the
longest run, so each stage of the scanner reaches the greatest member of the set
the grammar has for that stage, and cutting the text at the first byte that no
number holds loses none of them.

*Strings of pieces.* `StringOf` places each piece in the text. The first pass is
at the start of a piece or among the digits of a `\u`, which it takes for
bytes, and so cannot end before the last piece does; the second is only
ever at the start of a piece, with the meanings of all before it in `output`
(`Reads`). A piece that fails stops it there. The print of a string is such a
string too, of one piece per byte (`PrintPieces`), each of which means its byte: what
comes back after printing is a case of what is decoded.

*Minify.* The scanner is at the start of a piece with the meanings of all before
it in `output`, or within a string or comment that it has not passed the first
end of (`Midway`), or done (`ReadsSource`).

The inductive invariant `LiteralsInv` is the type, and these by phase: `StringInv`
and `QuoteInv` for `parse_string`, `MinifyInv` for `minify`, `MadeInv` for texts with
pieces, `PrintInv` for a print. `FlattenSeq` is defined by recursion on the length; that its
result is one piece behind the other, and has all their bytes, is shown at the
least length for which it would not be (`NaturalLemmas`).

What is assumed of the constants, and TLC evaluates in the runs: the number of
nodes or blocks and the limits are natural numbers, lower-casing maps keys to
keys, the documents are records whose children are documents again (`DocsAssumption`), `None` is neither an id nor a key, a string is no other token
(`KeysAssumption`), `Null` neither a block nor a text, libc one of the allocators, and
the inputs of the parser are finite sequences of tokens. The texts of the
scanners are finite sequences of bytes (`CallsAssumption`); those that come with pieces are
made of them (`StringPiecesAssumption`, `SourcePiecesAssumption`), the others
may be any bytes. None of the bounds of the runs is assumed, nor the
constraints `TwoTrees`, `OneSwitch` and `RejectedFirst`.

Only model-checked:

- `ParseEnds` and `CopyEnds`: liveness under fairness, which this prover does not
  reach.

## 5. Disagreements found

1. `facade.rs:388`: an item can be added to itself through the C interface;
   `misc_tests.c:631` and `:634` of the original suite assert it must fail.
2. `facade.rs:328`: the comment at `facade.rs:75` calls `GLOBAL_ERROR_PTR` null
   or valid until the next parse call, but a successful parse leaves it.
3. `arena.rs:494`: references are created of deleted nodes, against the
   validation policy of `DECISIONS.md` section 7.
4. `facade.rs:785`: `cJSON_Compare` compares copies, so an item with a duplicate
   key, or a number that overflowed, is unequal to itself; `README.md:145` calls
   its semantics the original's, which first asks whether the two are identical.
5. `arena.rs:524`: re-adding an attached item gives a list in which `prev` is
   not the predecessor, against `DECISIONS.md` section 4.

## 6. Not modelled, and why

- Payload of nodes in `Arena`: types, strings, numbers. None of its operations
  branches on them; `Parser` and `Readers` keep the node kinds in `kind`.
- Numbers as values: parsing (`strtod`, `clamped_int_value`), printing
  (`%1.15g`, `%1.17g`) and the tolerance of `compare_numbers` are arithmetic on
  64-bit floats, out of TLC's reach. How far a number reads, and what an
  overflow does to compare and print, are modelled.
- `return_parse_end`, `print_buffered` and `print_preallocated`: a result modelled
  here, measured once more.
- The getters of the C interface (`cJSON_GetObjectItemCaseSensitive`,
  `cJSON_IsString`, `cJSON_IsNumber`): one test or one forward walk each, on lists whose shape `SiblingsLinkedBothWays` states.
- `cjson_to_arena` as a loop: `Readers` takes the copy it makes to be a
  copy. Strings of C end at a NUL, so a NUL decoded from `\u0000` cuts a string
  on its way to C; `BuildsTheDocument` says that a string is there, not
  which bytes.
- Benchmarks, fuzz targets, tests and build scripts: they keep no state of the
  program. They were read for what they assert.
- Stack exhaustion in recursive code: nesting is limited by the code for
  parsing and printing; deletion and comparison rely on it.

## 7. Plan

Done: every module and run of the plan, and the proofs of section 4. Every safety
and action property of the passing runs is stated by a theorem; the two liveness
properties remain with TLC.
