--------------------------- MODULE ParserGrammar ---------------------------
(***************************************************************************)
(* What the parser promises: a grammar written down without a parser, the  *)
(* text a finished tree spells, and what is left in the arena when the     *)
(* call is over.                                                           *)
(***************************************************************************)
EXTENDS Parser, ArenaForest

-----------------------------------------------------------------------------
(* The grammar.  A span is a pair <<from, to>> of offsets, `to' excluded.   *)

BlankSpan(from, to) == \A i \in from .. to - 1 : IsBlank(i)

\* A value, or a key, a colon and a value, with blanks around each.
Element(values, from, to) ==
  \E v \in values : /\ from <= v[1] /\ v[2] <= to
                    /\ BlankSpan(from, v[1]) /\ BlankSpan(v[2], to)
Member(values, from, to) ==
  \E name, colon \in from .. to - 1 :
    /\ name < colon /\ ReadsString(name) /\ Reads(colon, ":")
    /\ BlankSpan(from, name) /\ BlankSpan(name + 1, colon)
    /\ Element(values, colon + 1, to)
Part(container, values, from, to) ==
  IF container = "array" THEN Element(values, from, to) ELSE Member(values, from, to)

\* The text from..to, cut at some of its commas, is a list of elements or of members.
ListOf(container, values, from, to) ==
  \E cuts \in SUBSET {c \in from .. to - 1 : Reads(c, ",")} :
    \A c \in cuts \cup {from - 1} :
      \E d \in cuts \cup {to} :
        /\ d > c /\ \A other \in cuts : other <= c \/ other >= d
        /\ Part(container, values, c + 1, d)

Opening(container) == IF container = "array" THEN "[" ELSE "{"
Wrapped(container, values, s) ==
  /\ Reads(s[1], Opening(container)) /\ Reads(s[2] - 1, Closing(container)) /\ s[2] - 1 > s[1]
  /\ BlankSpan(s[1] + 1, s[2] - 1) \/ ListOf(container, values, s[1] + 1, s[2] - 1)

Spans == {s \in (0 .. Len(input)) \X (0 .. Len(input)) : s[1] < s[2]}
Simple == {s \in Spans : s[2] = s[1] + 1 /\ (ReadsScalar(s[1]) \/ ReadsString(s[1]))}
Compound(values) == {s \in Spans : \E container \in {"array", "object"} : Wrapped(container, values, s)}

\* The spans that are values of at most a given number of nested containers.
Values ==
  LET upto[d \in Nat] == IF d = 0 THEN Simple ELSE Simple \cup Compound(upto[d - 1])
  IN  upto[NestingLimit]

\* The value the text begins with.
Leading == {s \in Values : s[1] >= AfterBOM /\ BlankSpan(AfterBOM, s[1])}

\* A text is accepted exactly when it begins with a value (and, when the caller
\* asks for it, has nothing but blanks behind), and the reported end is its end.
AcceptsTheGrammar ==
  pc \in {"accepted", "rejected"} =>
    IF \E s \in Leading : requireEnd => BlankSpan(s[2], Len(input))
      THEN /\ pc = "accepted"
           /\ \A s \in Leading : offset = IF requireEnd THEN Len(input) ELSE s[2]
      ELSE pc = "rejected"

-----------------------------------------------------------------------------
(* The tree. *)

\* A text without its blanks.
NoBlanks(tokens) ==
  FlattenSeq([i \in 1 .. Len(tokens) |->
                IF tokens[i] \in {Blank, Nul} THEN <<>> ELSE <<tokens[i]>>])

\* The text of the i-th child of n, and of n itself, when spell has the texts of the
\* nodes below.
Item(spell, n, i) ==
  LET kid == Kids(n)[i]
  IN  (IF i = 1 THEN <<>> ELSE <<",">>)
        \o (IF kind[n] = "object" THEN <<key[kid], ":">> ELSE <<>>) \o spell[kid]
Spell(spell, n) ==
  LET items == FlattenSeq([i \in 1 .. Len(Kids(n)) |-> Item(spell, n, i)])
  IN  CASE kind[n] = "array"  -> <<"[">> \o items \o <<"]">>
        [] kind[n] = "object" -> <<"{">> \o items \o <<"}">>
        [] OTHER -> <<kind[n]>>

\* The text of the value at each node, without blanks.
Spelling == LET spell[n \in NodeIds] == Spell(spell, n) IN spell

\* Read back, the tree is the text that was consumed: every element under its own
\* container, in order, duplicates of a key included, every key with its value.
TreeSpellsTheText ==
  pc = "accepted" => Spelling[ret] = NoBlanks(SubSeq(input, AfterBOM + 1, offset))

-----------------------------------------------------------------------------
(* What is left in the arena. *)

\* While the parser works, every live node is in exactly one of its hands: below
\* the node just returned, or in the list of one call under way.
Hands ==
  (IF ret = None THEN {} ELSE {ret}) \cup
  {stack[i].head : i \in {j \in DOMAIN stack : stack[j].head # None}}

EveryNodeInOneHand ==
  /\ \A n \in Live : \E h \in Hands : n \in Owned(next, child, h)
  /\ \A g, h \in Hands : g # h => Owned(next, child, g) \cap Owned(next, child, h) = {}

\* A call that fails leaves nothing behind: no live node and no depth, wherever
\* in the text it failed.  A call that succeeds leaves one tree and no depth.
NothingLeftBehind ==
  /\ pc = "rejected" => Live = {} /\ depth = 0
  /\ pc = "accepted" => depth = 0 /\ {n \in Live : Held(n)} = {ret}

\* The offset never leaves the text, so the last branches of error_offset are
\* dead code, as its comment says; the step back never passes the start.
OffsetInText == offset \in 0 .. Len(input)

\* Every parse comes to an end.
ParseEnds == <>(pc \in {"accepted", "rejected"})
=============================================================================
