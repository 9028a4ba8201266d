------------------------------ MODULE MCParser ------------------------------
(***************************************************************************)
(* Texts for the parser: all short ones, small documents with any two      *)
(* tokens replaced, longer documents with every single edit, and pairs of  *)
(* objects to compare.  The keys are one key in two cases.                 *)
(***************************************************************************)
EXTENDS Readers

MCKeys == {"k", "K"}
MCLower == [k \in MCKeys |-> "k"]

\* Every text of at most three tokens.
ShortTexts == UNION {[1 .. l -> Tokens \ {Huge}] : l \in 0 .. 3}

SmallDocuments == {
  <<"[", Scalar, ",", Scalar, "]">>, <<"{", "k", ":", Scalar, "}">>, <<"[", "[", "]", "]">> }

Documents == {
  <<"[", Scalar, ",", Blank, "[", "k", "]", "]">>,
  <<"{", "k", ":", "[", Scalar, ",", "k", "]", ",", "K", ":", Scalar, "}">>,
  <<"[", "{", "k", Blank, ":", "[", "]", "}", ",", Scalar, Blank, "]">>,
  <<BOM, Blank, "[", "[", "]", ",", "{", "}", "]", Blank>>,
  <<"[", "[", "[", "]", "]", ",", Scalar, "]">> }

\* A document, cut short, or with one token replaced, dropped or put in.
Edits(doc) ==
  {SubSeq(doc, 1, l) : l \in 0 .. Len(doc)} \cup
  {[doc EXCEPT ![i] = t] : i \in 1 .. Len(doc), t \in Tokens} \cup
  {RemoveAt(doc, i) : i \in 1 .. Len(doc)} \cup
  {InsertAt(doc, i, t) : i \in 1 .. Len(doc), t \in Tokens}

TwoReplaced(doc) ==
  {[doc EXCEPT ![i] = s, ![j] = t] : i, j \in 1 .. Len(doc), s, t \in Tokens}

\* Two objects of up to two members, with equal, differing and repeated keys.
Members == {<<name, ":", value>> : name \in MCKeys, value \in {Scalar, "k"}}
ObjectOf(first, second) == <<"{">> \o first \o <<",">> \o second \o <<"}">>
Objects == {<<"{", "}">>} \cup {<<"{">> \o only \o <<"}">> : only \in Members}
           \cup {ObjectOf(first, second) : first, second \in Members}
ObjectPairs == {<<"[">> \o a \o <<",">> \o b \o <<"]">> :
                  a \in Objects, b \in {o \in Objects : o[2] # "K"}}

Texts ==
  ShortTexts \cup UNION {TwoReplaced(doc) : doc \in SmallDocuments}
             \cup UNION {Edits(doc) : doc \in Documents} \cup ObjectPairs

\* An object that holds one key twice.
KeyTwice == {ObjectOf(first, second) : first, second \in {m \in Members : m[1] = "k"}}
=============================================================================
