------------------------------ MODULE Readers ------------------------------
(***************************************************************************)
(* The operations that read a tree and change nothing, on the trees the    *)
(* parser builds: compare and the printer of rJSON/src/arena.rs, and       *)
(* cJSON_Compare of facade.rs, which compares copies.  A parsed tree holds *)
(* no references, so the children a reader visits are those it owns.       *)
(***************************************************************************)
EXTENDS ParserGrammar

-----------------------------------------------------------------------------
(* compare. *)

NodeType(n) == CASE kind[n] \in Scalars -> "number"
                 [] kind[n] \in Keys    -> "string"
                 [] OTHER -> kind[n]

\* Mutant: equal numbers match before their difference is taken.
EqualNumbersMatch(a, b) == TRUE

\* compare_numbers: the difference of two infinities is no number, and nothing
\* exceeds the tolerance an infinity grants a finite number.
NumbersMatch(a, b) == ~(kind[a] = Huge /\ kind[b] = Huge)

\* object_members_match: every member has its match, the first of its key, in
\* the other object.
MembersMatch(same, source, target, caseSensitive) ==
  \A i \in 1 .. Len(Kids(source)) :
    \E match \in FindObjectChild(key, target, key[Kids(source)[i]], caseSensitive) :
      same[<<Kids(source)[i], match>>]

\* Mutant: the members of the second object need no match.
ObjectsMatchOneWay(same, a, b, caseSensitive) ==
  MembersMatch(same, a, b, caseSensitive)

ObjectsMatch(same, a, b, caseSensitive) ==
  /\ MembersMatch(same, a, b, caseSensitive)
  /\ MembersMatch(same, b, a, caseSensitive)

ArraysMatch(same, a, b) ==
  /\ Len(Kids(a)) = Len(Kids(b))
  /\ \A i \in 1 .. Len(Kids(a)) : same[<<Kids(a)[i], Kids(b)[i]>>]

\* compare_nodes, in terms of the nodes below.  A node equals itself unread; two
\* copies of it are two nodes.
NodesMatch(same, a, b, caseSensitive, copied) ==
  /\ NodeType(a) = NodeType(b)
  /\ \/ a = b /\ ~copied
     \/ NodeType(a) = "number" /\ NumbersMatch(a, b)
     \/ NodeType(a) = "string" /\ kind[a] = kind[b]
     \/ NodeType(a) = "array"  /\ ArraysMatch(same, a, b)
     \/ NodeType(a) = "object" /\ ObjectsMatch(same, a, b, caseSensitive)

CompareNodes(a, b, caseSensitive, copied) ==
  LET same[pair \in NodeIds \X NodeIds] ==
        NodesMatch(same, pair[1], pair[2], caseSensitive, copied)
  IN  same[<<a, b>>]

\* Arena::compare
Compare(a, b, caseSensitive) ==
  a \in Live /\ b \in Live /\ CompareNodes(a, b, caseSensitive, FALSE)

\* cJSON_Compare copies both trees into one arena, so no node meets itself.
CJSONCompare(a, b, caseSensitive) == CompareNodes(a, b, caseSensitive, TRUE)

-----------------------------------------------------------------------------
(* print_value: the text as a sequence of tokens, or nothing.               *)

Nothing == <<>>

\* print_number has no spelling for an infinity but null.
PrintScalar(n) == IF kind[n] = Huge THEN <<Scalar>> ELSE <<kind[n]>>

\* Mutant: the limit is met one container early.
PrintsDeeperEarly(level) == level + 1 < NestingLimit

PrintsDeeper(level) == level < NestingLimit

Tabs(n) == [i \in 1 .. n |-> Blank]

\* What stands before, between and behind the values of a container.
PrintItem(n, i, value, pretty, level) ==
  LET last == i = Len(Kids(n))
      name == <<key[Kids(n)[i]], ":">>
  IN  IF kind[n] = "array"
        THEN value \o (IF last THEN <<>> ELSE IF pretty THEN <<",", Blank>> ELSE <<",">>)
      ELSE IF ~pretty THEN name \o value \o (IF last THEN <<>> ELSE <<",">>)
      ELSE Tabs(level + 1) \o name \o <<Blank>> \o value
             \o (IF last THEN <<Blank>> ELSE <<",", Blank>>)

\* print_value_at, in terms of the nodes below.
PrintNode(print, n, level, pretty) ==
  LET value(i) == print[<<Kids(n)[i], level + 1>>]
      items == FlattenSeq([i \in 1 .. Len(Kids(n)) |-> PrintItem(n, i, value(i), pretty, level)])
  IN  IF n \notin Live THEN Nothing
      ELSE IF kind[n] \notin {"array", "object"} THEN PrintScalar(n)
      ELSE IF ~PrintsDeeper(level) \/ \E i \in 1 .. Len(Kids(n)) : value(i) = Nothing
        THEN Nothing
      ELSE IF kind[n] = "array" THEN <<"[">> \o items \o <<"]">>
      ELSE IF pretty THEN <<"{", Blank>> \o items \o Tabs(level) \o <<"}">>
      ELSE <<"{">> \o items \o <<"}">>

PrintValue(root, pretty) ==
  LET print[at \in NodeIds \X Nat] == PrintNode(print, at[1], at[2], pretty)
  IN  print[<<root, 0>>]

-----------------------------------------------------------------------------
(* Properties. *)

\* What a tree says, the order of the members left out.
Told(says, n, caseSensitive) ==
  LET kids == Kids(n)
      Name(k) == IF caseSensitive THEN key[k] ELSE Lower[key[k]]
      Says(items, members) == [kind |-> kind[n], items |-> items, members |-> members]
  IN  IF kind[n] = "object"
        THEN Says(<<>>, {<<Name(kids[i]), says[kids[i]]>> : i \in DOMAIN kids})
        ELSE Says([i \in DOMAIN kids |-> says[kids[i]]], {})

Meaning(caseSensitive) ==
  LET says[n \in NodeIds] == Told(says, n, caseSensitive) IN says

\* No object below n names two members alike.
OwnNames(n, caseSensitive) ==
  \A p \in Owned(next, child, n) : \A i, j \in 1 .. Len(Kids(p)) :
    kind[p] = "object" /\ i # j =>
      ~KeyMatches(key[Kids(p)[i]], key[Kids(p)[j]], caseSensitive)

\* No number below n overflowed.
Finite(n) == \A p \in Owned(next, child, n) : kind[p] # Huge

Plain(n, caseSensitive) == OwnNames(n, caseSensitive) /\ Finite(n)

\* Two trees compare equal exactly when they say the same, the order of members
\* aside, in either case mode and with or without the detour over copies -- as
\* long as no object holds a key twice and no number overflowed.
CompareIsMeaning ==
  pc = "accepted" =>
    \A caseSensitive \in BOOLEAN :
      LET plain == {n \in Live : Plain(n, caseSensitive)}
          says  == Meaning(caseSensitive)
      IN  \A a, b \in plain :
            LET equal == says[a] = says[b]
            IN  /\ Compare(a, b, caseSensitive) = equal
                /\ CJSONCompare(a, b, caseSensitive) = equal

\* Arena::compare finds every tree equal to itself, for it is the same node.  On
\* copies that help is gone: a tree, though its members have names of their own,
\* differs from its copy exactly when a number in it overflowed, however deep.
OverflowDiffersFromItsCopy ==
  pc = "accepted" =>
    \A caseSensitive \in BOOLEAN :
      /\ Compare(ret, ret, caseSensitive)
      /\ OwnNames(ret, caseSensitive) => (CJSONCompare(ret, ret, caseSensitive) <=> Finite(ret))

\* Which of two trees is named first makes no difference, whatever keys they
\* repeat: a member that hides another hides it in both directions.
CompareIsSymmetric ==
  pc = "accepted" =>
    \A a, b \in Live, caseSensitive \in BOOLEAN :
      Compare(a, b, caseSensitive) = Compare(b, a, caseSensitive)

\* Every tree that parsing built can be printed -- the printer allows the nesting
\* the parser allows -- and the print is the text that was parsed, but for blanks
\* and for numbers that overflowed; formatted, it differs only in blanks.
PrintsWhatItParsed ==
  pc = "accepted" =>
    LET consumed == NoBlanks(SubSeq(input, AfterBOM + 1, offset))
    IN  /\ PrintValue(ret, FALSE) =
             [i \in 1 .. Len(consumed) |-> IF consumed[i] = Huge THEN Scalar ELSE consumed[i]]
        /\ NoBlanks(PrintValue(ret, TRUE)) = PrintValue(ret, FALSE)

\* An item is equal to itself, as the original cJSON has it ("identical objects
\* are equal") and the arena does.
ItemEqualsItself ==
  pc = "accepted" => \A caseSensitive \in BOOLEAN : CJSONCompare(ret, ret, caseSensitive)
=============================================================================
