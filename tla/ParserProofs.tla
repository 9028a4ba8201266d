----------------------------- MODULE ParserProofs -----------------------------
(***************************************************************************)
(* For every text, every nesting limit and every number of nodes: the      *)
(* parser keeps its types and its place in the text, every node it makes   *)
(* is in exactly one of its hands until it returns, and what it returns is *)
(* one tree on which the operations of ArenaTrees may go on.  The second   *)
(* part: it accepts exactly the texts of the grammar.                      *)
(***************************************************************************)
EXTENDS ParserGrammar, ArenaTreesProofs, SequenceTheorems

-----------------------------------------------------------------------------
(* The inductive invariant. *)

\* Where the call stands decides whether a node is on its way up and whether a
\* container is open.
PlaceInv ==
  /\ ret # None <=> pc \in {"return", "accepted"}
  /\ pc \in {"start", "accepted", "rejected"} => stack = <<>>
  /\ pc \in {"loop", "linked"} => stack # <<>>

TextInv == ParserTypeOK /\ BoundsInv /\ PlaceInv /\ OffsetInText

\* The parser makes no references.
NoRefs == [n \in NodeIds |-> FALSE]

\* What hangs from h: the least set that holds h and is closed under the links.
Tree(nx, ch, h) ==
  {n \in NodeIds : \A S \in SUBSET NodeIds :
     h \in S /\ (\A m \in S : Into(NoRefs, nx, ch, m, S)) => n \in S}

\* Trees without common nodes that hang from the nodes in H, and nothing else.
\* Their roots may have siblings, other than in Sound: the elements linked so far
\* of a container that is not there yet.
Grown(L, nx, pv, ch, H) ==
  /\ Typed(L, NoRefs, nx, pv, ch)
  /\ Consistent(L, NoRefs, nx, pv, ch)
  /\ OneOwner(L, NoRefs, pv, ch)
  /\ NoLoop(L, NoRefs, nx, ch)
  /\ H \subseteq L
  /\ \A h \in H : Unheld(L, NoRefs, nx, ch, h)
  /\ \A g, h \in H : g # h => Tree(nx, ch, g) \cap Tree(nx, ch, h) = {}
  /\ \A n \in L : \E h \in H : n \in Tree(nx, ch, h)

\* The list a call has linked so far ends at its tail.
FrameInv(frame) ==
  /\ frame.head = None <=> frame.tail = None
  /\ frame.head # None => /\ frame.tail \in Tree(next, child, frame.head)
                          /\ next[frame.tail] = None

\* No two hands hold the same list.
HandsApart ==
  /\ \A i, j \in DOMAIN stack : i # j /\ stack[i].head # None => stack[i].head # stack[j].head
  /\ \A i \in DOMAIN stack : ret # None => stack[i].head # ret

HandInv ==
  /\ isRef = NoRefs
  /\ Grown(Live, next, prev, child, Hands)
  /\ \A i \in DOMAIN stack : FrameInv(stack[i])
  /\ HandsApart
  /\ ret # None => next[ret] = None

ParserInv == TextInv /\ HandInv

-----------------------------------------------------------------------------
(* The text. *)

\* Everything that moves over blanks stays in the text.
LEMMA BlanksInText ==
  ASSUME NEW o \in Int, NEW e \in AfterBlanks(o), input \in Seq(Tokens)
  PROVE  e \in Int /\ o <= e /\ e <= Len(input)
BY DEF AfterBlanks

LEMMA ReadsInText ==
  ASSUME NEW o \in Int, input \in Seq(Tokens)
  PROVE  /\ \A t : Reads(o, t) => o < Len(input)
         /\ ReadsString(o) => o < Len(input) /\ input[o + 1] \in Keys
         /\ ReadsScalar(o) => o < Len(input) /\ input[o + 1] \in Scalars
BY DEF Reads, ReadsString, ReadsScalar

\* What cjson_parse cuts off at a NUL is still a text.
LEMMA TruncatedIsText ==
  ASSUME NEW raw \in Seq(Tokens)
  PROVE  Truncated(raw) \in Seq(Tokens)
<1> DEFINE nuls == {i \in 1 .. Len(raw) : raw[i] = Nul}
<1>1. CASE nuls = {}
  <2>1. UpToNul(raw) = 0
    BY <1>1 DEF UpToNul, SelectInSeq
  <2> QED BY <2>1 DEF Truncated
<1>2. CASE nuls # {}
  <2>1. UpToNul(raw) = Min(nuls)
    BY <1>2 DEF UpToNul, SelectInSeq
  <2>2. nuls \subseteq Nat
    OBVIOUS
  <2> HIDE DEF nuls
  <2>3. \E x \in nuls : \A y \in nuls : x <= y
    BY <1>2, <2>2, LeastNatural
  <2>4. Min(nuls) \in nuls
    BY <2>3 DEF Min
  <2>5. Min(nuls) \in 1 .. Len(raw)
    BY <2>4 DEF nuls
  <2> QED BY <2>1, <2>5 DEF Truncated
<1> QED BY <1>1, <1>2

-----------------------------------------------------------------------------
(* The stack. *)

Frames == [container : {"array", "object"}, head : Link, tail : Link, key : Keys \cup {None}]

LEMMA FreshFrame ==
  ASSUME NEW container \in {"array", "object"}
  PROVE  /\ Frame(container) \in Frames
         /\ Frame(container).head = None /\ Frame(container).tail = None
BY DEF Frame, Frames, Link

LEMMA PushFacts ==
  ASSUME stack \in Seq(Frames), NEW f \in Frames
  PROVE  /\ Append(stack, f) \in Seq(Frames)
         /\ Len(Append(stack, f)) = Len(stack) + 1
         /\ Append(stack, f) # <<>>
         /\ DOMAIN Append(stack, f) = DOMAIN stack \cup {Len(stack) + 1}
         /\ Append(stack, f)[Len(stack) + 1] = f
         /\ \A i \in DOMAIN stack : Append(stack, f)[i] = stack[i]
OBVIOUS

LEMMA TopFacts ==
  ASSUME stack \in Seq(Frames), stack # <<>>
  PROVE  /\ Len(stack) \in DOMAIN stack /\ Top = stack[Len(stack)] /\ Top \in Frames
         /\ DOMAIN stack = 1 .. Len(stack) /\ Len(stack) \in Nat \ {0}
         /\ \A i \in DOMAIN stack : stack[i] \in Frames
BY DEF Top

LEMMA PopFacts ==
  ASSUME stack \in Seq(Frames), stack # <<>>
  PROVE  /\ Pop \in Seq(Frames)
         /\ Len(Pop) = Len(stack) - 1
         /\ DOMAIN Pop = DOMAIN stack \ {Len(stack)}
         /\ \A i \in DOMAIN Pop : Pop[i] = stack[i]
<1> DEFINE n == Len(stack) - 1
<1>1. n \in Nat /\ 1 \in Int /\ n \in Int /\ \A i \in 1 .. n : stack[i] \in Frames
  BY TopFacts
<1>2. /\ SubSeq(stack, 1, n) \in Seq(Frames)
      /\ Len(SubSeq(stack, 1, n)) = IF 1 <= n THEN n - 1 + 1 ELSE 0
      /\ \A i \in 1 .. n - 1 + 1 : SubSeq(stack, 1, n)[i] = stack[1 + i - 1]
  BY <1>1, SubSeqProperties
<1>3. Pop = SubSeq(stack, 1, n)
  BY DEF Pop
<1> DEFINE t == SubSeq(stack, 1, n)
<1>4. t \in Seq(Frames) /\ Len(t) = n /\ DOMAIN t = 1 .. n /\ \A i \in 1 .. n : t[i] = stack[i]
  <2> HIDE DEF t, n
  <2>1. /\ t \in Seq(Frames) /\ Len(t) = (IF 1 <= n THEN n - 1 + 1 ELSE 0)
        /\ \A i \in 1 .. n - 1 + 1 : t[i] = stack[1 + i - 1]
    BY <1>2 DEF t
  <2>2. Len(t) = n
    BY <1>1, <2>1
  <2>3. n - 1 + 1 = n
    BY <1>1
  <2>4. \A i \in 1 .. n : t[i] = stack[i]
    BY <1>1, <2>1, <2>3
  <2> QED BY <2>1, <2>2, <2>4
<1>5. 1 .. n = DOMAIN stack \ {Len(stack)}
  BY <1>1, TopFacts
<1> HIDE DEF t
<1>6. Pop = t
  BY <1>3 DEF t
<1> QED BY <1>4, <1>5, <1>6

LEMMA SetTopFacts ==
  ASSUME stack \in Seq(Frames), stack # <<>>, NEW f \in Frames
  PROVE  /\ SetTop(f) \in Seq(Frames)
         /\ Len(SetTop(f)) = Len(stack)
         /\ SetTop(f) # <<>>
         /\ DOMAIN SetTop(f) = DOMAIN stack
         /\ SetTop(f)[Len(stack)] = f
         /\ \A i \in DOMAIN stack : i # Len(stack) => SetTop(f)[i] = stack[i]
BY DEF SetTop

-----------------------------------------------------------------------------
(* The types of the parser's own variables, its place and its offset. *)

Kinds == {"array", "object", None} \cup Scalars \cup Keys

OwnInv ==
  /\ input \in Seq(Tokens)
  /\ requireEnd \in BOOLEAN
  /\ offset \in 0 .. Len(input)
  /\ depth \in 0 .. NestingLimit
  /\ stack \in Seq(Frames)
  /\ Len(stack) = depth
  /\ pc \in {"start", "value", "loop", "return", "linked", "fail", "accepted", "rejected"}
  /\ ret \in Link
  /\ kind \in [NodeIds -> Kinds]
  /\ PlaceInv

LEMMA TextInvIsOwnInv == TextInv <=> OwnInv /\ BoundsInv
BY DEF TextInv, OwnInv, ParserTypeOK, BoundsInv, OffsetInText, Frames, Kinds

LEMMA ReturnsKeeps ==
  ASSUME OwnInv, BoundsInv, NEW head, NEW k \in Kinds, Returns(head, k)
  PROVE  /\ ret' \in Link /\ ret' # None /\ kind' \in [NodeIds -> Kinds]
         /\ pc' = "return" /\ input' = input /\ requireEnd' = requireEnd
<1>1. size \in NodeIds
  BY BoundsAreIds DEF Returns, Alloc, BoundsInv, TypeOK
<1> QED BY <1>1, NoneIsNoNode DEF Returns, OwnInv, Link

LEMMA MovesKeep ==
  ASSUME OwnInv, UNCHANGED <<input, requireEnd, depth, stack, ret, kind>>,
         offset' \in 0 .. Len(input),
         \/ pc' \in {"value", "fail"} /\ ret = None
         \/ pc' \in {"loop", "linked"} /\ ret = None /\ stack # <<>>
         \/ pc' = "rejected" /\ ret = None /\ stack = <<>>
         \/ pc' = "accepted" /\ ret # None /\ stack = <<>>
  PROVE  OwnInv'
BY DEF OwnInv, PlaceInv

LEMMA FailsKeeps ==
  ASSUME OwnInv, Fails, ret = None, offset' \in 0 .. Len(input)
  PROVE  OwnInv'
BY MovesKeep DEF Fails

LEMMA BeginOwn ==
  ASSUME OwnInv, Begin
  PROVE  OwnInv'
<1>1. ret = None /\ stack = <<>>
  BY DEF Begin, OwnInv, PlaceInv
<1>2. CASE pc' = "rejected" /\ offset' = offset
  BY <1>1, <1>2, MovesKeep DEF Begin, OwnInv
<1>3. CASE offset' \in AfterBlanks(AfterBOM) /\ pc' = "value"
  <2>1. AfterBOM \in Int /\ AfterBOM >= 0
    BY DEF AfterBOM
  <2>2. offset' \in 0 .. Len(input)
    BY <1>3, <2>1, BlanksInText DEF OwnInv
  <2> QED BY <1>1, <1>3, <2>2, MovesKeep DEF Begin
<1> QED BY <1>2, <1>3 DEF Begin

LEMMA ParseScalarOwn ==
  ASSUME OwnInv, BoundsInv, ParseScalar
  PROVE  OwnInv'
<1>1. /\ offset \in Int /\ input \in Seq(Tokens) /\ ret = None
      /\ offset' = offset + 1
  BY DEF ParseScalar, OwnInv, PlaceInv
<1>2. offset < Len(input) /\ input[offset + 1] \in Kinds
  BY <1>1, ReadsInText DEF ParseScalar, Kinds
<1>3. /\ ret' \in Link /\ ret' # None /\ kind' \in [NodeIds -> Kinds]
      /\ pc' = "return" /\ input' = input /\ requireEnd' = requireEnd
  BY <1>2, ReturnsKeeps DEF ParseScalar
<1>4. depth' = depth /\ stack' = stack
  BY DEF ParseScalar
<1>5. offset' \in 0 .. Len(input)
  BY <1>1, <1>2 DEF OwnInv
<1> QED BY <1>3, <1>4, <1>5 DEF OwnInv, PlaceInv

LEMMA ParseEmptyOwn ==
  ASSUME OwnInv, BoundsInv, NEW container \in {"array", "object"}, ParseEmpty(container)
  PROVE  OwnInv'
<1>1. offset \in Int /\ offset >= 0 /\ input \in Seq(Tokens)
  BY DEF OwnInv
<1>2. PICK e \in AfterBlanks(offset + 1) : Reads(e, Closing(container)) /\ offset' = e + 1
  BY DEF ParseEmpty
<1>3. e \in Int /\ offset + 1 <= e /\ e < Len(input)
  BY <1>1, <1>2, BlanksInText, ReadsInText
<1>4. offset' \in 0 .. Len(input)
  BY <1>1, <1>2, <1>3
<1>5. /\ ret' \in Link /\ ret' # None /\ kind' \in [NodeIds -> Kinds]
      /\ pc' = "return" /\ input' = input /\ requireEnd' = requireEnd
  BY ReturnsKeeps DEF ParseEmpty, Kinds
<1>6. depth' = depth /\ stack' = stack
  BY DEF ParseEmpty
<1> QED BY <1>4, <1>5, <1>6 DEF OwnInv, PlaceInv

\* Where the characters do not matter.
LEMMA OpensAtAValue == \A container : Opens(container) => pc = "value"
BY Zenon DEF Opens

LEMMA ParseOpenEndedOwn ==
  ASSUME OwnInv, NEW container, ParseOpenEnded(container)
  PROVE  OwnInv'
<1>1. offset \in Int /\ offset >= 0 /\ input \in Seq(Tokens) /\ ret = None
  BY OpensAtAValue DEF OwnInv, PlaceInv, ParseOpenEnded
<1>2. offset + 1 <= Len(input)
  BY <1>1, BlanksInText DEF ParseOpenEnded
<1>3. offset' \in 0 .. Len(input)
  BY <1>1, <1>2 DEF ParseOpenEnded
<1> QED BY <1>1, <1>3, FailsKeeps DEF ParseOpenEnded

LEMMA EnterOwn ==
  ASSUME OwnInv, NEW container \in {"array", "object"}, Enter(container)
  PROVE  OwnInv'
<1>1. offset \in Int /\ offset >= 0 /\ input \in Seq(Tokens) /\ ret = None
  BY OpensAtAValue DEF OwnInv, PlaceInv, Enter
<1>2. PICK e \in AfterBlanks(offset + 1) : offset' = e - 1
  BY DEF Enter
<1>3. offset' \in 0 .. Len(input)
  BY <1>1, <1>2, BlanksInText
<1>4. /\ stack' \in Seq(Frames) /\ Len(stack') = Len(stack) + 1 /\ stack' # <<>>
  BY FreshFrame, PushFacts DEF Enter, OwnInv
<1>5. /\ depth' = depth + 1 /\ depth' \in 0 .. NestingLimit
      /\ pc' = "loop" /\ UNCHANGED <<input, requireEnd, ret, kind>>
  BY NestingLimitAssumption DEF Enter, OwnInv
<1> QED BY <1>1, <1>3, <1>4, <1>5 DEF OwnInv, PlaceInv

LEMMA NextElementOwn ==
  ASSUME OwnInv, NextElement
  PROVE  OwnInv'
<1>1. offset \in Int /\ offset >= 0 /\ input \in Seq(Tokens) /\ ret = None
  BY DEF OwnInv, PlaceInv, NextElement
<1>2. offset' \in 0 .. Len(input)
  BY <1>1, BlanksInText DEF NextElement
<1> QED BY <1>1, <1>2, MovesKeep DEF NextElement

LEMMA NextMemberOwn ==
  ASSUME OwnInv, NextMember
  PROVE  OwnInv'
<1>1. /\ offset \in Int /\ offset >= 0 /\ input \in Seq(Tokens) /\ ret = None
      /\ stack # <<>> /\ stack \in Seq(Frames)
  BY DEF OwnInv, PlaceInv, NextMember
<1>2. PICK name \in AfterBlanks(offset + 1) :
        /\ ReadsString(name)
        /\ \E colon \in AfterBlanks(name + 1) : offset' \in AfterBlanks(colon + 1)
        /\ stack' = SetTop([Top EXCEPT !.key = input[name + 1]])
  BY DEF NextMember
<1>3. PICK colon \in AfterBlanks(name + 1) : offset' \in AfterBlanks(colon + 1)
  BY <1>2
<1>4. name \in Int /\ name >= 0 /\ colon \in Int /\ colon >= 0
  BY <1>1, BlanksInText
<1>5. offset' \in 0 .. Len(input)
  BY <1>1, <1>3, <1>4, BlanksInText
<1>6. [Top EXCEPT !.key = input[name + 1]] \in Frames
  BY <1>1, <1>2, <1>4, ReadsInText, TopFacts DEF Frames
<1>7. stack' \in Seq(Frames) /\ Len(stack') = Len(stack) /\ stack' # <<>>
  BY <1>1, <1>2, <1>6, SetTopFacts
<1>8. pc' = "value" /\ UNCHANGED <<input, requireEnd, depth, ret, kind>>
  BY DEF NextMember
<1> QED BY <1>1, <1>5, <1>7, <1>8 DEF OwnInv, PlaceInv

LEMMA MalformedMemberOwn ==
  ASSUME OwnInv, MalformedMember
  PROVE  OwnInv'
<1>1. offset \in Int /\ offset >= 0 /\ input \in Seq(Tokens) /\ ret = None
  BY DEF OwnInv, PlaceInv, MalformedMember
<1>2. offset' \in 0 .. Len(input)
  <2>1. CASE offset' = offset
    BY <2>1 DEF OwnInv
  <2>2. ASSUME NEW name \in AfterBlanks(offset + 1),
               offset' = name \/ \E colon \in AfterBlanks(name + 1) : offset' = colon
        PROVE  offset' \in 0 .. Len(input)
    <3>1. name \in Int /\ name >= 0 /\ name <= Len(input)
      BY <1>1, BlanksInText
    <3>2. ASSUME NEW colon \in AfterBlanks(name + 1) PROVE colon \in 0 .. Len(input)
      BY <1>1, <3>1, BlanksInText
    <3> QED BY <2>2, <3>1, <3>2
  <2> QED BY <2>1, <2>2 DEF MalformedMember
<1> QED BY <1>1, <1>2, FailsKeeps DEF MalformedMember

LEMMA LinkItemOwn ==
  ASSUME OwnInv, LinkItem
  PROVE  OwnInv'
<1>1. /\ offset \in Int /\ offset >= 0 /\ input \in Seq(Tokens)
      /\ stack # <<>> /\ stack \in Seq(Frames) /\ ret \in Link
  BY DEF OwnInv, LinkItem
<1>2. offset' \in 0 .. Len(input)
  BY <1>1, BlanksInText DEF LinkItem
<1>3. [Top EXCEPT !.head = IF @ = None THEN ret ELSE @, !.tail = ret] \in Frames
  BY <1>1, TopFacts DEF Frames
<1>4. stack' \in Seq(Frames) /\ Len(stack') = Len(stack) /\ stack' # <<>>
  BY <1>1, <1>3, SetTopFacts DEF LinkItem
<1>5. /\ pc' = "linked" /\ ret' = None /\ None \in Link
      /\ UNCHANGED <<input, requireEnd, depth, kind>>
  BY DEF LinkItem, Link
<1> QED BY <1>2, <1>4, <1>5 DEF OwnInv, PlaceInv

LEMMA CloseContainerOwn ==
  ASSUME OwnInv, BoundsInv, CloseContainer
  PROVE  OwnInv'
<1>1. /\ offset \in Int /\ offset >= 0 /\ input \in Seq(Tokens)
      /\ stack # <<>> /\ stack \in Seq(Frames)
  BY DEF OwnInv, PlaceInv, CloseContainer
<1>2. offset' \in 0 .. Len(input)
  BY <1>1, ReadsInText DEF CloseContainer
<1>3. Top.container \in Kinds
  BY <1>1, TopFacts DEF Frames, Kinds
<1>4. /\ ret' \in Link /\ ret' # None /\ kind' \in [NodeIds -> Kinds]
      /\ pc' = "return" /\ input' = input /\ requireEnd' = requireEnd
  BY <1>3, ReturnsKeeps DEF CloseContainer
<1>5. /\ stack' \in Seq(Frames) /\ Len(stack') = Len(stack) - 1
      /\ depth' = depth - 1 /\ Len(stack) >= 1
  BY <1>1, PopFacts, TopFacts DEF CloseContainer
<1>6. depth' \in 0 .. NestingLimit /\ Len(stack') = depth'
  BY <1>5, NestingLimitAssumption DEF OwnInv
<1> QED BY <1>2, <1>4, <1>5, <1>6 DEF OwnInv, PlaceInv

LEMMA AbandonOwn ==
  ASSUME OwnInv, Abandon
  PROVE  OwnInv'
<1>1. stack # <<>> /\ stack \in Seq(Frames)
  BY DEF OwnInv, Abandon
<1>2. /\ stack' \in Seq(Frames) /\ Len(stack') = Len(stack) - 1
      /\ depth' = depth - 1 /\ Len(stack) >= 1
  BY <1>1, PopFacts, TopFacts DEF Abandon, Leave
<1>3. depth' \in 0 .. NestingLimit /\ Len(stack') = depth'
  BY <1>2, NestingLimitAssumption DEF OwnInv
<1>4. UNCHANGED <<input, requireEnd, offset, pc, ret, kind>> /\ pc = "fail"
  BY DEF Abandon
<1> QED BY <1>2, <1>3, <1>4 DEF OwnInv, PlaceInv

LEMMA AcceptOwn ==
  ASSUME OwnInv, Accept
  PROVE  OwnInv'
<1>1. offset' = offset \/ offset' = Len(input)
  BY DEF Accept
<1>2. offset' \in 0 .. Len(input)
  BY <1>1 DEF OwnInv
<1> QED BY <1>2, MovesKeep DEF Accept, OwnInv, PlaceInv

LEMMA RejectTrailingOwn ==
  ASSUME OwnInv, RejectTrailing
  PROVE  OwnInv'
<1>1. offset' \in 0 .. Len(input)
  BY BlanksInText DEF RejectTrailing, OwnInv
<1> QED BY <1>1 DEF RejectTrailing, OwnInv, PlaceInv, Link

LEMMA OwnStep ==
  ASSUME OwnInv, BoundsInv, [ParseNext]_pvars
  PROVE  OwnInv'
<1>1. CASE UNCHANGED pvars
  BY <1>1 DEF pvars, parser, OwnInv, PlaceInv
<1>2. CASE ParseNothing
  BY <1>2, FailsKeeps DEF ParseNothing, OwnInv, PlaceInv
<1>3. ASSUME NEW container, TooDeep(container) PROVE OwnInv'
  BY <1>3, FailsKeeps DEF TooDeep, Opens, OwnInv, PlaceInv
<1>4. CASE ContinueLoop
  BY <1>4, MovesKeep DEF ContinueLoop, OwnInv, PlaceInv
<1>5. CASE ExpectedEnd
  BY <1>5, FailsKeeps DEF ExpectedEnd, OwnInv, PlaceInv
<1>6. CASE Reject
  BY <1>6, MovesKeep DEF Reject, OwnInv, PlaceInv
<1> QED
  BY <1>1, <1>2, <1>3, <1>4, <1>5, <1>6, BeginOwn, ParseScalarOwn, ParseEmptyOwn,
     ParseOpenEndedOwn, EnterOwn, NextElementOwn, NextMemberOwn, MalformedMemberOwn, LinkItemOwn,
     CloseContainerOwn, AbandonOwn, AcceptOwn, RejectTrailingOwn DEF ParseNext

-----------------------------------------------------------------------------
(* Trees.  As with walks, a least closed set lies in every closed set.       *)

LEMMA IntoPlain ==
  ASSUME NEW nx, NEW ch, NEW m \in NodeIds, NEW S
  PROVE  Into(NoRefs, nx, ch, m, S) <=> nx[m] \in S \cup {None} /\ ch[m] \in S \cup {None}
BY DEF Into, NoRefs

LEMMA TreeFacts ==
  ASSUME NEW nx \in [NodeIds -> Link], NEW ch \in [NodeIds -> Link], NEW h \in NodeIds
  PROVE  /\ h \in Tree(nx, ch, h) /\ Tree(nx, ch, h) \subseteq NodeIds
         /\ \A m \in Tree(nx, ch, h) : /\ nx[m] \in Tree(nx, ch, h) \cup {None}
                                       /\ ch[m] \in Tree(nx, ch, h) \cup {None}
<1>1. h \in Tree(nx, ch, h) /\ Tree(nx, ch, h) \subseteq NodeIds
  BY DEF Tree
<1>2. ASSUME NEW m \in Tree(nx, ch, h)
      PROVE  nx[m] \in Tree(nx, ch, h) \cup {None} /\ ch[m] \in Tree(nx, ch, h) \cup {None}
  <2>1. m \in NodeIds /\ nx[m] \in NodeIds \cup {None} /\ ch[m] \in NodeIds \cup {None}
    BY <1>1 DEF Link
  <2>2. ASSUME NEW S \in SUBSET NodeIds, h \in S, \A i \in S : Into(NoRefs, nx, ch, i, S)
        PROVE  nx[m] \in S \cup {None} /\ ch[m] \in S \cup {None}
    <3>1. m \in S
      BY <2>2 DEF Tree
    <3> QED BY <2>1, <2>2, <3>1, IntoPlain
  <2> QED BY <2>1, <2>2 DEF Tree
<1> QED BY <1>1, <1>2

LEMMA TreeLeast ==
  ASSUME NEW nx, NEW ch, NEW h, NEW S \in SUBSET NodeIds, h \in S,
         \A m \in S : nx[m] \in S \cup {None} /\ ch[m] \in S \cup {None}
  PROVE  Tree(nx, ch, h) \subseteq S
<1>1. \A m \in S : Into(NoRefs, nx, ch, m, S)
  BY IntoPlain
<1> QED BY <1>1 DEF Tree

\* Links that agree on a tree have that tree.
LEMMA TreeSame ==
  ASSUME NEW nx \in [NodeIds -> Link], NEW ch \in [NodeIds -> Link], NEW h \in NodeIds,
         NEW nx2 \in [NodeIds -> Link], NEW ch2 \in [NodeIds -> Link],
         \A m \in Tree(nx, ch, h) : nx2[m] = nx[m] /\ ch2[m] = ch[m]
  PROVE  Tree(nx2, ch2, h) = Tree(nx, ch, h)
<1> DEFINE T == Tree(nx, ch, h)
           T2 == Tree(nx2, ch2, h)
<1>1. /\ h \in T /\ T \subseteq NodeIds /\ \A m \in T : nx[m] \in T \cup {None} /\ ch[m] \in T \cup {None}
      /\ h \in T2 /\ T2 \subseteq NodeIds
      /\ \A m \in T2 : nx2[m] \in T2 \cup {None} /\ ch2[m] \in T2 \cup {None}
  BY TreeFacts
<1>2. T2 \subseteq T
  BY <1>1, TreeLeast
<1>3. T \subseteq T2
  BY <1>1, <1>2, TreeLeast
<1> QED BY <1>2, <1>3

\* Linking r behind t, the end of the list from h, joins their trees.
LEMMA TreeJoin ==
  ASSUME NEW nx \in [NodeIds -> Link], NEW ch \in [NodeIds -> Link], NEW h \in NodeIds,
         NEW r \in NodeIds, NEW t \in Tree(nx, ch, h), nx[t] = None,
         NEW nx2 \in [NodeIds -> Link],
         nx2[t] = r, \A m \in NodeIds \ {t} : nx2[m] = nx[m]
  PROVE  Tree(nx2, ch, h) = Tree(nx, ch, h) \cup Tree(nx, ch, r)
<1> USE NoneIsNoNode
<1> DEFINE T == Tree(nx, ch, h)
           R == Tree(nx, ch, r)
           T2 == Tree(nx2, ch, h)
<1>1. /\ h \in T /\ T \subseteq NodeIds /\ \A m \in T : nx[m] \in T \cup {None} /\ ch[m] \in T \cup {None}
      /\ r \in R /\ R \subseteq NodeIds /\ \A m \in R : nx[m] \in R \cup {None} /\ ch[m] \in R \cup {None}
  BY TreeFacts
<1>2. t \in NodeIds /\ nx2 \in [NodeIds -> Link] /\ nx2[t] = r
      /\ \A m \in NodeIds : m # t => nx2[m] = nx[m]
  BY <1>1 DEF Link
<1>3. h \in T2 /\ T2 \subseteq NodeIds /\ \A m \in T2 : nx2[m] \in T2 \cup {None} /\ ch[m] \in T2 \cup {None}
  BY <1>2, TreeFacts
<1>4. T2 \subseteq T \cup R
  <2> DEFINE S == T \cup R
  <2>1. S \in SUBSET NodeIds /\ h \in S /\ \A m \in S : nx2[m] \in S \cup {None} /\ ch[m] \in S \cup {None}
    BY <1>1, <1>2
  <2> HIDE DEF S
  <2>2. T2 \subseteq S
    BY <2>1, TreeLeast
  <2> QED BY <2>2 DEF S
<1>5. \A m \in T2 : nx[m] \in T2 \cup {None} /\ ch[m] \in T2 \cup {None}
  BY <1>2, <1>3
<1>6. T \subseteq T2
  BY <1>3, <1>5, TreeLeast
<1>7. r \in T2
  BY <1>2, <1>3, <1>6
<1>8. R \subseteq T2
  BY <1>3, <1>5, <1>7, TreeLeast
<1> QED BY <1>4, <1>6, <1>8

\* A new node on top of a list.
LEMMA TreeRoot ==
  ASSUME NEW nx \in [NodeIds -> Link], NEW ch \in [NodeIds -> Link], NEW id \in NodeIds,
         nx[id] = None, ch[id] = None, NEW c \in Link,
         NEW ch2 \in [NodeIds -> Link],
         ch2[id] = c, \A m \in NodeIds \ {id} : ch2[m] = ch[m]
  PROVE  /\ c = None => Tree(nx, ch2, id) = {id}
         /\ c # None => Tree(nx, ch2, id) = {id} \cup Tree(nx, ch, c)
<1> USE NoneIsNoNode
<1> DEFINE C == IF c = None THEN {} ELSE Tree(nx, ch, c)
           T2 == Tree(nx, ch2, id)
<1>1. /\ c # None => c \in C
      /\ C \subseteq NodeIds /\ \A m \in C : nx[m] \in C \cup {None} /\ ch[m] \in C \cup {None}
  <2>1. CASE c = None
    BY <2>1
  <2>2. CASE c # None
    BY <2>2, TreeFacts DEF Link
  <2> QED BY <2>1, <2>2
<1>2. ch2 \in [NodeIds -> Link] /\ ch2[id] = c /\ \A m \in NodeIds : m # id => ch2[m] = ch[m]
  OBVIOUS
<1>3. id \in T2 /\ T2 \subseteq NodeIds /\ \A m \in T2 : nx[m] \in T2 \cup {None} /\ ch2[m] \in T2 \cup {None}
  BY <1>2, TreeFacts
<1>4. T2 \subseteq {id} \cup C
  <2> DEFINE S == {id} \cup C
  <2> HIDE DEF C
  <2>1. S \in SUBSET NodeIds /\ id \in S /\ \A m \in S : nx[m] \in S \cup {None} /\ ch2[m] \in S \cup {None}
    BY <1>1, <1>2
  <2> HIDE DEF S
  <2>2. T2 \subseteq S
    BY <2>1, TreeLeast
  <2> QED BY <2>2 DEF S
<1>5. \A m \in T2 : nx[m] \in T2 \cup {None} /\ ch[m] \in T2 \cup {None}
  BY <1>2, <1>3
<1>6. C \subseteq T2
  <2>1. CASE c = None
    BY <2>1
  <2>2. CASE c # None
    <3>1. c \in T2
      BY <1>2, <1>3, <2>2
    <3> QED BY <1>3, <1>5, <2>2, <3>1, TreeLeast
  <2> QED BY <2>1, <2>2
<1>7. T2 = {id} \cup C
  <2> HIDE DEF C, T2
  <2> QED BY <1>3, <1>4, <1>6
<1> QED BY <1>7

\* What delete_chain visits from a node in the parser's hands is its tree.
LEMMA OwnedIsTree ==
  ASSUME NEW nx \in [NodeIds -> Link], NEW ch \in [NodeIds -> Link], NEW h \in NodeIds,
         isRef = NoRefs, Tree(nx, ch, h) \cap deleted = {}
  PROVE  Owned(nx, ch, h) = Tree(nx, ch, h)
<1> DEFINE T == Tree(nx, ch, h)
<1>1. /\ h \in T /\ T \subseteq NodeIds
      /\ \A m \in T : nx[m] \in T \cup {None} /\ ch[m] \in T \cup {None}
  BY TreeFacts
<1>2. Owned(nx, ch, h) \subseteq T
  BY <1>1 DEF Owned
<1>3. ASSUME NEW S \in SUBSET NodeIds, h \in S \cup deleted,
             \A m \in S : /\ nx[m] \in S \cup deleted \cup {None}
                          /\ isRef[m] \/ ch[m] \in S \cup deleted \cup {None}
      PROVE  T \subseteq S
  <2>1. h \in S \cap T
    BY <1>1, <1>3
  <2>2. ASSUME NEW m \in S \cap T
        PROVE  nx[m] \in (S \cap T) \cup {None} /\ ch[m] \in (S \cap T) \cup {None}
    <3>1. nx[m] \in S \cup deleted \cup {None} /\ ch[m] \in S \cup deleted \cup {None}
      BY <1>1, <1>3 DEF NoRefs
    <3> QED BY <1>1, <3>1
  <2>3. T \subseteq S \cap T
    BY <2>1, <2>2, TreeLeast
  <2> QED BY <2>3
<1>4. T \subseteq Owned(nx, ch, h)
  BY <1>1, <1>3 DEF Owned
<1> QED BY <1>2, <1>4

-----------------------------------------------------------------------------
(* The three edits of the parser's trees. *)

LEMMA GrownFacts ==
  ASSUME NEW L, NEW nx, NEW pv, NEW ch, NEW H, Grown(L, nx, pv, ch, H)
  PROVE  /\ L \subseteq NodeIds /\ H \subseteq L
         /\ nx \in [NodeIds -> Link] /\ pv \in [NodeIds -> Link] /\ ch \in [NodeIds -> Link]
         /\ \A n \in L : nx[n] \in L \cup {None} /\ ch[n] \in L \cup {None} /\ pv[n] \in L \cup {None}
         /\ \A n \in NodeIds \ L : nx[n] = None /\ pv[n] = None /\ ch[n] = None
         /\ \A m, n \in L : nx[m] = n <=> pv[n] = m
         /\ \A h \in H : pv[h] = None /\ \A m \in L : nx[m] # h /\ ch[m] # h
         /\ \A h \in H : h \in Tree(nx, ch, h) /\ Tree(nx, ch, h) \subseteq L
<1>1. /\ L \subseteq NodeIds /\ H \subseteq L
      /\ nx \in [NodeIds -> Link] /\ pv \in [NodeIds -> Link] /\ ch \in [NodeIds -> Link]
      /\ \A n \in NodeIds \ L : nx[n] = None /\ pv[n] = None /\ ch[n] = None
      /\ \A m, n \in L : nx[m] = n <=> pv[n] = m
  BY DEF Grown, Typed, Consistent
<1>2. \A n \in L : Into(NoRefs, nx, ch, n, L) /\ pv[n] \in L \cup {None}
  BY DEF Grown, Consistent
<1>3. \A n \in L : nx[n] \in L \cup {None} /\ ch[n] \in L \cup {None} /\ pv[n] \in L \cup {None}
  BY <1>1, <1>2, IntoPlain
<1>4. \A h \in H : \A m \in L : nx[m] # h /\ ch[m] # h
  BY <1>1 DEF Grown, Unheld, NoRefs
<1>5. \A h \in H : pv[h] = None
  BY <1>1, <1>3, <1>4
<1>6. ASSUME NEW h \in H PROVE h \in Tree(nx, ch, h) /\ Tree(nx, ch, h) \subseteq L
  <2>1. h \in L /\ h \in NodeIds
    BY <1>1
  <2>2. Tree(nx, ch, h) \subseteq L
    BY <1>1, <1>3, <2>1, TreeLeast
  <2> QED BY <1>1, <2>1, <2>2, TreeFacts
<1> QED BY <1>1, <1>3, <1>4, <1>5, <1>6

\* A new node on top of the list from c, or on its own.
LEMMA GrowSafe ==
  ASSUME NEW L, NEW nx, NEW pv, NEW ch, NEW H, Grown(L, nx, pv, ch, H),
         NEW id \in NodeIds \ L, NEW c \in H \cup {None},
         NEW ch2 \in [NodeIds -> Link],
         ch2[id] = c, \A m \in NodeIds \ {id} : ch2[m] = ch[m]
  PROVE  /\ Grown(L \cup {id}, nx, pv, ch2, (H \ {c}) \cup {id})
         /\ \A h \in H \ {c} : Tree(nx, ch2, h) = Tree(nx, ch, h)
<1> USE NoneIsNoNode
<1> DEFINE L2 == L \cup {id}
           H2 == (H \ {c}) \cup {id}
<1>1. /\ L \subseteq NodeIds /\ H \subseteq L
      /\ nx \in [NodeIds -> Link] /\ pv \in [NodeIds -> Link] /\ ch \in [NodeIds -> Link]
      /\ \A n \in L : nx[n] \in L \cup {None} /\ ch[n] \in L \cup {None} /\ pv[n] \in L \cup {None}
      /\ \A n \in NodeIds \ L : nx[n] = None /\ pv[n] = None /\ ch[n] = None
      /\ \A m, n \in L : nx[m] = n <=> pv[n] = m
      /\ \A h \in H : pv[h] = None /\ \A m \in L : nx[m] # h /\ ch[m] # h
      /\ \A h \in H : h \in Tree(nx, ch, h) /\ Tree(nx, ch, h) \subseteq L
  BY GrownFacts
<1>2. /\ ch2 \in [NodeIds -> Link] /\ ch2[id] = c /\ \A m \in NodeIds : m # id => ch2[m] = ch[m]
      /\ nx[id] = None /\ pv[id] = None
  BY <1>1 DEF Link
<1>3. Typed(L2, NoRefs, nx, pv, ch2)
  BY <1>1, <1>2 DEF Typed, NoRefs
<1>4. Consistent(L2, NoRefs, nx, pv, ch2)
  <2>1. \A n \in L2 : Into(NoRefs, nx, ch2, n, L2) /\ pv[n] \in L2 \cup {None}
    BY <1>1, <1>2 DEF Into
  <2>2. \A n \in NodeIds \ L2 : nx[n] = None /\ pv[n] = None /\ ch2[n] = None
    BY <1>1, <1>2
  <2>3. \A m, n \in L2 : nx[m] = n <=> pv[n] = m
    BY <1>1, <1>2
  <2> QED BY <2>1, <2>2, <2>3 DEF Consistent
<1>5. OneOwner(L2, NoRefs, pv, ch2)
  <2>1. \A p \in L : ch[p] # None => pv[ch[p]] = None /\ \A q \in L : ch[q] = ch[p] => q = p
    BY <1>1 DEF Grown, OneOwner, NoRefs
  <2> QED BY <1>1, <1>2, <2>1 DEF OneOwner
<1>6. NoLoop(L2, NoRefs, nx, ch2)
  <2> SUFFICES ASSUME NEW n \in L2
               PROVE  \E S \in SUBSET L2 : n \notin S /\ \A m \in S \cup {n} : Into(NoRefs, nx, ch2, m, S)
    BY DEF NoLoop
  <2>1. CASE n = id
    <3>1. \A m \in L \cup {id} : Into(NoRefs, nx, ch2, m, L)
      BY <1>1, <1>2 DEF Into
    <3> QED BY <2>1, <3>1
  <2>2. CASE n \in L
    <3>1. PICK S \in SUBSET L : n \notin S /\ \A m \in S \cup {n} : Into(NoRefs, nx, ch, m, S)
      BY <2>2 DEF Grown, NoLoop
    <3>2. \A m \in S \cup {n} : Into(NoRefs, nx, ch2, m, S)
      BY <1>1, <1>2, <2>2, <3>1 DEF Into
    <3> QED BY <3>1, <3>2
  <2> QED BY <2>1, <2>2
<1>7. H2 \subseteq L2 /\ \A h \in H2 : Unheld(L2, NoRefs, nx, ch2, h)
  BY <1>1, <1>2 DEF Unheld
<1>8. \A h \in H : Tree(nx, ch2, h) = Tree(nx, ch, h)
  <2> SUFFICES ASSUME NEW h \in H PROVE Tree(nx, ch2, h) = Tree(nx, ch, h)
    OBVIOUS
  <2>1. \A m \in Tree(nx, ch, h) : nx[m] = nx[m] /\ ch2[m] = ch[m]
    BY <1>1, <1>2
  <2>2. /\ h \in NodeIds /\ nx \in [NodeIds -> Link]
        /\ ch \in [NodeIds -> Link] /\ ch2 \in [NodeIds -> Link]
    BY <1>1, <1>2
  <2> QED BY <2>1, <2>2, TreeSame
<1>9. /\ c = None => Tree(nx, ch2, id) = {id}
      /\ c # None => Tree(nx, ch2, id) = {id} \cup Tree(nx, ch, c)
  <2>1. /\ ch[id] = None /\ nx[id] = None /\ c \in Link /\ id \in NodeIds
        /\ nx \in [NodeIds -> Link] /\ ch \in [NodeIds -> Link] /\ ch2 \in [NodeIds -> Link]
    BY <1>1, <1>2 DEF Link
  <2> QED BY <2>1, TreeRoot
<1>10. \A g, h \in H : g # h => Tree(nx, ch, g) \cap Tree(nx, ch, h) = {}
  BY DEF Grown
<1>11. \A g, h \in H2 : g # h => Tree(nx, ch2, g) \cap Tree(nx, ch2, h) = {}
  <2>1. ASSUME NEW g \in H \ {c} PROVE Tree(nx, ch2, g) \cap Tree(nx, ch2, id) = {}
    <3>1. Tree(nx, ch2, g) = Tree(nx, ch, g) /\ id \notin Tree(nx, ch, g)
      BY <1>1, <1>8
    <3>2. c # None => Tree(nx, ch, g) \cap Tree(nx, ch, c) = {}
      BY <1>10
    <3> QED BY <1>9, <3>1, <3>2
  <2>2. ASSUME NEW g \in H, NEW h \in H, g # h
        PROVE  Tree(nx, ch2, g) \cap Tree(nx, ch2, h) = {}
    BY <1>8, <1>10, <2>2
  <2> QED BY <2>1, <2>2
<1>12. \A n \in L2 : \E h \in H2 : n \in Tree(nx, ch2, h)
  <2> SUFFICES ASSUME NEW n \in L2 PROVE \E h \in H2 : n \in Tree(nx, ch2, h)
    OBVIOUS
  <2>1. CASE n = id
    BY <1>9, <2>1
  <2>2. CASE n \in L
    <3>1. PICK h \in H : n \in Tree(nx, ch, h)
      BY <2>2 DEF Grown
    <3>2. CASE h = c
      <4>1. c # None
        BY <1>1, <3>2
      <4> QED BY <1>9, <3>1, <3>2, <4>1
    <3>3. CASE h # c
      BY <1>8, <3>1, <3>3
    <3> QED BY <3>2, <3>3
  <2> QED BY <2>1, <2>2
<1> HIDE DEF L2, H2
<1>13. Grown(L2, nx, pv, ch2, H2)
  BY <1>3, <1>4, <1>5, <1>6, <1>7, <1>11, <1>12 DEF Grown
<1> QED BY <1>8, <1>13 DEF L2, H2

\* Linking r behind t, where the list from h ends.
LEMMA JoinSafe ==
  ASSUME NEW L, NEW nx, NEW pv, NEW ch, NEW H, Grown(L, nx, pv, ch, H),
         NEW h \in H, NEW r \in H, h # r, NEW t \in Tree(nx, ch, h), nx[t] = None,
         NEW nx2 \in [NodeIds -> Link],
         nx2[t] = r, \A m \in NodeIds \ {t} : nx2[m] = nx[m],
         NEW pv2 \in [NodeIds -> Link],
         pv2[r] = t, \A m \in NodeIds \ {r} : pv2[m] = pv[m]
  PROVE  /\ Grown(L, nx2, pv2, ch, H \ {r})
         /\ \A g \in H \ {h, r} : Tree(nx2, ch, g) = Tree(nx, ch, g)
         /\ r \in Tree(nx2, ch, h)
<1> USE NoneIsNoNode
<1> DEFINE H2 == H \ {r}
<1>1. /\ L \subseteq NodeIds /\ H \subseteq L
      /\ nx \in [NodeIds -> Link] /\ pv \in [NodeIds -> Link] /\ ch \in [NodeIds -> Link]
      /\ \A n \in L : nx[n] \in L \cup {None} /\ ch[n] \in L \cup {None} /\ pv[n] \in L \cup {None}
      /\ \A n \in NodeIds \ L : nx[n] = None /\ pv[n] = None /\ ch[n] = None
      /\ \A m, n \in L : nx[m] = n <=> pv[n] = m
      /\ \A g \in H : pv[g] = None /\ \A m \in L : nx[m] # g /\ ch[m] # g
      /\ \A g \in H : g \in Tree(nx, ch, g) /\ Tree(nx, ch, g) \subseteq L
  BY GrownFacts
<1>2. \A g, k \in H : g # k => Tree(nx, ch, g) \cap Tree(nx, ch, k) = {}
  BY DEF Grown
<1>3. /\ t \in L /\ r \in L /\ t \notin Tree(nx, ch, r)
      /\ nx2 \in [NodeIds -> Link] /\ nx2[t] = r /\ \A m \in NodeIds : m # t => nx2[m] = nx[m]
      /\ pv2 \in [NodeIds -> Link] /\ pv2[r] = t /\ \A m \in NodeIds : m # r => pv2[m] = pv[m]
  BY <1>1, <1>2 DEF Link
<1>4. Typed(L, NoRefs, nx2, pv2, ch)
  BY <1>1, <1>3 DEF Typed, NoRefs
<1>5. Consistent(L, NoRefs, nx2, pv2, ch)
  <2>1. \A n \in L : Into(NoRefs, nx2, ch, n, L) /\ pv2[n] \in L \cup {None}
    BY <1>1, <1>3 DEF Into
  <2>2. \A n \in NodeIds \ L : nx2[n] = None /\ pv2[n] = None /\ ch[n] = None
    BY <1>1, <1>3
  <2>3. \A m, n \in L : nx2[m] = n <=> pv2[n] = m
    BY <1>1, <1>3
  <2> QED BY <2>1, <2>2, <2>3 DEF Consistent
<1>6. OneOwner(L, NoRefs, pv2, ch)
  <2>1. \A p \in L : ch[p] # None => pv[ch[p]] = None /\ \A q \in L : ch[q] = ch[p] => q = p
    BY <1>1 DEF Grown, OneOwner, NoRefs
  <2> QED BY <1>1, <1>3, <2>1 DEF OneOwner
<1> DEFINE R == Tree(nx, ch, r)
<1>7. /\ r \in R /\ R \subseteq L
      /\ \A m \in R : nx[m] \in R \cup {None} /\ ch[m] \in R \cup {None}
  <2>1. r \in NodeIds
    BY <1>1
  <2> QED BY <1>1, <2>1, TreeFacts
<1>8. NoLoop(L, NoRefs, nx2, ch)
  <2> SUFFICES ASSUME NEW n \in L
               PROVE  \E S \in SUBSET L : n \notin S /\ \A m \in S \cup {n} : Into(NoRefs, nx2, ch, m, S)
    BY DEF NoLoop
  <2> HIDE DEF R
  <2>1. PICK S \in SUBSET L : n \notin S /\ \A m \in S \cup {n} : Into(NoRefs, nx, ch, m, S)
    BY DEF Grown, NoLoop
  <2>2. \A m \in S \cup {n} : nx[m] \in S \cup {None} /\ ch[m] \in S \cup {None}
    BY <1>1, <2>1, IntoPlain
  <2>3. CASE n \in R
    <3>1. \A m \in (S \cap R) \cup {n} : Into(NoRefs, nx2, ch, m, S \cap R)
      <4> SUFFICES ASSUME NEW m \in (S \cap R) \cup {n}
                   PROVE  nx2[m] \in (S \cap R) \cup {None} /\ ch[m] \in (S \cap R) \cup {None}
        BY DEF Into
      <4>1. m \in R /\ m \in S \cup {n} /\ m \in NodeIds /\ m # t
        BY <1>1, <1>3, <1>7, <2>3 DEF R
      <4> QED BY <1>3, <1>7, <2>2, <4>1
    <3> QED BY <2>1, <3>1
  <2>4. CASE n \notin R
    <3>1. \A m \in (S \cup R) \cup {n} : Into(NoRefs, nx2, ch, m, S \cup R)
      <4> SUFFICES ASSUME NEW m \in (S \cup R) \cup {n}
                   PROVE  nx2[m] \in (S \cup R) \cup {None} /\ ch[m] \in (S \cup R) \cup {None}
        BY DEF Into
      <4>1. m \in NodeIds /\ nx2[m] \in {nx[m], r}
        BY <1>1, <1>3, <1>7
      <4>2. nx[m] \in (S \cup R) \cup {None} /\ ch[m] \in (S \cup R) \cup {None}
        BY <1>7, <2>2
      <4> QED BY <1>7, <4>1, <4>2
    <3> QED BY <1>7, <2>1, <2>4, <3>1
  <2> QED BY <2>3, <2>4
<1>9. H2 \subseteq L /\ \A g \in H2 : Unheld(L, NoRefs, nx2, ch, g)
  BY <1>1, <1>3 DEF Unheld
<1>10. \A g \in H \ {h, r} : Tree(nx2, ch, g) = Tree(nx, ch, g)
  <2> SUFFICES ASSUME NEW g \in H \ {h, r} PROVE Tree(nx2, ch, g) = Tree(nx, ch, g)
    OBVIOUS
  <2>1. t \notin Tree(nx, ch, g) /\ g \in NodeIds /\ Tree(nx, ch, g) \subseteq NodeIds
    BY <1>1, <1>2
  <2>2. \A m \in Tree(nx, ch, g) : nx2[m] = nx[m] /\ ch[m] = ch[m]
    BY <1>3, <2>1
  <2>3. nx \in [NodeIds -> Link] /\ ch \in [NodeIds -> Link] /\ nx2 \in [NodeIds -> Link]
    BY <1>1, <1>3
  <2> QED BY <2>1, <2>2, <2>3, TreeSame
<1>11. Tree(nx2, ch, h) = Tree(nx, ch, h) \cup R
  <2>1. /\ h \in NodeIds /\ r \in NodeIds
        /\ nx \in [NodeIds -> Link] /\ ch \in [NodeIds -> Link] /\ nx2 \in [NodeIds -> Link]
    BY <1>1
  <2> QED BY <2>1, TreeJoin
<1>12. \A g, k \in H2 : g # k => Tree(nx2, ch, g) \cap Tree(nx2, ch, k) = {}
  <2>1. ASSUME NEW g \in H2 \ {h} PROVE Tree(nx2, ch, g) \cap Tree(nx2, ch, h) = {}
    <3>1. Tree(nx2, ch, g) = Tree(nx, ch, g)
      BY <1>10
    <3>2. Tree(nx, ch, g) \cap Tree(nx, ch, h) = {} /\ Tree(nx, ch, g) \cap R = {}
      BY <1>2
    <3> QED BY <1>11, <3>1, <3>2
  <2>2. ASSUME NEW g \in H2 \ {h}, NEW k \in H2 \ {h}, g # k
        PROVE  Tree(nx2, ch, g) \cap Tree(nx2, ch, k) = {}
    BY <1>2, <1>10, <2>2
  <2> QED BY <2>1, <2>2
<1>13. \A n \in L : \E g \in H2 : n \in Tree(nx2, ch, g)
  <2> SUFFICES ASSUME NEW n \in L PROVE \E g \in H2 : n \in Tree(nx2, ch, g)
    OBVIOUS
  <2>1. PICK g \in H : n \in Tree(nx, ch, g)
    BY DEF Grown
  <2>2. CASE g \in {h, r}
    BY <1>11, <2>1, <2>2
  <2>3. CASE g \notin {h, r}
    BY <1>10, <2>1, <2>3
  <2> QED BY <2>2, <2>3
<1> HIDE DEF H2, R
<1>14. Grown(L, nx2, pv2, ch, H2)
  BY <1>4, <1>5, <1>6, <1>8, <1>9, <1>12, <1>13 DEF Grown
<1> QED BY <1>7, <1>10, <1>11, <1>14 DEF H2

\* Deleting the tree in one hand.
LEMMA DropSafe ==
  ASSUME NEW L, NEW nx, NEW pv, NEW ch, NEW H, Grown(L, nx, pv, ch, H), NEW h \in H,
         NEW D, D = Tree(nx, ch, h)
  PROVE  /\ Grown(L \ D, Cleared(nx, D), Cleared(pv, D), Cleared(ch, D), H \ {h})
         /\ \A g \in H \ {h} : /\ Tree(Cleared(nx, D), Cleared(ch, D), g) = Tree(nx, ch, g)
                               /\ \A m \in Tree(nx, ch, g) : Cleared(nx, D)[m] = nx[m]
<1> USE NoneIsNoNode
<1> DEFINE L2 == L \ D
           H2 == H \ {h}
           nx2 == Cleared(nx, D)
           pv2 == Cleared(pv, D)
           ch2 == Cleared(ch, D)
<1>1. /\ L \subseteq NodeIds /\ H \subseteq L
      /\ nx \in [NodeIds -> Link] /\ pv \in [NodeIds -> Link] /\ ch \in [NodeIds -> Link]
      /\ \A n \in L : nx[n] \in L \cup {None} /\ ch[n] \in L \cup {None} /\ pv[n] \in L \cup {None}
      /\ \A n \in NodeIds \ L : nx[n] = None /\ pv[n] = None /\ ch[n] = None
      /\ \A m, n \in L : nx[m] = n <=> pv[n] = m
      /\ \A g \in H : pv[g] = None /\ \A m \in L : nx[m] # g /\ ch[m] # g
      /\ \A g \in H : g \in Tree(nx, ch, g) /\ Tree(nx, ch, g) \subseteq L
  BY GrownFacts
<1>2. \A g, k \in H : g # k => Tree(nx, ch, g) \cap Tree(nx, ch, k) = {}
  BY DEF Grown
<1>3. /\ nx2 \in [NodeIds -> Link] /\ pv2 \in [NodeIds -> Link] /\ ch2 \in [NodeIds -> Link]
      /\ \A m \in NodeIds : nx2[m] = IF m \in D THEN None ELSE nx[m]
      /\ \A m \in NodeIds : pv2[m] = IF m \in D THEN None ELSE pv[m]
      /\ \A m \in NodeIds : ch2[m] = IF m \in D THEN None ELSE ch[m]
  BY <1>1 DEF Cleared, Link
<1> HIDE DEF nx2, pv2, ch2
<1>4. \A m \in D : nx[m] \in D \cup {None} /\ ch[m] \in D \cup {None}
  <2>1. h \in NodeIds
    BY <1>1
  <2> QED BY <1>1, <2>1, TreeFacts
<1>5. \A m \in L2 : nx[m] \notin D /\ ch[m] \notin D /\ pv[m] \notin D
  <2> SUFFICES ASSUME NEW m \in L2 PROVE nx[m] \notin D /\ ch[m] \notin D /\ pv[m] \notin D
    OBVIOUS
  <2>1. PICK g \in H : m \in Tree(nx, ch, g)
    BY DEF Grown
  <2>2. g # h /\ g \in NodeIds /\ Tree(nx, ch, g) \cap D = {}
    BY <1>1, <1>2, <2>1
  <2>3. nx[m] \in Tree(nx, ch, g) \cup {None} /\ ch[m] \in Tree(nx, ch, g) \cup {None}
    BY <1>1, <2>1, <2>2, TreeFacts
  <2>4. None \notin D
    BY <1>1
  <2>5. ASSUME pv[m] \in D PROVE FALSE
    <3>1. pv[m] \in L /\ nx[pv[m]] = m
      BY <1>1, <2>5
    <3> QED BY <1>1, <1>4, <2>5, <3>1
  <2> QED BY <2>2, <2>3, <2>4, <2>5
<1>6. D \subseteq L
  BY <1>1
<1>7. Typed(L2, NoRefs, nx2, pv2, ch2)
  BY <1>1, <1>3 DEF Typed, NoRefs
<1>8. Consistent(L2, NoRefs, nx2, pv2, ch2)
  <2>1. \A n \in L2 : Into(NoRefs, nx2, ch2, n, L2) /\ pv2[n] \in L2 \cup {None}
    BY <1>1, <1>3, <1>5 DEF Into
  <2>2. \A n \in NodeIds \ L2 : nx2[n] = None /\ pv2[n] = None /\ ch2[n] = None
    BY <1>1, <1>3
  <2>3. \A m, n \in L2 : nx2[m] = n <=> pv2[n] = m
    BY <1>1, <1>3
  <2> QED BY <2>1, <2>2, <2>3 DEF Consistent
<1>9. OneOwner(L2, NoRefs, pv2, ch2)
  <2>1. \A p \in L : ch[p] # None => pv[ch[p]] = None /\ \A q \in L : ch[q] = ch[p] => q = p
    BY <1>1 DEF Grown, OneOwner, NoRefs
  <2>2. \A p \in L2 : p \in L /\ p \in NodeIds /\ ch2[p] = ch[p] /\ ch[p] \notin D
    BY <1>1, <1>3, <1>5
  <2>3. \A p \in L2 : ch[p] # None => pv2[ch[p]] = None
    BY <1>1, <1>3, <2>1, <2>2
  <2> QED BY <2>1, <2>2, <2>3 DEF OneOwner
<1>10. NoLoop(L2, NoRefs, nx2, ch2)
  <2> SUFFICES ASSUME NEW n \in L2
               PROVE  \E S \in SUBSET L2 : n \notin S /\ \A m \in S \cup {n} : Into(NoRefs, nx2, ch2, m, S)
    BY DEF NoLoop
  <2>1. PICK S \in SUBSET L : n \notin S /\ \A m \in S \cup {n} : Into(NoRefs, nx, ch, m, S)
    BY DEF Grown, NoLoop
  <2>2. \A m \in S \cup {n} : nx[m] \in S \cup {None} /\ ch[m] \in S \cup {None}
    BY <1>1, <2>1, IntoPlain
  <2>3. \A m \in (S \ D) \cup {n} : nx2[m] \in (S \ D) \cup {None} /\ ch2[m] \in (S \ D) \cup {None}
    BY <1>1, <1>3, <1>5, <2>2
  <2>4. \A m \in (S \ D) \cup {n} : Into(NoRefs, nx2, ch2, m, S \ D)
    BY <2>3 DEF Into
  <2> QED BY <2>1, <2>4
<1>11. H2 \subseteq L2
  <2>1. ASSUME NEW g \in H2 PROVE g \in L2
    <3>1. g \in Tree(nx, ch, g) /\ Tree(nx, ch, g) \cap D = {} /\ g \in L
      BY <1>1, <1>2
    <3> QED BY <3>1
  <2> QED BY <2>1
<1>12. \A g \in H2 : Unheld(L2, NoRefs, nx2, ch2, g)
  <2>1. \A g \in H2 : g \in NodeIds
    BY <1>1
  <2> QED BY <1>1, <1>3, <2>1 DEF Unheld
<1>13. \A g \in H2 : Tree(nx2, ch2, g) = Tree(nx, ch, g) /\ \A m \in Tree(nx, ch, g) : nx2[m] = nx[m]
  <2> SUFFICES ASSUME NEW g \in H2
               PROVE  Tree(nx2, ch2, g) = Tree(nx, ch, g) /\ \A m \in Tree(nx, ch, g) : nx2[m] = nx[m]
    OBVIOUS
  <2>1. g \in NodeIds /\ Tree(nx, ch, g) \cap D = {} /\ Tree(nx, ch, g) \subseteq NodeIds
    BY <1>1, <1>2
  <2>2. \A m \in Tree(nx, ch, g) : nx2[m] = nx[m] /\ ch2[m] = ch[m]
    BY <1>3, <2>1
  <2>3. /\ nx \in [NodeIds -> Link] /\ ch \in [NodeIds -> Link]
        /\ nx2 \in [NodeIds -> Link] /\ ch2 \in [NodeIds -> Link]
    BY <1>1, <1>3
  <2> QED BY <2>1, <2>2, <2>3, TreeSame
<1>14. \A g, k \in H2 : g # k => Tree(nx2, ch2, g) \cap Tree(nx2, ch2, k) = {}
  BY <1>2, <1>13
<1>15. \A n \in L2 : \E g \in H2 : n \in Tree(nx2, ch2, g)
  <2> SUFFICES ASSUME NEW n \in L2 PROVE \E g \in H2 : n \in Tree(nx2, ch2, g)
    OBVIOUS
  <2>1. PICK g \in H : n \in Tree(nx, ch, g)
    BY DEF Grown
  <2> QED BY <1>13, <2>1
<1> HIDE DEF L2, H2
<1>16. Grown(L2, nx2, pv2, ch2, H2)
  BY <1>7, <1>8, <1>9, <1>10, <1>11, <1>12, <1>14, <1>15 DEF Grown
<1> QED BY <1>13, <1>16 DEF L2, H2, nx2, pv2, ch2

-----------------------------------------------------------------------------
(* The hands. *)

LEMMA HandsAre ==
  \A h : h \in Hands <=> \/ ret # None /\ h = ret
                         \/ \E i \in DOMAIN stack : stack[i].head # None /\ h = stack[i].head
BY DEF Hands

\* The same, after a step.
LEMMA HandsAreNext ==
  \A h : h \in Hands' <=> \/ ret' # None /\ h = ret'
                          \/ \E i \in DOMAIN stack' : stack'[i].head # None /\ h = stack'[i].head
BY DEF Hands

\* A step that moves nothing: calls may begin, and end with empty hands.
LEMMA IdleHands ==
  ASSUME HandInv, UNCHANGED <<vars, ret>>,
         \A i \in DOMAIN stack' :
           \/ stack'[i].head = None /\ stack'[i].tail = None
           \/ i \in DOMAIN stack /\ stack'[i].head = stack[i].head /\ stack'[i].tail = stack[i].tail,
         \A i \in DOMAIN stack :
           stack[i].head # None => i \in DOMAIN stack' /\ stack'[i].head = stack[i].head
  PROVE  HandInv'
<1>1. Hands' = Hands
  BY HandsAre, HandsAreNext
<1>2. Live' = Live /\ next' = next /\ prev' = prev /\ child' = child /\ isRef' = isRef
  BY DEF vars, Live, InBounds
<1>3. Grown(Live', next', prev', child', Hands')
  BY <1>1, <1>2 DEF HandInv
<1>4. \A i \in DOMAIN stack' : FrameInv(stack[i])'
  BY <1>2 DEF HandInv, FrameInv
<1>5. HandsApart'
  BY DEF HandInv, HandsApart
<1> QED BY <1>2, <1>3, <1>4, <1>5 DEF HandInv

\* A step that makes a node on top of the list from c, or on its own.
LEMMA ReturnsHands ==
  ASSUME HandInv, BoundsInv, ret = None, NEW c \in Hands \cup {None}, NEW k, Returns(c, k),
         \A i \in DOMAIN stack' :
           i \in DOMAIN stack /\ stack'[i] = stack[i] /\ (c # None => stack[i].head # c),
         \A i \in DOMAIN stack : stack[i].head \notin {None, c} => i \in DOMAIN stack'
  PROVE  HandInv' /\ BoundsInv'
<1> USE NoneIsNoNode
<1>1. /\ Alloc(c, FALSE) /\ ret' = size
      /\ next' = next /\ prev' = prev /\ deleted' = deleted /\ size < MaxNodes
      /\ size' = size + 1
      /\ child' = [child EXCEPT ![size] = c] /\ isRef' = [isRef EXCEPT ![size] = FALSE]
  BY DEF Returns, Alloc
<1>2. /\ size \in NodeIds \ Live /\ Live' = Live \cup {size}
  <2>1. size \in 0 .. MaxNodes /\ deleted \subseteq InBounds
    BY DEF BoundsInv, TypeOK, LinksInBounds
  <2> QED BY <1>1, <2>1, MaxNodesAssumption DEF Live, InBounds, NodeIds
<1>3. /\ Hands \subseteq Live /\ Live \subseteq NodeIds /\ child \in [NodeIds -> Link]
      /\ next \in [NodeIds -> Link]
      /\ \A n \in NodeIds \ Live : next[n] = None
      /\ \A h \in Hands : Tree(next, child, h) \subseteq Live
  BY GrownFacts DEF HandInv
<1>4. /\ child' \in [NodeIds -> Link] /\ child'[size] = c
      /\ \A m \in NodeIds \ {size} : child'[m] = child[m]
  BY <1>1, <1>2, <1>3 DEF Link
<1>5. /\ Grown(Live \cup {size}, next, prev, child', (Hands \ {c}) \cup {size})
      /\ \A h \in Hands \ {c} : Tree(next, child', h) = Tree(next, child, h)
  BY <1>2, <1>4, GrowSafe DEF HandInv
<1>6. Hands' = (Hands \ {c}) \cup {size}
  BY <1>1, <1>2, HandsAre, HandsAreNext
<1>7. isRef' = NoRefs
  BY <1>1 DEF HandInv, NoRefs
<1>8. Grown(Live', next', prev', child', Hands')
  BY <1>1, <1>2, <1>5, <1>6
<1>9. ASSUME NEW i \in DOMAIN stack' PROVE FrameInv(stack[i])'
  <2>1. /\ i \in DOMAIN stack /\ stack'[i] = stack[i]
        /\ FrameInv(stack[i])
        /\ c # None => stack[i].head # c
    BY DEF HandInv
  <2>2. ASSUME stack[i].head # None
        PROVE  Tree(next, child', stack[i].head) = Tree(next, child, stack[i].head)
    <3>1. stack[i].head \in Hands \ {c}
      BY <2>1, <2>2, HandsAre
    <3> QED BY <1>5, <3>1
  <2> QED BY <1>1, <2>1, <2>2 DEF FrameInv
<1>10. HandsApart'
  <2>1. \A i \in DOMAIN stack : stack[i].head # size
    BY <1>2, <1>3, HandsAre
  <2> QED BY <1>1, <2>1 DEF HandInv, HandsApart
<1>11. next'[ret'] = None
  BY <1>1, <1>2, <1>3
<1>12. BoundsInv'
  <2>1. c \in InBounds \cup {None}
    BY <1>3 DEF Live
  <2> QED BY <1>1, <2>1, AllocBounds
<1> QED BY <1>7, <1>8, <1>9, <1>10, <1>11, <1>12 DEF HandInv

\* A step that deletes what is in one hand.
LEMMA DeletesHand ==
  ASSUME HandInv, BoundsInv, NEW h \in Hands, Delete(h),
         ret' = IF ret = h THEN None ELSE ret,
         \A i \in DOMAIN stack' : i \in DOMAIN stack /\ stack'[i] = stack[i] /\ stack[i].head # h,
         \A i \in DOMAIN stack : stack[i].head \notin {None, h} => i \in DOMAIN stack'
  PROVE  HandInv' /\ BoundsInv'
<1> USE NoneIsNoNode
<1> DEFINE D == Tree(next, child, h)
<1>1. /\ Hands \subseteq Live /\ Live \subseteq NodeIds
      /\ next \in [NodeIds -> Link] /\ child \in [NodeIds -> Link]
      /\ h \in D /\ D \subseteq Live
  BY GrownFacts DEF HandInv
<1>2. Owned(next, child, h) = D
  <2>1. h \in NodeIds /\ isRef = NoRefs /\ D \cap deleted = {}
    BY <1>1 DEF HandInv, Live
  <2> QED BY <1>1, <2>1, OwnedIsTree
<1>3. /\ DeleteChain(next, prev, child, key, h)
      /\ deleted' = deleted \cup D /\ size' = size /\ isRef' = isRef
      /\ next' = Cleared(next, D) /\ prev' = Cleared(prev, D) /\ child' = Cleared(child, D)
  BY <1>2 DEF Delete, DeleteChain
<1>4. Live' = Live \ D
  BY <1>3 DEF Live, InBounds
<1>5. /\ Grown(Live \ D, Cleared(next, D), Cleared(prev, D), Cleared(child, D), Hands \ {h})
      /\ \A g \in Hands \ {h} : /\ Tree(Cleared(next, D), Cleared(child, D), g) = Tree(next, child, g)
                                /\ \A m \in Tree(next, child, g) : Cleared(next, D)[m] = next[m]
  <2>1. Grown(Live, next, prev, child, Hands)
    BY DEF HandInv
  <2> QED BY <2>1, DropSafe
<1> HIDE DEF D
<1>6. Hands' = Hands \ {h}
  BY HandsAre, HandsAreNext
<1>7. Grown(Live', next', prev', child', Hands')
  BY <1>3, <1>4, <1>5, <1>6
<1>8. ASSUME NEW i \in DOMAIN stack' PROVE FrameInv(stack[i])'
  <2>1. i \in DOMAIN stack /\ stack'[i] = stack[i] /\ FrameInv(stack[i]) /\ stack[i].head # h
    BY DEF HandInv
  <2>2. stack[i].head # None => stack[i].head \in Hands \ {h}
    BY <2>1, HandsAre
  <2> QED BY <1>3, <1>5, <2>1, <2>2 DEF FrameInv
<1>9. HandsApart'
  BY DEF HandInv, HandsApart
<1>10. ASSUME ret' # None PROVE next'[ret'] = None
  <2>1. ret' = ret /\ ret # h /\ ret # None /\ next[ret] = None
    BY <1>10 DEF HandInv
  <2>2. ret \in Hands \ {h} /\ ret \in Tree(next, child, ret)
    BY <2>1, HandsAre, GrownFacts DEF HandInv
  <2> QED BY <1>3, <1>5, <2>1, <2>2
<1>11. BoundsInv'
  <2>1. Within(next, InBounds) /\ Within(prev, InBounds) /\ Within(child, InBounds)
    BY BoundsInvIsWithin DEF BoundsInv
  <2>2. h \in InBounds /\ key \in [NodeIds -> Keys \cup {None}]
    BY <1>1 DEF Live, BoundsInv, TypeOK
  <2> QED BY <1>3, <2>1, <2>2, DeleteChainBounds
<1> QED BY <1>3, <1>7, <1>8, <1>9, <1>10, <1>11 DEF HandInv

LEMMA IdleBounds ==
  ASSUME BoundsInv, UNCHANGED vars
  PROVE  BoundsInv'
BY DEF vars, BoundsInv, TypeOK, LinksInBounds, InBounds

\* The calls stand where they stood.
LEMMA SameCalls ==
  ASSUME HandInv, BoundsInv, UNCHANGED <<vars, ret, stack>>
  PROVE  HandInv' /\ BoundsInv'
BY IdleHands, IdleBounds

LEMMA EnterHands ==
  ASSUME OwnInv, HandInv, BoundsInv, NEW container \in {"array", "object"}, Enter(container)
  PROVE  HandInv' /\ BoundsInv'
<1> DEFINE fresh == Frame(container)
<1>1. fresh \in Frames /\ fresh.head = None /\ fresh.tail = None
  BY FreshFrame
<1>2. stack \in Seq(Frames) /\ stack' = Append(stack, fresh) /\ UNCHANGED <<vars, ret>>
  BY DEF OwnInv, Enter
<1> HIDE DEF fresh
<1>3. /\ DOMAIN stack' = DOMAIN stack \cup {Len(stack) + 1}
      /\ stack'[Len(stack) + 1] = fresh /\ \A i \in DOMAIN stack : stack'[i] = stack[i]
  BY <1>1, <1>2, PushFacts
<1> QED BY <1>1, <1>2, <1>3, IdleHands, IdleBounds

LEMMA NextMemberHands ==
  ASSUME OwnInv, HandInv, BoundsInv, NextMember
  PROVE  HandInv' /\ BoundsInv'
<1>1. stack \in Seq(Frames) /\ stack # <<>> /\ offset \in Int /\ input \in Seq(Tokens)
  BY DEF OwnInv, PlaceInv, NextMember
<1>2. UNCHANGED <<vars, ret>>
  BY DEF NextMember
<1>3. PICK name \in AfterBlanks(offset + 1) :
        ReadsString(name) /\ stack' = SetTop([Top EXCEPT !.key = input[name + 1]])
  BY DEF NextMember
<1> DEFINE f == [Top EXCEPT !.key = input[name + 1]]
<1>4. f \in Frames /\ f.head = Top.head /\ f.tail = Top.tail
  <2>1. name \in Int
    BY <1>1, BlanksInText
  <2>2. input[name + 1] \in Keys
    BY <1>1, <1>3, <2>1, ReadsInText
  <2> QED BY <1>1, <2>2, TopFacts DEF Frames
<1> HIDE DEF f
<1>5. stack' = SetTop(f)
  BY <1>3 DEF f
<1>6. /\ DOMAIN stack' = DOMAIN stack /\ stack'[Len(stack)] = f
      /\ \A i \in DOMAIN stack : i # Len(stack) => stack'[i] = stack[i]
      /\ Top = stack[Len(stack)]
  BY <1>1, <1>4, <1>5, SetTopFacts, TopFacts
<1>7. \A i \in DOMAIN stack : stack'[i].head = stack[i].head /\ stack'[i].tail = stack[i].tail
  BY <1>4, <1>6
<1> QED BY <1>2, <1>6, <1>7, IdleHands, IdleBounds

\* A scalar or an empty container: a node of its own.
LEMMA LeafHands ==
  ASSUME HandInv, BoundsInv, ret = None, NEW k, Returns(None, k), stack' = stack
  PROVE  HandInv' /\ BoundsInv'
BY ReturnsHands

\* The top of the stack is on no other hand.
LEMMA TopHand ==
  ASSUME OwnInv, HandInv, stack # <<>>
  PROVE  /\ Top.head # None => Top.head \in Hands
         /\ \A i \in DOMAIN stack : i # Len(stack) /\ Top.head # None => stack[i].head # Top.head
         /\ FrameInv(Top) /\ Top.head \in Link /\ Top.tail \in Link
<1>1. /\ Len(stack) \in DOMAIN stack /\ Top = stack[Len(stack)] /\ Top \in Frames
  BY TopFacts DEF OwnInv
<1> QED BY <1>1, HandsAre DEF HandInv, HandsApart, Frames

LEMMA CloseContainerHands ==
  ASSUME OwnInv, HandInv, BoundsInv, CloseContainer
  PROVE  HandInv' /\ BoundsInv'
<1>1. stack \in Seq(Frames) /\ stack # <<>> /\ ret = None
  BY DEF OwnInv, PlaceInv, CloseContainer
<1>2. Returns(Top.head, Top.container) /\ stack' = Pop
  BY DEF CloseContainer
<1>3. /\ DOMAIN stack' = DOMAIN stack \ {Len(stack)}
      /\ \A i \in DOMAIN stack' : stack'[i] = stack[i]
      /\ Top = stack[Len(stack)]
  BY <1>1, <1>2, PopFacts, TopFacts
<1>4. /\ Top.head \in Hands \cup {None}
      /\ \A i \in DOMAIN stack : i # Len(stack) /\ Top.head # None => stack[i].head # Top.head
  BY <1>1, TopHand
<1>5. \A i \in DOMAIN stack' :
        i \in DOMAIN stack /\ stack'[i] = stack[i] /\ (Top.head # None => stack[i].head # Top.head)
  BY <1>3, <1>4
<1>6. \A i \in DOMAIN stack : stack[i].head \notin {None, Top.head} => i \in DOMAIN stack'
  BY <1>3
<1> QED BY <1>1, <1>2, <1>4, <1>5, <1>6, ReturnsHands

LEMMA AbandonHands ==
  ASSUME OwnInv, HandInv, BoundsInv, Abandon
  PROVE  HandInv' /\ BoundsInv'
<1>1. stack \in Seq(Frames) /\ stack # <<>> /\ ret = None /\ ret' = ret
  BY DEF OwnInv, PlaceInv, Abandon
<1>2. stack' = Pop /\ IF Top.head = None THEN UNCHANGED vars ELSE Delete(Top.head)
  BY DEF Abandon, Leave
<1>3. /\ DOMAIN stack' = DOMAIN stack \ {Len(stack)}
      /\ \A i \in DOMAIN stack' : stack'[i] = stack[i]
      /\ Top = stack[Len(stack)]
  BY <1>1, <1>2, PopFacts, TopFacts
<1>4. CASE Top.head = None
  BY <1>1, <1>2, <1>3, <1>4, IdleHands, IdleBounds
<1>5. CASE Top.head # None
  <2>1. /\ Top.head \in Hands
        /\ \A i \in DOMAIN stack : i # Len(stack) => stack[i].head # Top.head
    BY <1>1, <1>5, TopHand
  <2>2. \A i \in DOMAIN stack' :
          i \in DOMAIN stack /\ stack'[i] = stack[i] /\ stack[i].head # Top.head
    BY <1>3, <2>1
  <2>3. \A i \in DOMAIN stack : stack[i].head \notin {None, Top.head} => i \in DOMAIN stack'
    BY <1>3
  <2>4. ret' = IF ret = Top.head THEN None ELSE ret
    BY <1>1, <1>5
  <2> QED BY <1>2, <1>5, <2>1, <2>2, <2>3, <2>4, DeletesHand
<1> QED BY <1>4, <1>5

LEMMA RejectTrailingHands ==
  ASSUME OwnInv, HandInv, BoundsInv, RejectTrailing
  PROVE  HandInv' /\ BoundsInv'
<1>1. /\ ret # None /\ stack = <<>> /\ stack' = <<>> /\ ret' = None /\ Delete(ret)
  BY DEF OwnInv, PlaceInv, RejectTrailing
<1>2. ret \in Hands /\ DOMAIN stack = {} /\ DOMAIN stack' = {}
  BY <1>1, HandsAre
<1> QED BY <1>1, <1>2, DeletesHand

LEMMA LinkItemHands ==
  ASSUME OwnInv, HandInv, BoundsInv, LinkItem
  PROVE  HandInv' /\ BoundsInv'
<1> USE NoneIsNoNode
<1>1. /\ stack \in Seq(Frames) /\ stack # <<>> /\ ret # None /\ ret \in Link /\ ret' = None
      /\ UNCHANGED <<size, deleted, child, isRef>>
      /\ key' = [key EXCEPT ![ret] = Top.key]
  BY DEF OwnInv, PlaceInv, LinkItem
<1> DEFINE f == [Top EXCEPT !.head = IF @ = None THEN ret ELSE @, !.tail = ret]
<1>2. /\ f \in Frames /\ f.head = (IF Top.head = None THEN ret ELSE Top.head) /\ f.tail = ret
  BY <1>1, TopFacts DEF Frames
<1> HIDE DEF f
<1>3. /\ DOMAIN stack' = DOMAIN stack /\ stack'[Len(stack)] = f
      /\ \A i \in DOMAIN stack : i # Len(stack) => stack'[i] = stack[i]
      /\ Top = stack[Len(stack)] /\ Top \in Frames /\ Len(stack) \in DOMAIN stack
  <2>1. stack' = SetTop(f)
    BY DEF LinkItem, f
  <2> QED BY <1>1, <1>2, <2>1, SetTopFacts, TopFacts
<1>4. /\ Hands \subseteq Live /\ Live \subseteq NodeIds
      /\ next \in [NodeIds -> Link] /\ prev \in [NodeIds -> Link] /\ child \in [NodeIds -> Link]
      /\ \A h \in Hands : h \in Tree(next, child, h) /\ Tree(next, child, h) \subseteq Live
  BY GrownFacts DEF HandInv
<1>5. /\ ret \in Hands /\ next[ret] = None
      /\ \A i \in DOMAIN stack : stack[i].head # ret
      /\ \A i \in DOMAIN stack : i # Len(stack) /\ Top.head # None => stack[i].head # Top.head
      /\ Top.head # None => Top.head \in Hands
      /\ FrameInv(Top)
  BY <1>1, HandsAre, TopHand DEF HandInv, HandsApart
<1>6. Live' = Live /\ isRef' = NoRefs
  BY <1>1 DEF Live, InBounds, HandInv
<1>7. HandsApart'
  BY <1>1, <1>2, <1>3, <1>5 DEF HandInv, HandsApart
<1>8. CASE Top.head = None
  <2>1. Top.tail = None /\ f.head = ret /\ f.tail = ret
    BY <1>2, <1>5, <1>8 DEF FrameInv
  <2>2. next' = next /\ prev' = prev /\ child' = child
    BY <1>1, <2>1 DEF LinkItem, LinkAsNextSibling
  <2>3. Hands' = Hands
    <3>1. \A h : h \in Hands' => h = ret \/ \E i \in DOMAIN stack : stack[i].head # None /\ h = stack[i].head
      BY <1>1, <1>3, <2>1, HandsAreNext
    <3>2. ret \in Hands'
      BY <1>1, <1>3, <2>1, HandsAreNext
    <3>3. \A i \in DOMAIN stack : stack[i].head # None => stack[i].head \in Hands'
      BY <1>3, <1>8, HandsAreNext
    <3>4. \A h : h \in Hands <=> \/ h = ret
                                \/ \E i \in DOMAIN stack : stack[i].head # None /\ h = stack[i].head
      BY <1>1, HandsAre
    <3>5. \A h : h \in Hands' <=> h \in Hands
      BY <3>1, <3>2, <3>3, <3>4
    <3> QED BY <3>5
  <2>4. Grown(Live', next', prev', child', Hands')
    BY <1>6, <2>2, <2>3 DEF HandInv
  <2>5. \A i \in DOMAIN stack' : FrameInv(stack[i])'
    <3>1. ASSUME NEW i \in DOMAIN stack, i # Len(stack) PROVE FrameInv(stack[i])'
      BY <1>3, <2>2, <3>1 DEF HandInv, FrameInv
    <3>2. FrameInv(stack[Len(stack)])'
      BY <1>1, <1>3, <1>4, <1>5, <2>1, <2>2 DEF FrameInv
    <3> QED BY <1>3, <3>1, <3>2
  <2>6. HandInv'
    BY <1>1, <1>6, <1>7, <2>4, <2>5 DEF HandInv
  <2>7. BoundsInv'
    <3>1. Within(next', InBounds) /\ Within(prev', InBounds) /\ Within(child', InBounds)
      BY <2>2, BoundsInvIsWithin DEF BoundsInv
    <3>2. key' \in [NodeIds -> Keys \cup {None}]
      BY <1>1, <1>3 DEF BoundsInv, TypeOK, Frames
    <3> QED BY <1>1, <3>1, <3>2, RelinkBounds
  <2> QED BY <2>6, <2>7
<1>9. CASE Top.head # None
  <2> DEFINE h == Top.head
             t == Top.tail
  <2>1. /\ h \in Hands /\ h # ret /\ t \in Tree(next, child, h) /\ next[t] = None /\ t # None
        /\ t \in Live /\ f.head = h /\ f.tail = ret
    BY <1>2, <1>3, <1>4, <1>5, <1>9 DEF FrameInv
  <2>2. next' = [next EXCEPT ![t] = ret] /\ prev' = [prev EXCEPT ![ret] = t] /\ child' = child
    BY <1>1, <2>1 DEF LinkItem, LinkAsNextSibling
  <2> HIDE DEF h, t
  <2>3. /\ next' \in [NodeIds -> Link] /\ next'[t] = ret
        /\ \A m \in NodeIds \ {t} : next'[m] = next[m]
        /\ prev' \in [NodeIds -> Link] /\ prev'[ret] = t
        /\ \A m \in NodeIds \ {ret} : prev'[m] = prev[m]
    BY <1>1, <1>4, <1>5, <2>1, <2>2 DEF Link
  <2>4. /\ Grown(Live, next', prev', child, Hands \ {ret})
        /\ \A g \in Hands \ {h, ret} : Tree(next', child, g) = Tree(next, child, g)
        /\ ret \in Tree(next', child, h)
    <3>1. Grown(Live, next, prev, child, Hands)
      BY DEF HandInv
    <3>2. h \in Hands /\ ret \in Hands /\ h # ret /\ t \in Tree(next, child, h) /\ next[t] = None
      BY <1>5, <2>1
    <3> DEFINE nx2 == next'
               pv2 == prev'
    <3>3. /\ nx2 \in [NodeIds -> Link] /\ nx2[t] = ret
          /\ \A m \in NodeIds \ {t} : nx2[m] = next[m]
          /\ pv2 \in [NodeIds -> Link] /\ pv2[ret] = t
          /\ \A m \in NodeIds \ {ret} : pv2[m] = prev[m]
      BY <2>3
    <3> HIDE DEF nx2, pv2
    <3>4. /\ Grown(Live, nx2, pv2, child, Hands \ {ret})
          /\ \A g \in Hands \ {h, ret} : Tree(nx2, child, g) = Tree(next, child, g)
          /\ ret \in Tree(nx2, child, h)
      BY <3>1, <3>2, <3>3, JoinSafe
    <3> QED BY <3>4 DEF nx2, pv2
  <2>5. Hands' = Hands \ {ret}
    BY <1>1, <1>3, <1>5, <2>1, HandsAre, HandsAreNext DEF h
  <2>6. Grown(Live', next', prev', child', Hands')
    BY <1>6, <2>2, <2>4, <2>5
  <2>7. \A i \in DOMAIN stack' : FrameInv(stack[i])'
    <3>1. ASSUME NEW i \in DOMAIN stack, i # Len(stack) PROVE FrameInv(stack[i])'
      <4>1. /\ stack'[i] = stack[i] /\ FrameInv(stack[i])
            /\ stack[i].head # h /\ stack[i].head # ret
        BY <1>3, <1>5, <1>9, <3>1 DEF HandInv, h
      <4>2. CASE stack[i].head = None
        BY <4>1, <4>2 DEF FrameInv
      <4>3. CASE stack[i].head # None
        <5>1. stack[i].head \in Hands \ {h, ret}
          BY <4>1, <4>3, HandsAre
        <5>2. Tree(next', child, stack[i].head) = Tree(next, child, stack[i].head)
          BY <2>4, <5>1
        <5>3. stack[i].tail \in Tree(next, child, stack[i].head) /\ next[stack[i].tail] = None
          BY <4>1, <4>3 DEF FrameInv
        <5>4. t \notin Tree(next, child, stack[i].head)
          BY <2>1, <5>1 DEF HandInv, Grown
        <5>5. next'[stack[i].tail] = None
          BY <1>4, <2>3, <5>1, <5>3, <5>4
        <5> QED BY <2>2, <4>1, <4>3, <5>2, <5>3, <5>5 DEF FrameInv
      <4> QED BY <4>2, <4>3
    <3>2. FrameInv(stack[Len(stack)])'
      <4>1. next'[ret] = None
        <5>1. ret # t
          <6>1. ret \in Tree(next, child, ret) /\ Tree(next, child, ret) \cap Tree(next, child, h) = {}
            BY <1>4, <1>5, <2>1 DEF HandInv, Grown
          <6> QED BY <2>1, <6>1
        <5> QED BY <1>4, <1>5, <2>3, <5>1
      <4>2. h # None
        BY <1>9 DEF h
      <4> QED BY <1>1, <1>3, <2>1, <2>2, <2>4, <4>1, <4>2 DEF FrameInv
    <3> QED BY <1>3, <3>1, <3>2
  <2>8. HandInv'
    BY <1>1, <1>6, <1>7, <2>6, <2>7 DEF HandInv
  <2>9. BoundsInv'
    <3>1. Within(next, InBounds) /\ Within(prev, InBounds) /\ Within(child, InBounds)
      BY BoundsInvIsWithin DEF BoundsInv
    <3>2. ret \in InBounds /\ t \in InBounds
      BY <1>4, <1>5, <2>1 DEF Live
    <3>3. Within(next', InBounds) /\ Within(prev', InBounds) /\ Within(child', InBounds)
      BY <2>2, <3>1, <3>2 DEF Within
    <3>4. key' \in [NodeIds -> Keys \cup {None}]
      BY <1>1, <1>3 DEF BoundsInv, TypeOK, Frames
    <3> QED BY <1>1, <3>3, <3>4, RelinkBounds
  <2> QED BY <2>8, <2>9
<1> QED BY <1>8, <1>9

-----------------------------------------------------------------------------
(* The invariant holds. *)

LEMMA ParserInvInit == ParseInit => ParserInv
<1> SUFFICES ASSUME ParseInit PROVE ParserInv
  OBVIOUS
<1>1. Init /\ BoundsInv /\ TreeInv
  BY InitBounds, TreeInit DEF ParseInit
<1>2. /\ stack = <<>> /\ ret = None /\ pc = "start" /\ offset = 0 /\ depth = 0
      /\ requireEnd \in BOOLEAN /\ kind = [n \in NodeIds |-> None]
  BY DEF ParseInit
<1>3. input \in Seq(Tokens)
  BY InputsAssumption, TruncatedIsText DEF ParseInit
<1>4. OwnInv
  <2>1. Len(input) \in Nat /\ NestingLimit \in Nat
    BY <1>3, NestingLimitAssumption
  <2>2. kind \in [NodeIds -> Kinds]
    BY <1>2 DEF Kinds
  <2>3. stack \in Seq(Frames) /\ Len(stack) = 0
    BY <1>2
  <2> QED BY <1>2, <1>3, <2>1, <2>2, <2>3 DEF OwnInv, PlaceInv, Link
<1>5. Hands = {} /\ Live = {} /\ isRef = NoRefs
  BY <1>1, <1>2 DEF Hands, Live, InBounds, Init, NoRefs
<1>6. Grown(Live, next, prev, child, Hands)
  <2>1. Typed({}, NoRefs, next, prev, child) /\ Consistent({}, NoRefs, next, prev, child)
    BY <1>1, <1>5 DEF Init, Typed, Consistent, NoRefs, Link
  <2> QED BY <1>5, <2>1 DEF Grown, OneOwner, NoLoop
<1>7. HandInv
  BY <1>2, <1>5, <1>6 DEF HandInv, HandsApart
<1> QED BY <1>1, <1>4, <1>7, TextInvIsOwnInv DEF ParserInv

LEMMA HandStep ==
  ASSUME OwnInv, HandInv, BoundsInv, [ParseNext]_pvars
  PROVE  HandInv' /\ BoundsInv'
<1>1. CASE UNCHANGED <<vars, ret, stack>>
  BY <1>1, SameCalls
<1>2. CASE UNCHANGED pvars
  BY <1>2, SameCalls DEF pvars, parser
<1>3. CASE Begin \/ ParseNothing \/ MalformedMember \/ NextElement \/ ContinueLoop \/ ExpectedEnd
           \/ Reject \/ Accept
  BY <1>1, <1>3 DEF Begin, ParseNothing, MalformedMember, NextElement, ContinueLoop, ExpectedEnd,
                    Reject, Accept, Fails
<1>4. CASE ParseScalar
  BY <1>4, LeafHands DEF ParseScalar, OwnInv, PlaceInv
<1>5. ASSUME NEW container \in {"array", "object"},
             \/ TooDeep(container) \/ ParseEmpty(container)
             \/ ParseOpenEnded(container) \/ Enter(container)
      PROVE  HandInv' /\ BoundsInv'
  <2>1. CASE TooDeep(container) \/ ParseOpenEnded(container)
    BY <1>1, <2>1 DEF TooDeep, ParseOpenEnded, Fails
  <2>2. CASE ParseEmpty(container)
    <3>1. ret = None /\ stack' = stack /\ Returns(None, container)
      BY <2>2, OpensAtAValue DEF ParseEmpty, OwnInv, PlaceInv
    <3> QED BY <3>1, LeafHands
  <2> QED BY <1>5, <2>1, <2>2, EnterHands
<1> QED
  BY <1>2, <1>3, <1>4, <1>5, NextMemberHands, LinkItemHands, CloseContainerHands, AbandonHands,
     RejectTrailingHands DEF ParseNext

LEMMA ParserInvStep == ParserInv /\ [ParseNext]_pvars => ParserInv'
<1> SUFFICES ASSUME ParserInv, [ParseNext]_pvars PROVE ParserInv'
  OBVIOUS
<1>1. OwnInv /\ BoundsInv /\ HandInv
  BY TextInvIsOwnInv DEF ParserInv
<1>2. OwnInv'
  BY <1>1, OwnStep
<1>3. HandInv' /\ BoundsInv'
  BY <1>1, HandStep
<1>4. (OwnInv /\ BoundsInv)' => TextInv'
  BY DEF TextInv, OwnInv, ParserTypeOK, BoundsInv, OffsetInText, Frames, Kinds
<1> QED BY <1>2, <1>3, <1>4 DEF ParserInv

LEMMA ParserInvAlways == ParseSpec => []ParserInv
BY ParserInvInit, ParserInvStep, PTL DEF ParseSpec

LEMMA HandsMean ==
  ASSUME ParserInv
  PROVE  /\ LinksConsistent /\ SingleOwner /\ Acyclic
         /\ EveryNodeInOneHand
         /\ NothingLeftBehind
<1> USE NoneIsNoNode
<1>1. OwnInv /\ HandInv /\ TypeOK
  BY TextInvIsOwnInv DEF ParserInv, TextInv, BoundsInv
<1>2. /\ Live \subseteq NodeIds /\ Hands \subseteq Live /\ isRef = NoRefs
      /\ next \in [NodeIds -> Link] /\ child \in [NodeIds -> Link]
      /\ \A n \in Live : /\ next[n] \in Live \cup {None} /\ child[n] \in Live \cup {None}
                         /\ prev[n] \in Live \cup {None}
      /\ \A n \in NodeIds \ Live : next[n] = None /\ prev[n] = None /\ child[n] = None
      /\ \A m, n \in Live : next[m] = n <=> prev[n] = m
      /\ \A h \in Hands : h \in Tree(next, child, h) /\ Tree(next, child, h) \subseteq Live
      /\ \A h \in Hands : \A m \in Live : next[m] # h /\ child[m] # h
  BY <1>1, GrownFacts DEF HandInv
<1>3. LinksConsistent
  BY <1>2 DEF LinksConsistent
<1>4. SingleOwner
  BY <1>1, <1>2 DEF HandInv, Grown, OneOwner, SingleOwner
<1>5. Acyclic
  BY <1>1, <1>2 DEF HandInv, Grown, NoLoop, Acyclic, Into
<1>6. \A h \in Hands : Owned(next, child, h) = Tree(next, child, h)
  <2> SUFFICES ASSUME NEW h \in Hands PROVE Owned(next, child, h) = Tree(next, child, h)
    OBVIOUS
  <2>1. h \in NodeIds /\ Tree(next, child, h) \cap deleted = {}
    BY <1>2 DEF Live
  <2> QED BY <1>2, <2>1, OwnedIsTree
<1>7. EveryNodeInOneHand
  BY <1>1, <1>6 DEF HandInv, Grown, EveryNodeInOneHand
<1>8. NothingLeftBehind
  <2>1. ASSUME pc \in {"accepted", "rejected"} PROVE depth = 0 /\ stack = <<>>
    BY <1>1, <2>1 DEF OwnInv, PlaceInv
  <2>2. ASSUME pc = "rejected" PROVE Live = {}
    <3>1. ret = None /\ stack = <<>>
      BY <1>1, <2>1, <2>2 DEF OwnInv, PlaceInv
    <3>2. Hands = {}
      BY <3>1, HandsAre
    <3> QED BY <1>1, <3>2 DEF HandInv, Grown
  <2>3. ASSUME pc = "accepted" PROVE {n \in Live : Held(n)} = {ret}
    <3>1. ret # None /\ stack = <<>>
      BY <1>1, <2>1, <2>3 DEF OwnInv, PlaceInv
    <3>2. ret \in Hands /\ \A h \in Hands : h = ret
      BY <3>1, HandsAre
    <3>3. Held(ret)
      BY <1>2, <3>2 DEF Held, Holds
    <3>4. ASSUME NEW n \in Live, n # ret PROVE ~Held(n)
      <4> SUFFICES ASSUME Held(n) PROVE FALSE
        OBVIOUS
      <4>1. n \in Tree(next, child, ret) /\ ret \in NodeIds
        BY <1>1, <1>2, <3>2 DEF HandInv, Grown
      <4> DEFINE S == Live \ {n}
      <4>2. \A m \in Live : next[m] # n /\ child[m] # n
        BY <1>2 DEF Held, Holds, NoRefs
      <4>3. S \in SUBSET NodeIds /\ ret \in S
            /\ \A m \in S : next[m] \in S \cup {None} /\ child[m] \in S \cup {None}
        BY <1>2, <3>2, <3>4, <4>2
      <4>4. n \notin S
        OBVIOUS
      <4> HIDE DEF S
      <4>5. Tree(next, child, ret) \subseteq S
        BY <4>3, TreeLeast
      <4> QED BY <4>1, <4>4, <4>5
    <3> QED BY <1>2, <3>2, <3>3, <3>4
  <2> QED BY <2>1, <2>2, <2>3 DEF NothingLeftBehind
<1> QED BY <1>3, <1>4, <1>5, <1>7, <1>8

\* What is left when the call is over is a state that the operations of
\* ArenaTrees may go on from: their inductive invariant holds in it.
LEMMA ParseEndsInATree == ASSUME ParserInv, pc \in {"accepted", "rejected"} PROVE TreeInv
<1> USE NoneIsNoNode
<1>1. OwnInv /\ HandInv /\ BoundsInv /\ stack = <<>>
  BY TextInvIsOwnInv DEF ParserInv, TextInv, OwnInv, PlaceInv
<1>2. /\ Live \subseteq NodeIds /\ isRef = NoRefs
      /\ \A n \in Live : prev[n] \in Live \cup {None}
      /\ \A m, n \in Live : next[m] = n <=> prev[n] = m
  BY <1>1, GrownFacts DEF HandInv
<1>3. NothingLeftBehind
  BY HandsMean
<1>4. Alone(Live, NoRefs, next, prev, child)
  <2> SUFFICES ASSUME NEW n \in Live, Unheld(Live, NoRefs, next, child, n)
               PROVE  next[n] = None /\ prev[n] = None
    BY DEF Alone
  <2>1. Held(n)
    BY <1>2 DEF Held, Holds, Unheld
  <2>2. n = ret /\ pc = "accepted"
    BY <1>3, <2>1 DEF NothingLeftBehind
  <2>3. next[n] = None
    BY <1>1, <1>2, <2>2 DEF HandInv
  <2>4. prev[n] = None
    BY <1>2 DEF Unheld
  <2> QED BY <2>3, <2>4
<1> QED BY <1>1, <1>2, <1>4 DEF TreeInv, Sound, HandInv, Grown

\* Every variable of a parse keeps its type, and depth is the number of calls
\* under way: it is given back on every way out of a call, for every text.
THEOREM ParserTypes == ParseSpec => []ParserTypeOK
<1>1. ParserInv => ParserTypeOK
  BY DEF ParserInv, TextInv
<1> QED BY <1>1, ParserInvAlways, PTL

\* current_offset never leaves the text, whatever the text is: no step back
\* passes its start and no skip its end.
THEOREM OffsetStaysInText == ParseSpec => []OffsetInText
<1>1. ParserInv => OffsetInText
  BY DEF ParserInv, TextInv
<1> QED BY <1>1, ParserInvAlways, PTL

\* While the parser works, every live node hangs below the node just returned or
\* in the list of exactly one call under way: delete of one list never reaches
\* into another, and no node is out of everyone's reach.
THEOREM NodesInOneHand == ParseSpec => []EveryNodeInOneHand
BY HandsMean, ParserInvAlways, PTL

\* A parse that fails, wherever it fails, leaves no live node and no depth behind;
\* one that succeeds leaves one tree.
THEOREM ParseLeavesNothing == ParseSpec => []NothingLeftBehind
BY HandsMean, ParserInvAlways, PTL

\* Lists under construction read the same in both directions at every step, though
\* their heads are already linked to siblings while no parent is there.
THEOREM ParserLinksConsistent == ParseSpec => []LinksConsistent
BY HandsMean, ParserInvAlways, PTL

\* No link the parser stores is out of bounds: get never panics in it.
THEOREM ParserLinksInBounds == ParseSpec => []LinksInBounds
<1>1. ParserInv => LinksInBounds
  BY DEF ParserInv, TextInv, BoundsInv
<1> QED BY <1>1, ParserInvAlways, PTL

\* A finished parse leaves an arena in which the inductive invariant of ArenaTrees
\* holds, so every theorem about its operations holds for what is done next.
THEOREM ParseEndsWellFormed == ParseSpec => [](pc \in {"accepted", "rejected"} => TreeInv)
<1>1. ParserInv => (pc \in {"accepted", "rejected"} => TreeInv)
  BY ParseEndsInATree
<1> QED BY <1>1, ParserInvAlways, PTL

-----------------------------------------------------------------------------
(* The grammar, read from left to right. *)

Containers == {"array", "object"}
CommaAt(o) == Reads(o, ",")
ColonAt(o) == Reads(o, ":")
OpensAt(c, o) == Reads(o, Opening(c))
ClosesAt(c, o) == Reads(o, Closing(c))
StartsAt(o) == ReadsScalar(o) \/ ReadsString(o) \/ \E c \in Containers : OpensAt(c, o)

\* No token is another.
LEMMA TokensApart ==
  ASSUME NEW o
  PROVE  /\ IsBlank(o) => ~StartsAt(o) /\ ~CommaAt(o) /\ ~ColonAt(o)
         /\ \A c \in Containers : ClosesAt(c, o) => ~StartsAt(o) /\ ~CommaAt(o) /\ ~IsBlank(o)
         /\ \A c, b \in Containers : OpensAt(c, o) /\ OpensAt(b, o) => c = b
         /\ \A c \in Containers : OpensAt(c, o) => ~ReadsScalar(o) /\ ~ReadsString(o)
<1> DEFINE Points == {"[", "]", "{", "}", ",", ":"}
<1>1. /\ \A c \in Containers : Opening(c) \in Points /\ Closing(c) \in Points
      /\ \A c, b \in Containers : Opening(c) # Closing(b) /\ Closing(c) # "," /\ Opening(c) # ","
      /\ \A c, b \in Containers : Opening(c) = Opening(b) => c = b
  <2>1. /\ Opening("array") = "[" /\ Opening("object") = "{"
        /\ Closing("array") = "]" /\ Closing("object") = "}"
    BY Zenon DEF Opening, Closing
  <2>2. /\ "[" # "{" /\ "]" # "," /\ "}" # "," /\ "[" # "," /\ "{" # ","
        /\ "[" # "]" /\ "[" # "}" /\ "{" # "]" /\ "{" # "}"
    BY Zenon
  <2> QED BY Zenon, <2>1, <2>2 DEF Containers
<1>2. /\ "," \in Points /\ ":" \in Points
      /\ \A t \in Points : t \notin Keys /\ t \notin Scalars /\ t # Blank /\ t # Nul
  <2>1. \A t \in Points : t \in Marks
    BY Zenon DEF Marks
  <2>2. \A t \in Points : t # "scalar" /\ t # "1e999" /\ t # "blank" /\ t # "NUL"
    BY Zenon
  <2>3. \A t \in Points : t \notin Scalars /\ t # Blank /\ t # Nul
    BY Zenon, <2>2 DEF Scalars, Scalar, Huge, Blank, Nul
  <2>4. \A t \in Marks : t \notin Keys
    BY Zenon, KeysAssumption
  <2>5. "," \in Points /\ ":" \in Points
    BY Zenon
  <2> HIDE DEF Points
  <2> QED BY <2>1, <2>3, <2>4, <2>5
<1>3. \A k \in Keys \cup Scalars : k # Blank /\ k # Nul
  <2>1. Blank \in Marks /\ Nul \in Marks /\ Blank \notin Scalars /\ Nul \notin Scalars
    BY DEF Marks, Blank, Nul, Scalars, Scalar, Huge
  <2> QED BY Zenon, <2>1, KeysAssumption
<1> HIDE DEF Points
<1>4. PICK comma, colon : comma = "," /\ colon = ":"
  BY Zenon
<1>5. \A t : Reads(o, t) <=> o < Len(input) /\ input[o + 1] = t
  BY DEF Reads
<1>6. /\ CommaAt(o) <=> Reads(o, comma)
      /\ ColonAt(o) <=> Reads(o, colon)
      /\ \A c : ClosesAt(c, o) <=> Reads(o, Closing(c))
      /\ \A c : OpensAt(c, o) <=> Reads(o, Opening(c))
  BY Zenon, <1>4 DEF CommaAt, ColonAt, OpensAt, ClosesAt
<1>7. /\ comma \in Points /\ colon \in Points
      /\ \A c \in Containers : Closing(c) # comma /\ Opening(c) # comma
  BY Zenon, <1>1, <1>2, <1>4
<1>8. IsBlank(o) <=> Reads(o, Blank) \/ Reads(o, Nul)
  BY DEF IsBlank
<1>9. \A t \in Points : t \notin Keys /\ t \notin Scalars /\ t # Blank /\ t # Nul
  BY Zenon, <1>2
<1>10. /\ \A c \in Containers : Opening(c) \in Points /\ Closing(c) \in Points
       /\ \A c, b \in Containers : Opening(c) # Closing(b)
       /\ \A c, b \in Containers : Opening(c) = Opening(b) => c = b
  BY Zenon, <1>1
<1> QED BY <1>3, <1>5, <1>6, <1>7, <1>8, <1>9, <1>10 DEF StartsAt, ReadsScalar, ReadsString

\* Behind some blanks there is one place that is not blank.
LEMMA BlanksEnd ==
  ASSUME input \in Seq(Tokens), NEW p \in Int, NEW e \in AfterBlanks(p)
  PROVE  /\ e \in Int /\ p <= e /\ e <= Len(input) /\ BlankSpan(p, e) /\ ~IsBlank(e)
         /\ \A q \in Int : p <= q /\ BlankSpan(p, q) /\ ~IsBlank(q) => q = e
         /\ \A q \in Int : q <= e => BlankSpan(p, q)
         /\ \A q \in Int : e < q => ~BlankSpan(p, q)
BY DEF AfterBlanks, BlankSpan

LEMMA BlanksGoOn ==
  ASSUME input \in Seq(Tokens), NEW p \in Int, NEW o \in Int, p <= o, BlankSpan(p, o),
         NEW e \in AfterBlanks(o)
  PROVE  e \in AfterBlanks(p)
BY DEF AfterBlanks, BlankSpan

ValueEnds(V, a, e) == \A q : <<a, q>> \in V <=> q = e
Dead(V, a) == \A q : <<a, q>> \notin V

\* The values of up to each number of nested containers.
Graded(U) ==
  /\ U[0] = Simple
  /\ \A d \in Nat : U[d + 1] = Simple \cup Compound(U[d])

\* What every set of values here has: a value is a span, and begins with no blank
\* and no mark of punctuation.
Begins(V) ==
  \A s \in V : /\ s \in Int \X Int /\ s = <<s[1], s[2]>>
               /\ 0 <= s[1] /\ s[1] < s[2] /\ s[2] <= Len(input)
               /\ StartsAt(s[1])

LEMMA SpansAre ==
  ASSUME input \in Seq(Tokens), NEW s \in Spans
  PROVE  /\ s \in Int \X Int /\ s = <<s[1], s[2]>>
         /\ 0 <= s[1] /\ s[1] < s[2] /\ s[2] <= Len(input)
BY DEF Spans

LEMMA GradedBegins ==
  ASSUME input \in Seq(Tokens), NEW U, Graded(U), NEW d \in Nat
  PROVE  Begins(U[d])
<1>1. ASSUME NEW s \in Simple PROVE s \in Spans /\ StartsAt(s[1])
  BY Zenon DEF Simple, StartsAt
<1>2. ASSUME NEW V, NEW s \in Compound(V) PROVE s \in Spans /\ StartsAt(s[1])
  BY Zenon DEF Compound, Wrapped, OpensAt, StartsAt, Containers
<1>3. U[d] = Simple \/ \E V : U[d] = Simple \cup Compound(V)
  <2>1. d = 0 \/ (d - 1 \in Nat /\ (d - 1) + 1 = d)
    OBVIOUS
  <2> QED BY <2>1 DEF Graded
<1>4. \A s \in U[d] : s \in Spans /\ StartsAt(s[1])
  BY <1>1, <1>2, <1>3
<1>5. \A s \in Spans : /\ s \in Int \X Int /\ s = <<s[1], s[2]>>
                       /\ 0 <= s[1] /\ s[1] < s[2] /\ s[2] <= Len(input)
  BY SpansAre
<1> QED BY Zenon, <1>4, <1>5 DEF Begins

\* The parts of a list are not empty.
LEMMA PartsAreLong ==
  ASSUME input \in Seq(Tokens), NEW V, Begins(V), NEW c \in Containers, NEW p \in Int, NEW q \in Int,
         Part(c, V, p, q)
  PROVE  p < q
<1>1. ASSUME NEW f \in Int, Element(V, f, q) PROVE f < q
  BY <1>1 DEF Element, Begins
<1>2. CASE c = "array"
  BY <1>1, <1>2 DEF Part
<1>3. CASE c # "array"
  <2>1. Member(V, p, q)
    BY <1>3 DEF Part
  <2>2. PICK colon \in p .. q - 1 : Element(V, colon + 1, q)
    BY <2>1 DEF Member
  <2> QED BY <1>1, <2>2
<1> QED BY <1>2, <1>3

\* A list is one part, or a part, a comma and a list.
LEMMA ListSplits ==
  ASSUME input \in Seq(Tokens), NEW V, Begins(V), NEW c \in Containers, NEW p \in Int, NEW q \in Int
  PROVE  ListOf(c, V, p, q) <=>
           \/ Part(c, V, p, q)
           \/ \E m \in p .. q - 1 :
                CommaAt(m) /\ Part(c, V, p, m) /\ ListOf(c, V, m + 1, q)
<1> DEFINE AComma(x, f) == x \in Int /\ f <= x /\ x < q /\ CommaAt(x)
           NextTo(cuts, x, y) == /\ y \in cuts \/ y = q
                                 /\ y > x /\ \A other \in cuts : other <= x \/ other >= y
                                 /\ Part(c, V, x + 1, y)
           Cut(f, cuts) == \A x : x \in cuts \/ x = f - 1 => \E y : NextTo(cuts, x, y)
<1>1. ASSUME NEW f \in Int
      PROVE  ListOf(c, V, f, q) <=> \E cuts : (\A x \in cuts : AComma(x, f)) /\ Cut(f, cuts)
  <2> DEFINE Commas == {m \in f .. q - 1 : CommaAt(m)}
  <2>1. ListOf(c, V, f, q) <=> \E cuts \in SUBSET Commas : Cut(f, cuts)
    BY Zenon DEF ListOf, CommaAt
  <2>2. \A x : x \in Commas <=> AComma(x, f)
    OBVIOUS
  <2> HIDE DEF Commas, AComma, Cut
  <2>3. \A cuts : cuts \in SUBSET Commas <=> \A x \in cuts : AComma(x, f)
    BY <2>2
  <2> QED BY <2>1, <2>3
<1>2. ASSUME NEW cuts, \A x \in cuts : AComma(x, p), Cut(p, cuts)
      PROVE  \/ Part(c, V, p, q)
             \/ \E m \in p .. q - 1 :
                  CommaAt(m) /\ Part(c, V, p, m) /\ ListOf(c, V, m + 1, q)
  <2>1. PICK y : NextTo(cuts, p - 1, y)
    BY <1>2
  <2>2. (p - 1) + 1 = p
    OBVIOUS
  <2>3. CASE y = q
    BY <2>1, <2>2, <2>3
  <2>4. CASE y # q
    <3>1. y \in cuts /\ y \in p .. q - 1 /\ y \in Int /\ CommaAt(y) /\ Part(c, V, p, y)
      BY <1>2, <2>1, <2>2, <2>4
    <3>2. PICK rest : rest = {x \in cuts : x > y}
      OBVIOUS
    <3>3. \A x \in rest : AComma(x, y + 1)
      BY <1>2, <3>1, <3>2
    <3>4. Cut(y + 1, rest)
      <4> SUFFICES ASSUME NEW x, x \in rest \/ x = (y + 1) - 1 PROVE \E z : NextTo(rest, x, z)
        OBVIOUS
      <4>1. x \in cuts /\ x \in Int /\ x >= y
        <5>1. \A w \in rest : w \in cuts /\ w \in Int /\ w > y
          BY <1>2, <3>2
        <5>2. (y + 1) - 1 = y
          BY <3>1
        <5> QED BY <3>1, <5>1, <5>2
      <4>2. PICK z : NextTo(cuts, x, z)
        BY <1>2, <4>1
      <4>3. z \in rest \/ z = q
        <5>1. z > y
          <6>1. z \in Int
            BY <1>2, <4>2
          <6> QED BY <3>1, <4>1, <4>2, <6>1
        <5> QED BY <3>2, <4>2, <5>1
      <4>4. \A other \in rest : other \in cuts
        BY <3>2
      <4> QED BY <4>2, <4>3, <4>4
    <3>5. ListOf(c, V, y + 1, q)
      <4>1. y + 1 \in Int
        BY <3>1
      <4> HIDE DEF AComma, Cut
      <4> QED BY <1>1, <3>3, <3>4, <4>1
    <3> QED BY <3>1, <3>5
  <2> QED BY <2>3, <2>4
<1>3. ASSUME Part(c, V, p, q) PROVE ListOf(c, V, p, q)
  <2>1. p < q
    BY <1>3, PartsAreLong
  <2>2. (p - 1) + 1 = p /\ q > p - 1
    BY <2>1
  <2>3. Cut(p, {})
    BY <1>3, <2>2
  <2>4. \A x \in {} : AComma(x, p)
    OBVIOUS
  <2> HIDE DEF AComma, Cut
  <2> QED BY <1>1, <2>3, <2>4
<1>4. ASSUME NEW m \in Int, p <= m, m < q, CommaAt(m), Part(c, V, p, m), ListOf(c, V, m + 1, q)
      PROVE  ListOf(c, V, p, q)
  <2>1. PICK rest : (\A x \in rest : AComma(x, m + 1)) /\ Cut(m + 1, rest)
    <3>1. m + 1 \in Int
      OBVIOUS
    <3> HIDE DEF AComma, Cut
    <3> QED BY <1>1, <1>4, <3>1
  <2>2. PICK cuts : cuts = {m} \cup rest
    OBVIOUS
  <2>3. \A x \in cuts : AComma(x, p)
    BY <1>4, <2>1, <2>2
  <2>4. Cut(p, cuts)
    <3> SUFFICES ASSUME NEW x, x \in cuts \/ x = p - 1 PROVE \E z : NextTo(cuts, x, z)
      OBVIOUS
    <3>1. CASE x = p - 1
      <4>1. (p - 1) + 1 = p /\ m \in Int /\ m > p - 1 /\ \A other \in rest : other >= m
        BY <1>4, <2>1
      <4>2. m \in cuts /\ \A other \in cuts : other >= m
        BY <2>2, <4>1
      <4> QED BY <1>4, <3>1, <4>1, <4>2
    <3>2. CASE x # p - 1
      <4>1. (x \in rest \/ x = (m + 1) - 1) /\ x >= m /\ x \in Int
        BY <2>1, <2>2, <3>2
      <4>2. PICK z : NextTo(rest, x, z)
        BY <2>1, <4>1
      <4>3. (z \in cuts \/ z = q) /\ \A other \in cuts : other <= x \/ other >= z
        BY <2>2, <4>1, <4>2
      <4> QED BY <4>2, <4>3
    <3> QED BY <3>1, <3>2
  <2>5. p \in Int
    OBVIOUS
  <2> HIDE DEF AComma, Cut
  <2> QED BY <1>1, <2>3, <2>4, <2>5
<1>5. ListOf(c, V, p, q) => \E cuts : (\A x \in cuts : AComma(x, p)) /\ Cut(p, cuts)
  <2> HIDE DEF AComma, Cut
  <2> QED BY <1>1
<1> HIDE DEF AComma, Cut
<1> QED BY <1>2, <1>3, <1>4, <1>5

\* The parts of a list that begin at p are the values that begin at v, and blanks.
Awaits(V, c, p, v) ==
  \A q \in Int : Part(c, V, p, q) <=> \E e \in Int : <<v, e>> \in V /\ e <= q /\ BlankSpan(e, q)

\* The values that begin at a are lists of parts from p on, and a bracket.
Listing(V, W, c, a, p) ==
  \A e \in Int : <<a, e>> \in V <=> ClosesAt(c, e - 1) /\ ListOf(c, W, p, e - 1)

\* The parts that begin at p end from r to o.
Past(V, c, p, r, o) == \A q \in Int : Part(c, V, p, q) <=> r <= q /\ q <= o

LEMMA ElementsAwaited ==
  ASSUME input \in Seq(Tokens), NEW V, Begins(V), NEW p \in Int, NEW v \in AfterBlanks(p)
  PROVE  \A q \in Int : Element(V, p, q) <=> \E e \in Int : <<v, e>> \in V /\ e <= q /\ BlankSpan(e, q)
<1>1. /\ v \in Int /\ p <= v /\ BlankSpan(p, v)
      /\ \A o \in Int : p <= o /\ BlankSpan(p, o) /\ ~IsBlank(o) => o = v
  BY BlanksEnd
<1>2. \A s \in V : s[1] \in Int /\ s[2] \in Int /\ s = <<s[1], s[2]>> /\ ~IsBlank(s[1])
  BY TokensApart DEF Begins
<1> SUFFICES ASSUME NEW q \in Int
             PROVE  Element(V, p, q) <=> \E e \in Int : <<v, e>> \in V /\ e <= q /\ BlankSpan(e, q)
  OBVIOUS
<1>3. ASSUME Element(V, p, q) PROVE \E e \in Int : <<v, e>> \in V /\ e <= q /\ BlankSpan(e, q)
  <2>1. PICK s \in V : p <= s[1] /\ s[2] <= q /\ BlankSpan(p, s[1]) /\ BlankSpan(s[2], q)
    BY <1>3 DEF Element
  <2>2. s[1] = v
    BY <1>1, <1>2, <2>1
  <2> QED BY <1>2, <2>1, <2>2
<1>4. ASSUME NEW e \in Int, <<v, e>> \in V, e <= q, BlankSpan(e, q) PROVE Element(V, p, q)
  BY <1>1, <1>4 DEF Element
<1> QED BY <1>3, <1>4

LEMMA MembersAwaited ==
  ASSUME input \in Seq(Tokens), NEW V, Begins(V), NEW p \in Int,
         NEW name \in AfterBlanks(p), ReadsString(name),
         NEW colon \in AfterBlanks(name + 1), ColonAt(colon),
         NEW v \in AfterBlanks(colon + 1)
  PROVE  Awaits(V, "object", p, v)
<1>1. /\ name \in Int /\ p <= name /\ BlankSpan(p, name)
      /\ \A o \in Int : p <= o /\ BlankSpan(p, o) /\ ~IsBlank(o) => o = name
  BY BlanksEnd
<1>2. name + 1 \in Int
  BY <1>1
<1>3. /\ colon \in Int /\ name + 1 <= colon /\ BlankSpan(name + 1, colon)
      /\ \A o \in Int : name + 1 <= o /\ BlankSpan(name + 1, o) /\ ~IsBlank(o) => o = colon
  BY <1>2, BlanksEnd
<1>4. colon + 1 \in Int
  BY <1>3
<1>5. \A q \in Int : Element(V, colon + 1, q) <=>
        \E e \in Int : <<v, e>> \in V /\ e <= q /\ BlankSpan(e, q)
  BY <1>4, ElementsAwaited
<1>6. \A o : ReadsString(o) => ~IsBlank(o)
  BY TokensApart DEF StartsAt
<1>7. \A o : ColonAt(o) => ~IsBlank(o)
  BY TokensApart
<1> SUFFICES ASSUME NEW q \in Int PROVE Member(V, p, q) <=> Element(V, colon + 1, q)
  <2>1. "object" # "array"
    OBVIOUS
  <2>2. \A q \in Int : Part("object", V, p, q) <=> Member(V, p, q)
    BY <2>1 DEF Part
  <2> QED BY <1>5, <2>2 DEF Awaits
<1>8. Member(V, p, q) <=> \E n, l \in p .. q - 1 :
         /\ n < l /\ ReadsString(n) /\ ColonAt(l) /\ BlankSpan(p, n) /\ BlankSpan(n + 1, l)
         /\ Element(V, l + 1, q)
  BY Zenon DEF Member, ColonAt
<1>9. ASSUME NEW n \in p .. q - 1, NEW l \in p .. q - 1,
             n < l, ReadsString(n), ColonAt(l), BlankSpan(p, n), BlankSpan(n + 1, l),
             Element(V, l + 1, q)
      PROVE  Element(V, colon + 1, q)
  <2>1. n \in Int /\ l \in Int /\ p <= n /\ n + 1 <= l
    BY <1>9
  <2>2. n = name
    BY <1>1, <1>6, <1>9, <2>1
  <2>3. l = colon
    BY <1>3, <1>7, <1>9, <2>1, <2>2
  <2> QED BY <1>9, <2>3
<1>10. ASSUME Element(V, colon + 1, q)
       PROVE  name \in p .. q - 1 /\ colon \in p .. q - 1 /\ name < colon
  <2>1. colon + 1 <= q
    BY <1>4, <1>10 DEF Element, Begins
  <2> QED BY <1>1, <1>3, <2>1
<1> QED BY <1>1, <1>3, <1>8, <1>9, <1>10

\* Without a string for a key, or a colon behind it, nothing is a member.
LEMMA NoMember ==
  ASSUME input \in Seq(Tokens), NEW V, NEW p \in Int,
         NEW name \in AfterBlanks(p),
         \/ ~ReadsString(name)
         \/ \E colon \in AfterBlanks(name + 1) : ~ColonAt(colon)
  PROVE  \A q \in Int : ~Part("object", V, p, q)
<1>1. /\ name \in Int /\ p <= name /\ BlankSpan(p, name)
      /\ \A o \in Int : p <= o /\ BlankSpan(p, o) /\ ~IsBlank(o) => o = name
  BY BlanksEnd
<1>2. name + 1 \in Int
  BY <1>1
<1>3. \A o : ReadsString(o) => ~IsBlank(o)
  BY TokensApart DEF StartsAt
<1>4. \A o : ColonAt(o) => ~IsBlank(o)
  BY TokensApart
<1> SUFFICES ASSUME NEW q \in Int, Part("object", V, p, q) PROVE FALSE
  OBVIOUS
<1>5. Member(V, p, q)
  <2>1. "object" # "array"
    OBVIOUS
  <2> QED BY <2>1 DEF Part
<1>6. PICK n \in p .. q - 1, l \in p .. q - 1 :
         n < l /\ ReadsString(n) /\ ColonAt(l) /\ BlankSpan(p, n) /\ BlankSpan(n + 1, l)
  BY Zenon, <1>5 DEF Member, ColonAt
<1>7. n \in Int /\ l \in Int /\ p <= n /\ n + 1 <= l
  BY <1>6
<1>8. n = name
  BY <1>1, <1>3, <1>6, <1>7
<1>9. PICK colon \in AfterBlanks(name + 1) : ~ColonAt(colon)
  BY <1>6, <1>8
<1>10. \A o \in Int : name + 1 <= o /\ BlankSpan(name + 1, o) /\ ~IsBlank(o) => o = colon
  BY <1>2, BlanksEnd
<1>11. l = colon
  BY <1>4, <1>6, <1>7, <1>8, <1>10
<1> QED BY <1>6, <1>9, <1>11

LEMMA PartsEnd ==
  ASSUME input \in Seq(Tokens), NEW V, NEW c, NEW p, NEW v, NEW r \in Int, NEW o \in AfterBlanks(r),
         Awaits(V, c, p, v), ValueEnds(V, v, r)
  PROVE  Past(V, c, p, r, o)
<1>1. /\ o \in Int
      /\ \A q \in Int : q <= o => BlankSpan(r, q)
      /\ \A q \in Int : o < q => ~BlankSpan(r, q)
  BY BlanksEnd
<1>2. \A q \in Int : Part(c, V, p, q) <=> r <= q /\ BlankSpan(r, q)
  <2>1. \A e \in Int : <<v, e>> \in V <=> e = r
    BY DEF ValueEnds
  <2>2. \A q \in Int : Part(c, V, p, q) <=> \E e \in Int : e = r /\ e <= q /\ BlankSpan(e, q)
    BY Zenon, <2>1 DEF Awaits
  <2> QED BY <2>2
<1> QED BY <1>1, <1>2 DEF Past

\* Where the list goes on or ends, as the place behind a part tells.
LEMMA ListGoesOn ==
  ASSUME input \in Seq(Tokens), NEW W, Begins(W), NEW V, NEW c \in Containers,
         NEW a, NEW p \in Int, NEW r \in Int, NEW o \in AfterBlanks(r),
         Listing(V, W, c, a, p), Past(W, c, p, r, o),
         \A e : <<a, e>> \in V => e \in Int
  PROVE  /\ CommaAt(o) => Listing(V, W, c, a, o + 1)
         /\ ClosesAt(c, o) => ValueEnds(V, a, o + 1)
         /\ ~CommaAt(o) /\ ~ClosesAt(c, o) => Dead(V, a)
<1>1. o \in Int /\ r <= o /\ \A q \in Int : r <= q /\ q <= o /\ ~IsBlank(q) => q = o
  BY BlanksEnd DEF BlankSpan
<1>2. p < r
  BY <1>1, PartsAreLong DEF Past
<1>3. \A q : ClosesAt(c, q) \/ CommaAt(q) => ~IsBlank(q)
  BY TokensApart
<1>4. \A q : ClosesAt(c, q) => ~CommaAt(q)
  BY TokensApart
<1>5. ASSUME NEW q \in Int, ClosesAt(c, q)
      PROVE  ListOf(c, W, p, q) <=> q = o \/ (CommaAt(o) /\ o < q /\ ListOf(c, W, o + 1, q))
  <2>1. ListOf(c, W, p, q) <=>
          \/ Part(c, W, p, q)
          \/ \E m \in p .. q - 1 : CommaAt(m) /\ Part(c, W, p, m) /\ ListOf(c, W, m + 1, q)
    BY ListSplits
  <2>2. Part(c, W, p, q) <=> q = o
    BY <1>1, <1>3, <1>5 DEF Past
  <2>3. \A m \in p .. q - 1 : CommaAt(m) /\ Part(c, W, p, m) <=> m = o /\ CommaAt(o)
    BY <1>1, <1>3 DEF Past
  <2>4. o < q <=> o \in p .. q - 1
    BY <1>2, <1>1
  <2> QED BY <1>1, <2>1, <2>2, <2>3, <2>4
<1>6. ASSUME NEW q \in Int, ListOf(c, W, o + 1, q) PROVE o < q
  <2>1. o + 1 \in Int
    BY <1>1
  <2>2. \/ Part(c, W, o + 1, q)
        \/ \E m \in o + 1 .. q - 1 : CommaAt(m)
    BY <1>6, <2>1, ListSplits
  <2>3. Part(c, W, o + 1, q) => o + 1 < q
    BY <2>1, PartsAreLong
  <2> QED BY <1>1, <2>2, <2>3
<1>7. \A e \in Int : e - 1 \in Int
  OBVIOUS
<1>8. \A e \in Int : e - 1 = o <=> e = o + 1
  BY <1>1
<1>9. CASE CommaAt(o)
  <2>1. \A q \in Int : ClosesAt(c, q) => (ListOf(c, W, p, q) <=> ListOf(c, W, o + 1, q))
    BY <1>4, <1>5, <1>6, <1>9
  <2> QED BY <1>4, <1>7, <1>9, <2>1 DEF Listing
<1>10. CASE ClosesAt(c, o)
  <2>1. \A q \in Int : ClosesAt(c, q) => (ListOf(c, W, p, q) <=> q = o)
    BY <1>4, <1>5, <1>10
  <2>2. \A e \in Int : <<a, e>> \in V <=> e = o + 1
    BY <1>1, <1>7, <1>8, <1>10, <2>1 DEF Listing
  <2> QED BY <1>1, <1>4, <1>10, <2>2 DEF ValueEnds
<1>11. CASE ~CommaAt(o) /\ ~ClosesAt(c, o)
  <2>1. \A q \in Int : ClosesAt(c, q) => ~ListOf(c, W, p, q)
    BY <1>5, <1>11
  <2> QED BY <1>7, <1>11, <2>1 DEF Listing, Dead
<1> QED BY <1>9, <1>10, <1>11

\* A list that has no first part is none.
LEMMA NoPart ==
  ASSUME input \in Seq(Tokens), NEW W, Begins(W), NEW V, NEW c \in Containers,
         NEW a, NEW p \in Int, Listing(V, W, c, a, p), \A q \in Int : ~Part(c, W, p, q),
         \A e : <<a, e>> \in V => e \in Int
  PROVE  Dead(V, a)
<1>1. \A q \in Int : ~ListOf(c, W, p, q)
  BY ListSplits
<1>2. \A e \in Int : e - 1 \in Int
  OBVIOUS
<1> QED BY <1>1, <1>2 DEF Listing, Dead

LEMMA NoValueNoPart ==
  ASSUME NEW V, NEW c, NEW p, NEW v, Awaits(V, c, p, v), Dead(V, v)
  PROVE  \A q \in Int : ~Part(c, V, p, q)
BY DEF Awaits, Dead

-----------------------------------------------------------------------------
(* A value, by what is at its first place. *)

LEMMA GradedIs ==
  ASSUME NEW U, Graded(U), NEW d \in Nat
  PROVE  /\ d = 0 => U[d] = Simple
         /\ d # 0 => d - 1 \in Nat /\ U[d] = Simple \cup Compound(U[d - 1])
<1>1. d # 0 => d - 1 \in Nat /\ (d - 1) + 1 = d
  OBVIOUS
<1> QED BY <1>1 DEF Graded

LEMMA SimpleIs ==
  ASSUME input \in Seq(Tokens), NEW a \in Nat
  PROVE  \A e : <<a, e>> \in Simple <=> e = a + 1 /\ (ReadsScalar(a) \/ ReadsString(a))
<1>1. ReadsScalar(a) \/ ReadsString(a) => a < Len(input)
  BY DEF ReadsScalar, ReadsString
<1>2. \A e : <<a, e>> \in Spans <=> e \in 0 .. Len(input) /\ a \in 0 .. Len(input) /\ a < e
  BY DEF Spans
<1>3. \A e : <<a, e>> \in Simple <=>
        <<a, e>> \in Spans /\ e = a + 1 /\ (ReadsScalar(a) \/ ReadsString(a))
  BY DEF Simple
<1> QED BY <1>1, <1>2, <1>3

\* A text that opens like a container is a value when it is wrapped like one.
LEMMA CompoundIs ==
  ASSUME input \in Seq(Tokens), NEW W, NEW c \in Containers, NEW a \in Nat, OpensAt(c, a)
  PROVE  \A e : <<a, e>> \in Compound(W) <=>
           /\ e \in Int /\ a < e - 1 /\ ClosesAt(c, e - 1)
           /\ BlankSpan(a + 1, e - 1) \/ ListOf(c, W, a + 1, e - 1)
<1>1. \A e : <<a, e>> \in Spans <=> e \in 0 .. Len(input) /\ a \in 0 .. Len(input) /\ a < e
  BY DEF Spans
<1>2. ASSUME NEW e
      PROVE  <<a, e>> \in Compound(W) <=> <<a, e>> \in Spans /\
               \E b \in Containers :
                 /\ OpensAt(b, a) /\ ClosesAt(b, e - 1) /\ e - 1 > a
                 /\ BlankSpan(a + 1, e - 1) \/ ListOf(b, W, a + 1, e - 1)
  <2>1. PICK s : s = <<a, e>> /\ s[1] = a /\ s[2] = e
    <3>1. <<a, e>>[1] = a /\ <<a, e>>[2] = e
      OBVIOUS
    <3> QED BY Zenon, <3>1
  <2>2. s \in Compound(W) <=> s \in Spans /\
               \E b \in Containers :
                 /\ OpensAt(b, s[1]) /\ ClosesAt(b, s[2] - 1) /\ s[2] - 1 > s[1]
                 /\ BlankSpan(s[1] + 1, s[2] - 1) \/ ListOf(b, W, s[1] + 1, s[2] - 1)
    BY Zenon DEF Compound, Wrapped, OpensAt, ClosesAt, Containers
  <2> QED BY Zenon, <2>1, <2>2
<1>3. \A b \in Containers : OpensAt(b, a) <=> b = c
  BY TokensApart
<1>4. \A q : ClosesAt(c, q) => q < Len(input)
  BY DEF ClosesAt, Reads
<1>5. \A e \in Int : a < e - 1 /\ ClosesAt(c, e - 1) =>
        e \in 0 .. Len(input) /\ a \in 0 .. Len(input) /\ a < e
  BY <1>4
<1>6. \A e : <<a, e>> \in Spans => e \in Int
  BY <1>1
<1>7. \A e \in Int : e - 1 > a <=> a < e - 1
  OBVIOUS
<1>8. ASSUME NEW e PROVE <<a, e>> \in Compound(W) <=> <<a, e>> \in Spans /\
                 /\ ClosesAt(c, e - 1) /\ e - 1 > a
                 /\ BlankSpan(a + 1, e - 1) \/ ListOf(c, W, a + 1, e - 1)
  BY Zenon, <1>2, <1>3
<1> QED BY <1>1, <1>5, <1>6, <1>7, <1>8

\* No value: nothing it could begin with is there.
LEMMA NothingBegins ==
  ASSUME input \in Seq(Tokens), NEW V, Begins(V), NEW a, ~StartsAt(a)
  PROVE  Dead(V, a)
<1>1. ASSUME NEW q, <<a, q>> \in V PROVE FALSE
  <2>1. PICK s : s = <<a, q>> /\ s[1] = a
    <3>1. <<a, q>>[1] = a
      OBVIOUS
    <3> QED BY Zenon, <3>1
  <2> QED BY Zenon, <1>1, <2>1 DEF Begins
<1> QED BY <1>1 DEF Dead

LEMMA ScalarEnds ==
  ASSUME input \in Seq(Tokens), NEW U, Graded(U), NEW d \in Nat, NEW a \in Nat,
         ReadsScalar(a) \/ ReadsString(a)
  PROVE  ValueEnds(U[d], a, a + 1)
<1>1. \A c \in Containers : ~OpensAt(c, a)
  BY TokensApart
<1>2. ASSUME NEW W, NEW e PROVE <<a, e>> \notin Compound(W)
  <2>1. PICK s : s = <<a, e>> /\ s[1] = a
    <3>1. <<a, e>>[1] = a
      OBVIOUS
    <3> QED BY Zenon, <3>1
  <2>2. s \notin Compound(W)
    BY Zenon, <1>1, <2>1 DEF Compound, Wrapped, OpensAt, Containers
  <2> QED BY <2>1, <2>2
<1>3. \A e : <<a, e>> \in U[d] <=> <<a, e>> \in Simple
  BY <1>2, GradedIs
<1> QED BY <1>3, SimpleIs DEF ValueEnds

\* A container that may not be opened any more.
LEMMA TooDeepEnds ==
  ASSUME input \in Seq(Tokens), NEW U, Graded(U), NEW c \in Containers, NEW a \in Nat, OpensAt(c, a)
  PROVE  Dead(U[0], a)
<1>1. U[0] = Simple
  BY DEF Graded
<1>2. ~ReadsScalar(a) /\ ~ReadsString(a)
  BY TokensApart
<1> QED BY <1>1, <1>2, SimpleIs DEF Dead

\* A container is empty, or the list of its parts.
LEMMA ContainerEnds ==
  ASSUME input \in Seq(Tokens), NEW U, Graded(U), NEW d \in Nat,
         NEW c \in Containers, NEW a \in Nat, OpensAt(c, a), NEW e \in AfterBlanks(a + 1)
  PROVE  /\ ClosesAt(c, e) => ValueEnds(U[d + 1], a, e + 1)
         /\ e = Len(input) => Dead(U[d + 1], a)
         /\ ~ClosesAt(c, e) => Listing(U[d + 1], U[d], c, a, a + 1)
<1>1. a + 1 \in Int
  OBVIOUS
<1>2. /\ e \in Int /\ a + 1 <= e /\ e <= Len(input)
      /\ \A q \in Int : q <= e => BlankSpan(a + 1, q)
      /\ \A q \in Int : e < q => ~BlankSpan(a + 1, q)
      /\ \A q \in Int : a + 1 <= q /\ BlankSpan(a + 1, q) /\ ~IsBlank(q) => q = e
  BY <1>1, BlanksEnd
<1>3. PICK W : W = U[d] /\ U[d + 1] = Simple \cup Compound(W) /\ Begins(W)
  BY GradedBegins DEF Graded
<1>4. ~ReadsScalar(a) /\ ~ReadsString(a)
  BY TokensApart
<1>5. \A q : <<a, q>> \notin Simple
  BY <1>4, SimpleIs
<1>6. \A q : <<a, q>> \in U[d + 1] <=>
         /\ q \in Int /\ a < q - 1 /\ ClosesAt(c, q - 1)
         /\ BlankSpan(a + 1, q - 1) \/ ListOf(c, W, a + 1, q - 1)
  BY <1>3, <1>5, CompoundIs
<1>7. \A q : ClosesAt(c, q) => ~IsBlank(q) /\ ~StartsAt(q)
  BY TokensApart
<1>8. \A q : ClosesAt(c, q) => q < Len(input)
  BY DEF ClosesAt, Reads
<1>9. ASSUME NEW q \in Int, ListOf(c, W, a + 1, q)
      PROVE  a < q /\ StartsAt(e)
  <2>1. PICK m \in Int : m <= q /\ Part(c, W, a + 1, m)
    <3>1. \/ Part(c, W, a + 1, q)
          \/ \E m \in a + 1 .. q - 1 : Part(c, W, a + 1, m)
      BY <1>1, <1>3, <1>9, ListSplits
    <3> QED BY <3>1
  <2>2. a + 1 < m
    BY <1>1, <1>3, <2>1, PartsAreLong
  <2>3. PICK b \in Int : a + 1 <= b /\ BlankSpan(a + 1, b) /\ StartsAt(b)
    <3>1. CASE c = "array"
      <4>1. Element(W, a + 1, m)
        BY <2>1, <3>1 DEF Part
      <4> QED BY <1>3, <4>1 DEF Element, Begins
    <3>2. CASE c # "array"
      <4>1. Member(W, a + 1, m)
        BY <2>1, <3>2 DEF Part
      <4>2. \E n \in a + 1 .. m - 1 : BlankSpan(a + 1, n) /\ ReadsString(n)
        BY Zenon, <4>1 DEF Member
      <4> QED BY <4>2 DEF StartsAt
    <3> QED BY <3>1, <3>2
  <2>4. b = e
    BY <1>2, <2>3, TokensApart
  <2> QED BY <2>1, <2>2, <2>3, <2>4
<1>10. \A q : StartsAt(q) => q < Len(input)
  BY DEF StartsAt, OpensAt, Reads, ReadsScalar, ReadsString
<1>11. \A q \in Int : q - 1 \in Int /\ (q - 1 = e <=> q = e + 1)
  BY <1>2
<1>12. ASSUME NEW q \in Int, ClosesAt(c, q)
       PROVE  a < q /\ BlankSpan(a + 1, q) <=> q = e
  BY <1>2, <1>7, <1>12
<1>13. CASE ClosesAt(c, e)
  <2>1. \A q \in Int : ~ListOf(c, W, a + 1, q)
    BY <1>7, <1>9, <1>13
  <2>2. \A q : <<a, q>> \in U[d + 1] <=> q = e + 1
    BY <1>2, <1>6, <1>11, <1>12, <1>13, <2>1
  <2>3. e # Len(input)
    BY <1>8, <1>13
  <2> QED BY <1>13, <2>2, <2>3 DEF ValueEnds
<1>14. CASE ~ClosesAt(c, e)
  <2>1. \A q \in Int : ClosesAt(c, q) => ~(a < q /\ BlankSpan(a + 1, q))
    BY <1>12, <1>14
  <2>2. \A q \in Int : <<a, q>> \in U[d + 1] <=> ClosesAt(c, q - 1) /\ ListOf(c, W, a + 1, q - 1)
    BY <1>6, <1>9, <1>11, <2>1
  <2>3. e = Len(input) => \A q \in Int : ~ListOf(c, W, a + 1, q)
    BY <1>9, <1>10
  <2>4. e = Len(input) => Dead(U[d + 1], a)
    BY <1>6, <1>11, <2>1, <2>3 DEF Dead
  <2> QED BY <1>3, <1>14, <2>2, <2>4 DEF Listing
<1> QED BY <1>13, <1>14

-----------------------------------------------------------------------------
(* Where the parser is in the text. *)

\* The containers under way began at O[1], O[2] and so on, and the part each of
\* them is in at P[1], P[2]; what is left of the text decides where they end.
Lists(U, O, P, C, i) ==
  Listing(U[NestingLimit - i + 1], U[NestingLimit - i], C[i], O[i], P[i])
Expects(U, O, P, C, i) == Awaits(U[NestingLimit - i], C[i], P[i], O[i + 1])

\* What the innermost call knows, at each of its places.
Knows(U, O, P, C, n, place, o) ==
  /\ place = "value" => O[n + 1] = o /\ (n # 0 => Expects(U, O, P, C, n))
  /\ place = "return" => /\ ValueEnds(U[NestingLimit - n], O[n + 1], o)
                         /\ n # 0 => Expects(U, O, P, C, n)
  /\ place = "loop" => o < Len(input) /\ P[n] <= o + 1 /\ BlankSpan(P[n], o + 1)
  /\ place = "linked" => \E r \in Int : /\ o \in AfterBlanks(r)
                                        /\ Past(U[NestingLimit - n], C[n], P[n], r, o)
  /\ place = "fail" => IF n = 0 THEN Dead(U[NestingLimit], O[1])
                                ELSE Dead(U[NestingLimit - n + 1], O[n])
  /\ place = "accepted" =>
       \E e \in Int : /\ ValueEnds(U[NestingLimit], O[1], e)
                      /\ IF requireEnd THEN BlankSpan(e, Len(input)) /\ o = Len(input) ELSE o = e
  /\ place = "rejected" =>
       \/ input = <<>> \/ Dead(U[NestingLimit], O[1])
       \/ /\ requireEnd
          /\ \E e \in Int : ValueEnds(U[NestingLimit], O[1], e) /\ ~BlankSpan(e, Len(input))

Course(U, O, P, C, n, place, o) ==
  /\ Graded(U)
  /\ O \in [Nat -> Nat] /\ P \in [Nat -> Int] /\ C \in [Nat -> Containers]
  /\ place # "start" /\ input # <<>> => O[1] \in AfterBlanks(AfterBOM)
  /\ \A i \in 1 .. n : Lists(U, O, P, C, i) /\ (i < n => Expects(U, O, P, C, i))
  /\ Knows(U, O, P, C, n, place, o)

OnCourse(C, n, place, o) == \E U, O, P : Course(U, O, P, C, n, place, o)

GrammarInv ==
  \E C : /\ \A i \in 1 .. Len(stack) : C[i] = stack[i].container
         /\ OnCourse(C, Len(stack), pc, offset)

\* The ghosts of a course of n calls.
LEMMA CourseFacts ==
  ASSUME input \in Seq(Tokens), NEW n \in 0 .. NestingLimit, NEW U, NEW O, NEW P, NEW C,
         NEW place, NEW o, Course(U, O, P, C, n, place, o)
  PROVE  /\ NestingLimit - n \in Nat /\ \A d \in Nat : Begins(U[d])
         /\ n + 1 \in Nat /\ O[n + 1] \in Nat /\ Graded(U)
         /\ \A i \in 1 .. n : /\ i \in Nat /\ NestingLimit - i \in Nat /\ NestingLimit - i + 1 \in Nat
                              /\ O[i] \in Nat /\ P[i] \in Int /\ C[i] \in Containers
                              /\ Lists(U, O, P, C, i) /\ (i < n => Expects(U, O, P, C, i))
<1>1. NestingLimit - n \in Nat /\ n \in Nat /\ n + 1 \in Nat
  BY NestingLimitAssumption
<1>2. /\ Graded(U) /\ O \in [Nat -> Nat] /\ P \in [Nat -> Int] /\ C \in [Nat -> Containers]
      /\ \A i \in 1 .. n : Lists(U, O, P, C, i) /\ (i < n => Expects(U, O, P, C, i))
  BY Zenon DEF Course
<1>3. \A d \in Nat : Begins(U[d])
  BY <1>2, GradedBegins
<1>4. \A i \in 1 .. n : i \in Nat /\ NestingLimit - i \in Nat /\ NestingLimit - i + 1 \in Nat
  BY NestingLimitAssumption
<1>5. \A i \in Nat : O[i] \in Nat /\ P[i] \in Int /\ C[i] \in Containers
  BY <1>2
<1> QED BY Zenon, <1>1, <1>2, <1>3, <1>4, <1>5

\* A course whose call stays on the stack goes on by what the call knows next.
LEMMA CourseGoesOn ==
  ASSUME NEW n, NEW U, NEW O, NEW P, NEW C, NEW place, NEW o, Course(U, O, P, C, n, place, o),
         place # "start", NEW new, NEW o2, Knows(U, O, P, C, n, new, o2)
  PROVE  Course(U, O, P, C, n, new, o2)
BY Zenon DEF Course

LEMMA NoPartFails ==
  ASSUME input \in Seq(Tokens), NEW n \in 0 .. NestingLimit, NEW U, NEW O, NEW P, NEW C,
         NEW place, NEW o, Course(U, O, P, C, n, place, o), place # "start", n # 0,
         \A q \in Int : ~Part(C[n], U[NestingLimit - n], P[n], q), NEW o2
  PROVE  Course(U, O, P, C, n, "fail", o2)
<1>1. n \in 1 .. n /\ n \in Nat
  OBVIOUS
<1>2. /\ Begins(U[NestingLimit - n]) /\ Begins(U[NestingLimit - n + 1])
      /\ O[n] \in Nat /\ P[n] \in Int /\ C[n] \in Containers
      /\ Listing(U[NestingLimit - n + 1], U[NestingLimit - n], C[n], O[n], P[n])
  BY <1>1, CourseFacts DEF Lists
<1>3. \A e : <<O[n], e>> \in U[NestingLimit - n + 1] => e \in Int
  BY <1>2 DEF Begins
<1>4. Dead(U[NestingLimit - n + 1], O[n])
  BY <1>2, <1>3, NoPart
<1>5. Knows(U, O, P, C, n, "fail", o2)
  BY <1>4 DEF Knows
<1> QED BY <1>5, CourseGoesOn

LEMMA NoValueFails ==
  ASSUME input \in Seq(Tokens), NEW n \in 0 .. NestingLimit, NEW U, NEW O, NEW P, NEW C, NEW o,
         Course(U, O, P, C, n, "value", o), Dead(U[NestingLimit - n], o), NEW o2
  PROVE  Course(U, O, P, C, n, "fail", o2)
<1>1. O[n + 1] = o /\ (n # 0 => Expects(U, O, P, C, n))
  BY DEF Course, Knows
<1>2. CASE n = 0
  <2>1. n + 1 = 1 /\ NestingLimit - n = NestingLimit
    BY <1>2, NestingLimitAssumption
  <2>2. Knows(U, O, P, C, n, "fail", o2)
    BY <1>1, <1>2, <2>1 DEF Knows
  <2> QED BY <2>2, CourseGoesOn
<1>3. CASE n # 0
  <2>1. \A q \in Int : ~Part(C[n], U[NestingLimit - n], P[n], q)
    BY <1>1, <1>3, NoValueNoPart DEF Expects
  <2> QED BY <1>3, <2>1, NoPartFails
<1> QED BY <1>2, <1>3

LEMMA ValueReturns ==
  ASSUME NEW n, NEW U, NEW O, NEW P, NEW C, NEW o, Course(U, O, P, C, n, "value", o),
         NEW o2, ValueEnds(U[NestingLimit - n], o, o2)
  PROVE  Course(U, O, P, C, n, "return", o2)
<1>1. O[n + 1] = o /\ (n # 0 => Expects(U, O, P, C, n))
  BY DEF Course, Knows
<1>2. Knows(U, O, P, C, n, "return", o2)
  BY <1>1 DEF Knows
<1> QED BY <1>2, CourseGoesOn

LEMMA Changed ==
  ASSUME NEW S, NEW f \in [Nat -> S], NEW j \in Nat, NEW v \in S, NEW g, g = [f EXCEPT ![j] = v]
  PROVE  g \in [Nat -> S] /\ g[j] = v /\ \A i \in Nat : i # j => g[i] = f[i]
OBVIOUS

LEMMA BeginCourse ==
  ASSUME input \in Seq(Tokens), NEW U, NEW O, NEW P, NEW C, NEW o, Course(U, O, P, C, 0, "start", o)
  PROVE  /\ input = <<>> => \A o2 : OnCourse(C, 0, "rejected", o2)
         /\ input # <<>> => \A o2 \in AfterBlanks(AfterBOM) : OnCourse(C, 0, "value", o2)
<1>1. ASSUME input = <<>>, NEW o2 PROVE Course(U, O, P, C, 0, "rejected", o2)
  BY <1>1 DEF Course, Knows
<1>2. ASSUME NEW o2 \in AfterBlanks(AfterBOM) PROVE OnCourse(C, 0, "value", o2)
  <2>1. AfterBOM \in Int /\ 0 <= AfterBOM
    BY DEF AfterBOM
  <2>2. o2 \in Nat
    BY <2>1, BlanksEnd
  <2>3. PICK O2 : O2 = [O EXCEPT ![1] = o2]
    OBVIOUS
  <2>4. Graded(U) /\ O \in [Nat -> Nat] /\ P \in [Nat -> Int] /\ C \in [Nat -> Containers]
    BY DEF Course
  <2>5. O2 \in [Nat -> Nat] /\ O2[1] = o2 /\ 0 + 1 = 1 /\ \A i \in 1 .. 0 : FALSE
    <3>1. O \in [Nat -> Nat] /\ 1 \in Nat /\ 0 + 1 = 1 /\ \A i \in 1 .. 0 : FALSE
      BY <2>4
    <3> QED BY ONLY <2>2, <2>3, <3>1, Changed
  <2>6. Knows(U, O2, P, C, 0, "value", o2)
    BY <2>5 DEF Knows
  <2>7. Course(U, O2, P, C, 0, "value", o2)
    BY <2>4, <2>5, <2>6 DEF Course
  <2> QED BY <2>7 DEF OnCourse
<1> QED BY <1>1, <1>2 DEF OnCourse

LEMMA EnterCourse ==
  ASSUME input \in Seq(Tokens), NEW n \in 0 .. NestingLimit, n < NestingLimit,
         NEW U, NEW O, NEW P, NEW C, NEW o,
         Course(U, O, P, C, n, "value", o),
         NEW c \in Containers, OpensAt(c, o), NEW e \in AfterBlanks(o + 1), ~ClosesAt(c, e)
  PROVE  OnCourse([C EXCEPT ![n + 1] = c], n + 1, "loop", e - 1)
<1>1. PICK P2, C2 : P2 = [P EXCEPT ![n + 1] = o + 1] /\ C2 = [C EXCEPT ![n + 1] = c]
  OBVIOUS
<1>2. /\ Graded(U) /\ O \in [Nat -> Nat] /\ P \in [Nat -> Int] /\ C \in [Nat -> Containers]
      /\ (input # <<>> => O[1] \in AfterBlanks(AfterBOM))
      /\ O[n + 1] = o /\ (n # 0 => Expects(U, O, P, C, n))
  BY DEF Course, Knows
<1>3. /\ n \in Nat /\ n + 1 \in Nat /\ o \in Nat /\ o + 1 \in Int
      /\ NestingLimit - (n + 1) \in Nat
      /\ NestingLimit - (n + 1) + 1 = NestingLimit - n
  BY <1>2, NestingLimitAssumption
<1>4. /\ P2 \in [Nat -> Int] /\ P2[n + 1] = o + 1 /\ C2 \in [Nat -> Containers] /\ C2[n + 1] = c
      /\ \A i \in 1 .. n : P2[i] = P[i] /\ C2[i] = C[i]
  <2>1. \A i \in 1 .. n : i \in Nat /\ i # n + 1
    BY <1>3
  <2>2. P2 \in [Nat -> Int] /\ P2[n + 1] = o + 1 /\ \A i \in Nat : i # n + 1 => P2[i] = P[i]
    BY ONLY <1>1, <1>2, <1>3, Changed
  <2>3. /\ C2 \in [Nat -> Containers] /\ C2[n + 1] = c
        /\ \A i \in Nat : i # n + 1 => C2[i] = C[i]
    <3>1. c \in Containers
      OBVIOUS
    <3> QED BY ONLY <1>1, <1>2, <1>3, <3>1, Changed
  <2> QED BY <2>1, <2>2, <2>3
<1>5. \A i \in 1 .. n : Lists(U, O, P, C, i) /\ Expects(U, O, P, C, i)
  <2>1. \A i \in 1 .. n : Lists(U, O, P, C, i) /\ (i < n => Expects(U, O, P, C, i))
    BY CourseFacts
  <2>2. \A i \in 1 .. n : i = n \/ i < n
    OBVIOUS
  <2>3. \A i \in 1 .. n : n # 0
    OBVIOUS
  <2> QED BY <1>2, <2>1, <2>2, <2>3
<1>6. \A i \in 1 .. n : Lists(U, O, P2, C2, i) /\ Expects(U, O, P2, C2, i)
  BY <1>4, <1>5 DEF Lists, Expects
<1>7. Lists(U, O, P2, C2, n + 1)
  <2>1. Listing(U[NestingLimit - n], U[NestingLimit - (n + 1)], c, o, o + 1)
    BY <1>2, <1>3, ContainerEnds
  <2> QED BY <1>2, <1>3, <1>4, <2>1 DEF Lists
<1>8. Knows(U, O, P2, C2, n + 1, "loop", e - 1)
  <2>1. e \in Int /\ o + 1 <= e /\ BlankSpan(o + 1, e) /\ (e - 1) + 1 = e
    BY <1>3, BlanksEnd
  <2>2. P2[n + 1] <= (e - 1) + 1 /\ BlankSpan(P2[n + 1], (e - 1) + 1)
    BY <1>4, <2>1
  <2>3. e - 1 < Len(input)
    BY <1>3, BlanksEnd
  <2> QED BY <2>2, <2>3 DEF Knows
<1>9. \A i \in 1 .. n + 1 : /\ i = n + 1 \/ i \in 1 .. n
                            /\ i < n + 1 => i \in 1 .. n
  BY <1>3
<1>10. Course(U, O, P2, C2, n + 1, "loop", e - 1)
  BY <1>2, <1>4, <1>6, <1>7, <1>8, <1>9 DEF Course
<1> QED BY <1>1, <1>10 DEF OnCourse

\* The value of the next part begins where the call says.
LEMMA NextCourse ==
  ASSUME input \in Seq(Tokens), NEW n \in 1 .. NestingLimit, NEW U, NEW O, NEW P, NEW C, NEW o,
         Course(U, O, P, C, n, "loop", o),
         NEW v \in Nat, Awaits(U[NestingLimit - n], C[n], P[n], v)
  PROVE  OnCourse(C, n, "value", v)
<1>1. PICK O2 : O2 = [O EXCEPT ![n + 1] = v]
  OBVIOUS
<1>2. /\ Graded(U) /\ O \in [Nat -> Nat] /\ P \in [Nat -> Int] /\ C \in [Nat -> Containers]
      /\ (input # <<>> => O[1] \in AfterBlanks(AfterBOM))
  BY DEF Course
<1>3. n \in Nat /\ n + 1 \in Nat /\ n # 0
  OBVIOUS
<1>4. O2 \in [Nat -> Nat] /\ O2[n + 1] = v /\ \A i \in 1 .. n : O2[i] = O[i]
  <2>1. v \in Nat /\ \A i \in 1 .. n : i \in Nat /\ i # n + 1
    BY <1>3
  <2>2. O2 \in [Nat -> Nat] /\ O2[n + 1] = v /\ \A i \in Nat : i # n + 1 => O2[i] = O[i]
    BY ONLY <1>1, <1>2, <1>3, <2>1, Changed
  <2> QED BY <2>1, <2>2
<1>5. \A i \in 1 .. n : Lists(U, O, P, C, i) /\ (i < n => Expects(U, O, P, C, i) /\ O2[i + 1] = O[i + 1])
  <2>1. \A i \in 1 .. n : Lists(U, O, P, C, i) /\ (i < n => Expects(U, O, P, C, i))
    BY DEF Course
  <2>2. \A i \in 1 .. n : i < n => i + 1 \in 1 .. n
    OBVIOUS
  <2> QED BY <1>4, <2>1, <2>2
<1>6. \A i \in 1 .. n : Lists(U, O2, P, C, i) /\ (i < n => Expects(U, O2, P, C, i))
  BY <1>4, <1>5 DEF Lists, Expects
<1>7. Expects(U, O2, P, C, n)
  BY <1>4 DEF Expects
<1>8. Knows(U, O2, P, C, n, "value", v)
  BY <1>4, <1>7 DEF Knows
<1>9. 1 \in 1 .. n
  BY <1>3
<1>10. Course(U, O2, P, C, n, "value", v)
  BY <1>2, <1>4, <1>6, <1>8, <1>9 DEF Course
<1> QED BY <1>10 DEF OnCourse

LEMMA LinkCourse ==
  ASSUME input \in Seq(Tokens), NEW n \in 1 .. NestingLimit, NEW U, NEW O, NEW P, NEW C, NEW o \in Int,
         Course(U, O, P, C, n, "return", o), NEW o2 \in AfterBlanks(o)
  PROVE  Course(U, O, P, C, n, "linked", o2)
<1>1. n # 0
  OBVIOUS
<1>2. /\ ValueEnds(U[NestingLimit - n], O[n + 1], o)
      /\ Awaits(U[NestingLimit - n], C[n], P[n], O[n + 1])
  BY <1>1 DEF Course, Knows, Expects
<1>3. Past(U[NestingLimit - n], C[n], P[n], o, o2)
  BY <1>2, PartsEnd
<1>4. Knows(U, O, P, C, n, "linked", o2)
  BY <1>3 DEF Knows
<1> QED BY <1>4, CourseGoesOn

\* Behind a part: a comma, the end, or an error.
LEMMA LinkedCourse ==
  ASSUME input \in Seq(Tokens), NEW n \in 1 .. NestingLimit, NEW U, NEW O, NEW P, NEW C, NEW o \in Int,
         Course(U, O, P, C, n, "linked", o)
  PROVE  /\ CommaAt(o) => OnCourse(C, n, "loop", o)
         /\ ClosesAt(C[n], o) => OnCourse(C, n - 1, "return", o + 1)
         /\ ~CommaAt(o) /\ ~ClosesAt(C[n], o) => OnCourse(C, n, "fail", o)
<1>1. n # 0 /\ n \in 1 .. n /\ n \in Nat /\ n \in 0 .. NestingLimit
  OBVIOUS
<1>2. PICK V, W : V = U[NestingLimit - n + 1] /\ W = U[NestingLimit - n]
  OBVIOUS
<1>3. /\ Begins(V) /\ Begins(W) /\ O[n] \in Nat /\ P[n] \in Int /\ C[n] \in Containers
      /\ Listing(V, W, C[n], O[n], P[n])
  BY <1>1, <1>2, CourseFacts DEF Lists
<1>4. PICK r \in Int : o \in AfterBlanks(r) /\ Past(W, C[n], P[n], r, o)
  BY <1>2 DEF Course, Knows
<1>5. \A e : <<O[n], e>> \in V => e \in Int
  BY <1>3 DEF Begins
<1>6. /\ CommaAt(o) => Listing(V, W, C[n], O[n], o + 1)
      /\ ClosesAt(C[n], o) => ValueEnds(V, O[n], o + 1)
      /\ ~CommaAt(o) /\ ~ClosesAt(C[n], o) => Dead(V, O[n])
  BY <1>3, <1>4, <1>5, ListGoesOn
<1>7. /\ Graded(U) /\ O \in [Nat -> Nat] /\ P \in [Nat -> Int] /\ C \in [Nat -> Containers]
      /\ (input # <<>> => O[1] \in AfterBlanks(AfterBOM))
      /\ \A i \in 1 .. n : Lists(U, O, P, C, i) /\ (i < n => Expects(U, O, P, C, i))
  BY DEF Course
<1>8. ASSUME CommaAt(o) PROVE OnCourse(C, n, "loop", o)
  <2>1. PICK P2 : P2 = [P EXCEPT ![n] = o + 1]
    OBVIOUS
  <2>2. P2 \in [Nat -> Int] /\ P2[n] = o + 1 /\ \A i \in 1 .. n : i < n => P2[i] = P[i]
    <3>1. o + 1 \in Int /\ n \in Nat /\ \A i \in 1 .. n : i \in Nat /\ (i < n => i # n)
      BY <1>1
    <3>2. P2 \in [Nat -> Int] /\ P2[n] = o + 1 /\ \A i \in Nat : i # n => P2[i] = P[i]
      BY ONLY <1>7, <2>1, <3>1, Changed
    <3> QED BY <3>1, <3>2
  <2>3. ASSUME NEW i \in 1 .. n PROVE Lists(U, O, P2, C, i) /\ (i < n => Expects(U, O, P2, C, i))
    <3>1. CASE i < n
      BY <1>7, <2>2, <3>1 DEF Lists, Expects
    <3>2. CASE i = n
      BY <1>2, <1>6, <1>8, <2>2, <3>2 DEF Lists
    <3> QED BY <3>1, <3>2
  <2>4. P2[n] <= o + 1 /\ BlankSpan(P2[n], o + 1)
    BY <2>2 DEF BlankSpan
  <2>5. o < Len(input)
    BY Zenon, <1>8 DEF CommaAt, Reads
  <2>6. Knows(U, O, P2, C, n, "loop", o)
    BY <2>4, <2>5 DEF Knows
  <2>7. Course(U, O, P2, C, n, "loop", o)
    BY <1>7, <2>2, <2>3, <2>6 DEF Course
  <2> QED BY <2>7 DEF OnCourse
<1>9. ASSUME ClosesAt(C[n], o) PROVE OnCourse(C, n - 1, "return", o + 1)
  <2>1. PICK m : m = n - 1
    OBVIOUS
  <2>2. /\ m + 1 = n /\ NestingLimit - m = NestingLimit - n + 1
        /\ \A i \in 1 .. m : i \in 1 .. n /\ i < n
        /\ m # 0 => m \in 1 .. m
    BY <1>1, <2>1, NestingLimitAssumption
  <2>3. \A i \in 1 .. m : Lists(U, O, P, C, i) /\ Expects(U, O, P, C, i)
    BY <1>7, <2>2
  <2>4. Knows(U, O, P, C, m, "return", o + 1)
    BY <1>2, <1>6, <1>9, <2>2, <2>3 DEF Knows
  <2>5. Course(U, O, P, C, m, "return", o + 1)
    BY <1>7, <2>3, <2>4 DEF Course
  <2> QED BY <2>1, <2>5 DEF OnCourse
<1>10. ASSUME ~CommaAt(o), ~ClosesAt(C[n], o) PROVE OnCourse(C, n, "fail", o)
  <2>1. Knows(U, O, P, C, n, "fail", o)
    BY <1>1, <1>2, <1>6, <1>10 DEF Knows
  <2>2. Course(U, O, P, C, n, "fail", o)
    BY <2>1, CourseGoesOn
  <2> QED BY <2>2 DEF OnCourse
<1> QED BY <1>8, <1>9, <1>10

LEMMA AbandonCourse ==
  ASSUME input \in Seq(Tokens), NEW n \in 1 .. NestingLimit, NEW U, NEW O, NEW P, NEW C, NEW o,
         Course(U, O, P, C, n, "fail", o)
  PROVE  OnCourse(C, n - 1, "fail", o)
<1>1. PICK m : m = n - 1
  OBVIOUS
<1>2. /\ n # 0 /\ m + 1 = n /\ NestingLimit - m = NestingLimit - n + 1
      /\ \A i \in 1 .. m : i \in 1 .. n /\ i < n
      /\ m # 0 => m \in 1 .. m
      /\ m \in 0 .. NestingLimit
      /\ m = 0 => NestingLimit - n + 1 = NestingLimit /\ n = 1
  BY <1>1, NestingLimitAssumption
<1>3. /\ Graded(U) /\ O \in [Nat -> Nat] /\ P \in [Nat -> Int] /\ C \in [Nat -> Containers]
      /\ (input # <<>> => O[1] \in AfterBlanks(AfterBOM))
      /\ \A i \in 1 .. n : Lists(U, O, P, C, i) /\ (i < n => Expects(U, O, P, C, i))
      /\ Dead(U[NestingLimit - n + 1], O[n])
  BY <1>2 DEF Course, Knows
<1>4. \A i \in 1 .. m : Lists(U, O, P, C, i) /\ Expects(U, O, P, C, i)
  BY <1>2, <1>3
<1>5. CASE m = 0
  <2>1. Knows(U, O, P, C, m, "fail", o)
    BY <1>2, <1>3, <1>5 DEF Knows
  <2>2. Course(U, O, P, C, m, "fail", o)
    BY <1>3, <1>4, <2>1 DEF Course
  <2> QED BY <1>1, <2>2 DEF OnCourse
<1>6. CASE m # 0
  <2>1. Awaits(U[NestingLimit - m], C[m], P[m], O[m + 1])
    BY <1>2, <1>4, <1>6 DEF Expects
  <2>2. Dead(U[NestingLimit - m], O[m + 1])
    BY <1>2, <1>3
  <2>3. \A q \in Int : ~Part(C[m], U[NestingLimit - m], P[m], q)
    BY <2>1, <2>2, NoValueNoPart
  <2>4. Knows(U, O, P, C, m, "leaving", o)
    BY DEF Knows
  <2>5. Course(U, O, P, C, m, "leaving", o)
    BY <1>3, <1>4, <2>4 DEF Course
  <2>6. Course(U, O, P, C, m, "fail", o)
    BY <1>2, <1>6, <2>3, <2>5, NoPartFails
  <2> QED BY <1>1, <2>6 DEF OnCourse
<1> QED BY <1>5, <1>6

\* The end of the call.
LEMMA EndCourse ==
  ASSUME input \in Seq(Tokens), NEW U, NEW O, NEW P, NEW C, NEW o \in 0 .. Len(input)
  PROVE  /\ Course(U, O, P, C, 0, "fail", o) => Course(U, O, P, C, 0, "rejected", o)
         /\ Course(U, O, P, C, 0, "return", o) =>
              /\ ~requireEnd => Course(U, O, P, C, 0, "accepted", o)
              /\ requireEnd /\ Len(input) \in AfterBlanks(o) =>
                   Course(U, O, P, C, 0, "accepted", Len(input))
              /\ requireEnd /\ Len(input) \notin AfterBlanks(o) =>
                   \A o2 : Course(U, O, P, C, 0, "rejected", o2)
<1>1. NestingLimit - 0 = NestingLimit /\ 0 + 1 = 1
  BY NestingLimitAssumption
<1>2. ASSUME Course(U, O, P, C, 0, "fail", o) PROVE Course(U, O, P, C, 0, "rejected", o)
  <2>1. Dead(U[NestingLimit], O[1])
    BY <1>2 DEF Course, Knows
  <2>2. Knows(U, O, P, C, 0, "rejected", o)
    BY <2>1 DEF Knows
  <2> QED BY <1>2, <2>2, CourseGoesOn
<1>3. ASSUME Course(U, O, P, C, 0, "return", o)
      PROVE  /\ ~requireEnd => Course(U, O, P, C, 0, "accepted", o)
             /\ requireEnd /\ Len(input) \in AfterBlanks(o) =>
                  Course(U, O, P, C, 0, "accepted", Len(input))
             /\ requireEnd /\ Len(input) \notin AfterBlanks(o) =>
                  \A o2 : Course(U, O, P, C, 0, "rejected", o2)
  <2>1. ValueEnds(U[NestingLimit], O[1], o)
    BY <1>1, <1>3 DEF Course, Knows
  <2>2. Len(input) \in AfterBlanks(o) <=> BlankSpan(o, Len(input))
    <3>1. ~IsBlank(Len(input))
      BY DEF IsBlank, Reads
    <3> QED BY <3>1 DEF AfterBlanks, BlankSpan
  <2>3. ASSUME ~requireEnd PROVE Course(U, O, P, C, 0, "accepted", o)
    <3>1. Knows(U, O, P, C, 0, "accepted", o)
      BY <2>1, <2>3 DEF Knows
    <3> QED BY <1>3, <3>1, CourseGoesOn
  <2>4. ASSUME requireEnd, Len(input) \in AfterBlanks(o)
        PROVE  Course(U, O, P, C, 0, "accepted", Len(input))
    <3>1. Knows(U, O, P, C, 0, "accepted", Len(input))
      BY <2>1, <2>2, <2>4 DEF Knows
    <3> QED BY <1>3, <3>1, CourseGoesOn
  <2>5. ASSUME requireEnd, Len(input) \notin AfterBlanks(o), NEW o2
        PROVE  Course(U, O, P, C, 0, "rejected", o2)
    <3>1. Knows(U, O, P, C, 0, "rejected", o2)
      BY <2>1, <2>2, <2>5 DEF Knows
    <3> QED BY <1>3, <3>1, CourseGoesOn
  <2> QED BY <2>3, <2>4, <2>5
<1> QED BY <1>2, <1>3

\* The text and the question stay what they are, and so does all that is said of them.
LEMMA SameText ==
  ASSUME input' = input, requireEnd' = requireEnd
  PROVE  \A C, n, place, o : OnCourse(C, n, place, o)' <=> OnCourse(C, n, place, o)
<1>1. /\ \A o, t : Reads(o, t)' <=> Reads(o, t)
      /\ \A o : ReadsScalar(o)' <=> ReadsScalar(o)
      /\ \A o : ReadsString(o)' <=> ReadsString(o)
  BY DEF Reads, ReadsScalar, ReadsString
<1>2. /\ \A o : IsBlank(o)' <=> IsBlank(o)
      /\ \A o : CommaAt(o)' <=> CommaAt(o)
      /\ \A o : ColonAt(o)' <=> ColonAt(o)
      /\ \A c, o : OpensAt(c, o)' <=> OpensAt(c, o)
      /\ \A c, o : ClosesAt(c, o)' <=> ClosesAt(c, o)
  BY Zenon, <1>1 DEF IsBlank, CommaAt, ColonAt, OpensAt, ClosesAt
<1>3. /\ \A p, q : BlankSpan(p, q)' <=> BlankSpan(p, q)
      /\ \A p : AfterBlanks(p)' = AfterBlanks(p)
      /\ AfterBOM' = AfterBOM
  <2>1. \A p, q : BlankSpan(p, q)' <=> BlankSpan(p, q)
    BY Zenon, <1>2 DEF BlankSpan
  <2>2. \A p : AfterBlanks(p)' = AfterBlanks(p)
    BY <1>2 DEF AfterBlanks
  <2>3. AfterBOM' = AfterBOM
    BY <1>1 DEF AfterBOM
  <2> QED BY <2>1, <2>2, <2>3
<1>4. \A V, p, q : Element(V, p, q)' <=> Element(V, p, q)
  BY Zenon, <1>3 DEF Element
<1>5. \A V, p, q : Member(V, p, q)' <=> Member(V, p, q)
  BY Zenon, <1>1, <1>3, <1>4 DEF Member
<1>6. \A c, V, p, q : Part(c, V, p, q)' <=> Part(c, V, p, q)
  BY Zenon, <1>4, <1>5 DEF Part
<1>7. \A c, V, p, q : ListOf(c, V, p, q)' <=> ListOf(c, V, p, q)
  <2> SUFFICES ASSUME NEW c, NEW V, NEW p, NEW q PROVE ListOf(c, V, p, q)' <=> ListOf(c, V, p, q)
    OBVIOUS
  <2> DEFINE Good(cuts) == \A x \in cuts \cup {p - 1} :
                             \E y \in cuts \cup {q} :
                               /\ y > x /\ \A other \in cuts : other <= x \/ other >= y
                               /\ Part(c, V, x + 1, y)
  <2>1. PICK commas : /\ commas = {m \in p .. q - 1 : Reads(m, ",")}
                      /\ commas = {m \in p .. q - 1 : Reads(m, ",")'}
    BY Zenon, <1>1
  <2>2. ListOf(c, V, p, q) <=> \E cuts \in SUBSET commas : Good(cuts)
    BY Zenon, <2>1 DEF ListOf
  <2>3. ListOf(c, V, p, q)' <=> \E cuts \in SUBSET commas : Good(cuts)'
    BY Zenon, <2>1 DEF ListOf
  <2>4. \A cuts : Good(cuts)' <=> Good(cuts)
    BY Zenon, <1>6
  <2> HIDE DEF Good
  <2> QED BY Zenon, <2>2, <2>3, <2>4
<1>8. \A c, V, s : Wrapped(c, V, s)' <=> Wrapped(c, V, s)
  BY Zenon, <1>1, <1>3, <1>7 DEF Wrapped
<1>9. Spans' = Spans
  BY DEF Spans
<1>10. Simple' = Simple
  BY <1>1, <1>9 DEF Simple
<1>11. \A V : Compound(V)' = Compound(V)
  BY Zenon, <1>8, <1>9 DEF Compound
<1>12. \A U : Graded(U)' <=> Graded(U)
  BY Zenon, <1>10, <1>11 DEF Graded
<1>13. /\ \A V, W, c, a, p : Listing(V, W, c, a, p)' <=> Listing(V, W, c, a, p)
       /\ \A V, c, p, v : Awaits(V, c, p, v)' <=> Awaits(V, c, p, v)
       /\ \A V, c, p, r, o : Past(V, c, p, r, o)' <=> Past(V, c, p, r, o)
  BY Zenon, <1>2, <1>3, <1>6, <1>7 DEF Listing, Awaits, Past
<1>14. /\ \A U, O, P, C, i : Lists(U, O, P, C, i)' <=> Lists(U, O, P, C, i)
       /\ \A U, O, P, C, i : Expects(U, O, P, C, i)' <=> Expects(U, O, P, C, i)
  BY Zenon, <1>13 DEF Lists, Expects
<1>15. \A U, O, P, C, n, place, o :
          Knows(U, O, P, C, n, place, o)' <=> Knows(U, O, P, C, n, place, o)
  BY <1>3, <1>13, <1>14 DEF Knows
<1>16. \A U, O, P, C, n, place, o :
          Course(U, O, P, C, n, place, o)' <=> Course(U, O, P, C, n, place, o)
  <2> SUFFICES ASSUME NEW U, NEW O, NEW P, NEW C, NEW n, NEW place, NEW o
               PROVE  Course(U, O, P, C, n, place, o)' <=> Course(U, O, P, C, n, place, o)
    OBVIOUS
  <2>1. AfterBlanks(AfterBOM)' = AfterBlanks(AfterBOM)
    BY <1>2, <1>3 DEF AfterBlanks
  <2>2. /\ Graded(U)' <=> Graded(U)
        /\ Knows(U, O, P, C, n, place, o)' <=> Knows(U, O, P, C, n, place, o)
        /\ \A i : Lists(U, O, P, C, i)' <=> Lists(U, O, P, C, i)
        /\ \A i : Expects(U, O, P, C, i)' <=> Expects(U, O, P, C, i)
    BY Zenon, <1>12, <1>14, <1>15
  <2> QED BY <2>1, <2>2 DEF Course
<1> QED BY Zenon, <1>16 DEF OnCourse

\* So a step goes on with the course when its own call does.
LEMMA CourseStep ==
  ASSUME NEW C, NEW n, NEW place, NEW o, OnCourse(C, n, place, o),
         input' = input, requireEnd' = requireEnd,
         n = Len(stack'), place = pc', o = offset',
         \A i \in 1 .. n : C[i] = stack'[i].container
  PROVE  GrammarInv'
<1>1. OnCourse(C, n, place, o)'
  BY SameText
<1> QED BY Zenon, <1>1 DEF GrammarInv

LEMMA CourseNow ==
  ASSUME OwnInv, GrammarInv
  PROVE  \E n, U, O, P, C :
           /\ n \in 0 .. NestingLimit /\ n = Len(stack) /\ Course(U, O, P, C, n, pc, offset)
           /\ \A i \in 1 .. n : C[i] = stack[i].container
           /\ stack # <<>> => n \in 1 .. NestingLimit /\ C[n] = Top.container
           /\ stack = <<>> => n = 0
<1>1. Len(stack) \in 0 .. NestingLimit
  BY DEF OwnInv
<1>2. PICK C, U, O, P : /\ \A i \in 1 .. Len(stack) : C[i] = stack[i].container
                        /\ Course(U, O, P, C, Len(stack), pc, offset)
  BY Zenon DEF GrammarInv, OnCourse
<1>3. stack # <<>> => Len(stack) \in 1 .. NestingLimit /\ C[Len(stack)] = Top.container
  <2>1. stack # <<>> => Len(stack) \in 1 .. Len(stack) /\ Len(stack) # 0
    BY DEF OwnInv
  <2> QED BY <1>1, <1>2, <2>1 DEF Top
<1>4. stack = <<>> => Len(stack) = 0
  OBVIOUS
<1> QED BY Zenon, <1>1, <1>2, <1>3, <1>4

LEMMA OpensIs ==
  ASSUME NEW c, Opens(c)
  PROVE  pc = "value" /\ OpensAt(c, offset)
BY Zenon DEF Opens, OpensAt, Opening

LEMMA BeginGrammar ==
  ASSUME OwnInv, GrammarInv, Begin
  PROVE  GrammarInv'
<1>1. PICK n, U, O, P, C :
        n = Len(stack) /\ Course(U, O, P, C, n, pc, offset) /\ (stack = <<>> => n = 0)
  BY CourseNow
<1>2. /\ pc = "start" /\ stack = <<>> /\ n = 0 /\ input \in Seq(Tokens)
      /\ UNCHANGED <<input, requireEnd, stack>>
  BY <1>1 DEF Begin, OwnInv, PlaceInv
<1>3. \/ input = <<>> /\ pc' = "rejected"
      \/ input # <<>> /\ pc' = "value" /\ offset' \in AfterBlanks(AfterBOM)
  BY DEF Begin
<1>4. OnCourse(C, 0, pc', offset')
  BY <1>1, <1>2, <1>3, BeginCourse
<1>5. Len(stack') = 0 /\ \A i \in 1 .. 0 : C[i] = stack'[i].container
  BY <1>1, <1>2
<1> QED BY <1>2, <1>4, <1>5, CourseStep

\* A step that leaves the stack as it is.
LEMMA SameStack ==
  ASSUME NEW n, NEW U, NEW O, NEW P, NEW C, n = Len(stack), \A i \in 1 .. n : C[i] = stack[i].container,
         UNCHANGED <<input, requireEnd, stack>>, OnCourse(C, n, pc', offset')
  PROVE  GrammarInv'
<1>1. n = Len(stack') /\ \A i \in 1 .. n : C[i] = stack'[i].container
  OBVIOUS
<1> QED BY <1>1, CourseStep

LEMMA ParseValueGrammar ==
  ASSUME OwnInv, GrammarInv,
         \/ ParseScalar \/ ParseNothing
         \/ \E container \in Containers :
              TooDeep(container) \/ ParseEmpty(container) \/ ParseOpenEnded(container)
  PROVE  GrammarInv'
<1>1. PICK n, U, O, P, C :
        /\ n \in 0 .. NestingLimit /\ n = Len(stack) /\ Course(U, O, P, C, n, pc, offset)
        /\ \A i \in 1 .. n : C[i] = stack[i].container
  BY CourseNow
<1>2. pc = "value" /\ UNCHANGED <<input, requireEnd, stack>>
  BY OpensIs DEF ParseScalar, ParseNothing, TooDeep, ParseEmpty, ParseOpenEnded, Returns, Fails
<1>3. /\ input \in Seq(Tokens) /\ offset \in Nat /\ NestingLimit - n \in Nat
      /\ Graded(U) /\ Begins(U[NestingLimit - n])
      /\ n < NestingLimit =>
           NestingLimit - n - 1 \in Nat /\ (NestingLimit - n - 1) + 1 = NestingLimit - n
      /\ ~(n < NestingLimit) => NestingLimit - n = 0
  <2>1. input \in Seq(Tokens) /\ offset \in Nat
    BY DEF OwnInv
  <2>2. NestingLimit - n \in Nat /\ Graded(U) /\ Begins(U[NestingLimit - n])
    BY <1>1, <2>1, CourseFacts
  <2>3. n \in 0 .. NestingLimit
    BY <1>1
  <2> QED BY <2>1, <2>2, <2>3, NestingLimitAssumption
<1>4. depth = n /\ n \in Nat /\ n \in 0 .. NestingLimit
  BY <1>1 DEF OwnInv
<1>5. \/ pc' = "return" /\ ValueEnds(U[NestingLimit - n], offset, offset')
      \/ pc' = "fail" /\ Dead(U[NestingLimit - n], offset)
  <2>1. CASE ParseScalar
    <3>1. ValueEnds(U[NestingLimit - n], offset, offset + 1)
      BY <1>3, <2>1, ScalarEnds DEF ParseScalar
    <3> QED BY <2>1, <3>1 DEF ParseScalar, Returns
  <2>2. CASE ParseNothing
    <3>1. /\ ~ReadsScalar(offset) /\ ~ReadsString(offset) /\ pc' = "fail"
          /\ ~Reads(offset, "[") /\ ~Reads(offset, "{")
      BY Zenon, <2>2 DEF ParseNothing, Fails
    <3>2. \A c \in Containers : ~OpensAt(c, offset)
      BY Zenon, <3>1 DEF OpensAt, Opening
    <3>3. ~StartsAt(offset)
      BY Zenon, <3>1, <3>2 DEF StartsAt
    <3> QED BY <1>3, <3>1, <3>3, NothingBegins
  <2>3. ASSUME NEW c \in Containers, TooDeep(c) PROVE pc' = "fail" /\ Dead(U[NestingLimit - n], offset)
    <3>1. OpensAt(c, offset) /\ depth >= NestingLimit /\ pc' = "fail"
      BY <2>3, OpensIs DEF TooDeep, Fails
    <3>2. ~(n < NestingLimit)
      BY <1>4, <3>1, NestingLimitAssumption
    <3> QED BY <1>3, <3>1, <3>2, TooDeepEnds
  <2>4. ASSUME NEW c \in Containers, ParseEmpty(c)
        PROVE  pc' = "return" /\ ValueEnds(U[NestingLimit - n], offset, offset')
    <3>1. OpensAt(c, offset) /\ n < NestingLimit /\ pc' = "return"
      BY <1>4, <2>4, OpensIs DEF ParseEmpty, Returns
    <3>2. PICK e \in AfterBlanks(offset + 1) : ClosesAt(c, e) /\ offset' = e + 1
      BY <2>4 DEF ParseEmpty, ClosesAt
    <3> QED BY <1>3, <3>1, <3>2, ContainerEnds
  <2>5. ASSUME NEW c \in Containers, ParseOpenEnded(c)
        PROVE  pc' = "fail" /\ Dead(U[NestingLimit - n], offset)
    <3>1. OpensAt(c, offset) /\ n < NestingLimit /\ pc' = "fail"
      BY <1>4, <2>5, OpensIs DEF ParseOpenEnded, Fails
    <3>2. Len(input) \in AfterBlanks(offset + 1)
      BY <2>5 DEF ParseOpenEnded
    <3> QED BY <1>3, <3>1, <3>2, ContainerEnds
  <2> QED BY <2>1, <2>2, <2>3, <2>4, <2>5
<1>6. Course(U, O, P, C, n, "value", offset)
  BY <1>1, <1>2
<1>7. Course(U, O, P, C, n, pc', offset')
  <2>1. CASE pc' = "return"
    BY <1>5, <1>6, <2>1, ValueReturns
  <2>2. CASE pc' = "fail"
    BY <1>3, <1>4, <1>5, <1>6, <2>2, NoValueFails
  <2> QED BY <1>5, <2>1, <2>2
<1>8. OnCourse(C, n, pc', offset')
  BY <1>7 DEF OnCourse
<1> QED BY <1>1, <1>2, <1>8, SameStack

LEMMA EnterGrammar ==
  ASSUME OwnInv, GrammarInv, NEW c \in Containers, Enter(c)
  PROVE  GrammarInv'
<1>1. PICK n, U, O, P, C :
        /\ n \in 0 .. NestingLimit /\ n = Len(stack) /\ Course(U, O, P, C, n, pc, offset)
        /\ \A i \in 1 .. n : C[i] = stack[i].container
  BY CourseNow
<1>2. /\ pc = "value" /\ OpensAt(c, offset) /\ pc' = "loop" /\ UNCHANGED <<input, requireEnd>>
      /\ stack' = Append(stack, Frame(c))
  BY OpensIs DEF Enter
<1>3. input \in Seq(Tokens) /\ n \in Nat /\ n < NestingLimit /\ stack \in Seq(Frames)
  BY <1>1 DEF OwnInv, Enter
<1>4. PICK e \in AfterBlanks(offset + 1) : ~ClosesAt(c, e) /\ offset' = e - 1
  BY DEF Enter, ClosesAt
<1>5. PICK D : D = [C EXCEPT ![n + 1] = c]
  OBVIOUS
<1>6. OnCourse(D, n + 1, pc', offset')
  BY <1>1, <1>2, <1>3, <1>4, <1>5, EnterCourse
<1>7. /\ Len(stack') = n + 1 /\ stack'[n + 1] = Frame(c)
      /\ \A i \in 1 .. n : stack'[i] = stack[i]
  BY <1>1, <1>2, <1>3, FreshFrame, PushFacts
<1>8. Frame(c).container = c
  BY DEF Frame
<1>9. /\ D[n + 1] = c
      /\ \A i \in 1 .. n : D[i] = C[i]
  <2>1. C \in [Nat -> Containers]
    BY <1>1 DEF Course
  <2>2. n + 1 \in Nat /\ c \in Containers /\ \A i \in 1 .. n : i \in Nat /\ i # n + 1
    BY <1>3
  <2> QED BY ONLY <1>5, <2>1, <2>2, Changed
<1>10. \A i \in 1 .. n + 1 : i \in 1 .. n \/ i = n + 1
  BY <1>3
<1>11. \A i \in 1 .. n + 1 : D[i] = stack'[i].container
  BY <1>1, <1>7, <1>8, <1>9, <1>10
<1> QED BY <1>2, <1>6, <1>7, <1>11, CourseStep

\* The place of a part, and the blanks between it and where its value begins.
LEMMA LoopFacts ==
  ASSUME OwnInv, NEW n, NEW U, NEW O, NEW P, NEW C, n \in 0 .. NestingLimit, n = Len(stack),
         Course(U, O, P, C, n, pc, offset), pc = "loop"
  PROVE  /\ n \in 1 .. NestingLimit /\ P[n] \in Int /\ Begins(U[NestingLimit - n])
         /\ offset \in Nat /\ offset + 1 \in Int /\ input \in Seq(Tokens)
         /\ offset < Len(input) /\ P[n] <= offset + 1 /\ BlankSpan(P[n], offset + 1)
         /\ AfterBlanks(offset + 1) \subseteq AfterBlanks(P[n])
         /\ stack # <<>> /\ stack \in Seq(Frames)
<1>1. stack # <<>> /\ stack \in Seq(Frames) /\ input \in Seq(Tokens) /\ offset \in Nat
  BY DEF OwnInv, PlaceInv
<1>2. n \in 1 .. NestingLimit /\ n \in 1 .. n
  <2>1. Len(stack) # 0 /\ Len(stack) \in Nat
    BY <1>1
  <2> QED BY <2>1
<1>3. P[n] \in Int /\ Begins(U[NestingLimit - n])
  BY <1>1, <1>2, CourseFacts
<1>4. offset < Len(input) /\ P[n] <= offset + 1 /\ BlankSpan(P[n], offset + 1)
  BY DEF Course, Knows
<1>5. offset + 1 \in Int
  BY <1>1
<1> QED BY <1>1, <1>2, <1>3, <1>4, <1>5, BlanksGoOn

LEMMA NextElementGrammar ==
  ASSUME OwnInv, GrammarInv, NextElement
  PROVE  GrammarInv'
<1>1. PICK n, U, O, P, C :
        /\ n \in 0 .. NestingLimit /\ n = Len(stack) /\ Course(U, O, P, C, n, pc, offset)
        /\ \A i \in 1 .. n : C[i] = stack[i].container
        /\ stack # <<>> => C[n] = Top.container
  BY CourseNow
<1>2. /\ pc = "loop" /\ Top.container = "array" /\ offset' \in AfterBlanks(offset + 1)
      /\ pc' = "value" /\ UNCHANGED <<input, requireEnd, stack>>
  BY DEF NextElement
<1>3. PICK o : o = offset
  OBVIOUS
<1>4. /\ n \in 1 .. NestingLimit /\ P[n] \in Int /\ Begins(U[NestingLimit - n])
      /\ offset \in Nat /\ input \in Seq(Tokens) /\ stack # <<>>
      /\ offset' \in AfterBlanks(P[n])
  BY <1>1, <1>2, LoopFacts
<1>5. offset' \in Nat
  BY <1>2, <1>4, BlanksInText
<1>6. \A q \in Int : Part("array", U[NestingLimit - n], P[n], q) <=>
        Element(U[NestingLimit - n], P[n], q)
  BY DEF Part
<1>7. Awaits(U[NestingLimit - n], C[n], P[n], offset')
  BY <1>1, <1>2, <1>4, <1>6, ElementsAwaited DEF Awaits
<1>8. OnCourse(C, n, pc', offset')
  BY <1>1, <1>2, <1>4, <1>5, <1>7, NextCourse
<1> QED BY <1>1, <1>2, <1>8, SameStack

\* The key of the open member changes, its container does not.
LEMMA SameContainers ==
  ASSUME OwnInv, stack # <<>>, NEW f \in Frames, f.container = Top.container, stack' = SetTop(f)
  PROVE  Len(stack') = Len(stack)
         /\ \A i \in 1 .. Len(stack) : stack'[i].container = stack[i].container
<1>1. stack \in Seq(Frames)
  BY DEF OwnInv
<1> QED BY <1>1, TopFacts, SetTopFacts

LEMMA NextMemberGrammar ==
  ASSUME OwnInv, GrammarInv, NextMember
  PROVE  GrammarInv'
<1>1. PICK n, U, O, P, C :
        /\ n \in 0 .. NestingLimit /\ n = Len(stack) /\ Course(U, O, P, C, n, pc, offset)
        /\ \A i \in 1 .. n : C[i] = stack[i].container
        /\ stack # <<>> => C[n] = Top.container
  BY CourseNow
<1>2. /\ pc = "loop" /\ Top.container = "object"
      /\ pc' = "value" /\ UNCHANGED <<input, requireEnd>>
  BY DEF NextMember
<1>3. /\ n \in 1 .. NestingLimit /\ P[n] \in Int /\ Begins(U[NestingLimit - n])
      /\ offset \in Nat /\ input \in Seq(Tokens) /\ stack # <<>> /\ stack \in Seq(Frames)
      /\ AfterBlanks(offset + 1) \subseteq AfterBlanks(P[n]) /\ offset + 1 \in Int
  BY <1>1, <1>2, LoopFacts
<1>4. PICK name \in AfterBlanks(offset + 1) :
        /\ ReadsString(name)
        /\ \E colon \in AfterBlanks(name + 1) : ColonAt(colon) /\ offset' \in AfterBlanks(colon + 1)
        /\ stack' = SetTop([Top EXCEPT !.key = input[name + 1]])
  BY Zenon DEF NextMember, ColonAt
<1>5. PICK colon \in AfterBlanks(name + 1) : ColonAt(colon) /\ offset' \in AfterBlanks(colon + 1)
  BY <1>4
<1>6. name \in Nat /\ name + 1 \in Int /\ colon \in Nat /\ colon + 1 \in Int
  <2>1. name \in Int /\ offset + 1 <= name
    BY <1>3, <1>4, BlanksInText
  <2>2. name \in Nat /\ name + 1 \in Int
    BY <1>3, <2>1
  <2>3. colon \in Int /\ name + 1 <= colon
    BY <1>3, <1>5, <2>2, BlanksInText
  <2> QED BY <2>2, <2>3
<1>7. offset' \in Nat
  BY <1>3, <1>5, <1>6, BlanksInText
<1>8. name \in AfterBlanks(P[n])
  BY <1>3, <1>4
<1>9. Awaits(U[NestingLimit - n], C[n], P[n], offset')
  <2>1. Awaits(U[NestingLimit - n], "object", P[n], offset')
    BY <1>3, <1>4, <1>5, <1>8, MembersAwaited
  <2> QED BY <1>1, <1>2, <1>3, <2>1
<1>10. OnCourse(C, n, pc', offset')
  BY <1>1, <1>2, <1>3, <1>7, <1>9, NextCourse
<1>11. PICK f : f = [Top EXCEPT !.key = input[name + 1]]
  OBVIOUS
<1>12. f \in Frames /\ f.container = Top.container /\ stack' = SetTop(f)
  <2>1. input[name + 1] \in Keys /\ Top \in Frames /\ stack' = SetTop(f)
    BY <1>3, <1>4, <1>6, <1>11, ReadsInText, TopFacts
  <2> QED BY <1>11, <2>1 DEF Frames
<1>13. Len(stack') = n /\ \A i \in 1 .. n : C[i] = stack'[i].container
  BY <1>1, <1>3, <1>12, SameContainers
<1> QED BY <1>2, <1>10, <1>13, CourseStep

LEMMA MalformedMemberGrammar ==
  ASSUME OwnInv, GrammarInv, MalformedMember
  PROVE  GrammarInv'
<1>1. PICK n, U, O, P, C :
        /\ n \in 0 .. NestingLimit /\ n = Len(stack) /\ Course(U, O, P, C, n, pc, offset)
        /\ \A i \in 1 .. n : C[i] = stack[i].container
        /\ stack # <<>> => C[n] = Top.container
  BY CourseNow
<1>2. /\ pc = "loop" /\ Top.container = "object"
      /\ pc' = "fail" /\ UNCHANGED <<input, requireEnd, stack>>
  BY DEF MalformedMember, Fails
<1>3. /\ n \in 1 .. NestingLimit /\ P[n] \in Int
      /\ offset \in Nat /\ input \in Seq(Tokens) /\ stack # <<>>
      /\ offset < Len(input) /\ P[n] <= offset + 1 /\ BlankSpan(P[n], offset + 1)
      /\ AfterBlanks(offset + 1) \subseteq AfterBlanks(P[n]) /\ offset + 1 \in Int
  BY <1>1, <1>2, LoopFacts
<1>4. \E name \in AfterBlanks(P[n]) :
         \/ ~ReadsString(name)
         \/ \E colon \in AfterBlanks(name + 1) : ~ColonAt(colon)
  <2>1. CASE offset + 1 >= Len(input)
    <3>1. Len(input) \in AfterBlanks(P[n]) /\ ~ReadsString(Len(input))
      <4>1. ~IsBlank(Len(input)) /\ ~ReadsString(Len(input))
        BY DEF IsBlank, Reads, ReadsString
      <4>2. Len(input) \in Nat /\ P[n] <= Len(input)
        BY <1>3
      <4>4. \A i \in P[n] .. Len(input) - 1 : IsBlank(i)
        BY <1>3, <2>1, <4>2 DEF BlankSpan
      <4> QED BY <1>3, <4>1, <4>2, <4>4 DEF AfterBlanks
    <3> QED BY <3>1
  <2>2. CASE ~(offset + 1 >= Len(input))
    <3>1. \E name \in AfterBlanks(offset + 1) :
             ~ReadsString(name) \/ \E colon \in AfterBlanks(name + 1) : ~ColonAt(colon)
      <4>1. Len(input) \in Nat
        BY <1>3
      <4>2. offset + 1 < Len(input)
        BY <1>3, <2>2, <4>1
      <4>3. ~(offset + 1 >= Len(input))
        BY <2>2
      <4> QED BY Zenon, <4>3 DEF MalformedMember, ColonAt
    <3> QED BY <1>3, <3>1
  <2> QED BY <2>1, <2>2
<1>5. \A q \in Int : ~Part(C[n], U[NestingLimit - n], P[n], q)
  <2>1. \A q \in Int : ~Part("object", U[NestingLimit - n], P[n], q)
    BY <1>3, <1>4, NoMember
  <2> QED BY <1>1, <1>2, <1>3, <2>1
<1>6. Course(U, O, P, C, n, pc', offset')
  <2>1. pc # "start" /\ n # 0
    BY <1>2, <1>3
  <2> QED BY <1>1, <1>2, <1>3, <1>5, <2>1, NoPartFails
<1>7. OnCourse(C, n, pc', offset')
  BY <1>6 DEF OnCourse
<1> QED BY <1>1, <1>2, <1>7, SameStack

LEMMA LinkItemGrammar ==
  ASSUME OwnInv, GrammarInv, LinkItem
  PROVE  GrammarInv'
<1>1. PICK n, U, O, P, C :
        /\ n \in 0 .. NestingLimit /\ n = Len(stack) /\ Course(U, O, P, C, n, pc, offset)
        /\ \A i \in 1 .. n : C[i] = stack[i].container
        /\ stack # <<>> => n \in 1 .. NestingLimit
  BY CourseNow
<1>2. /\ pc = "return" /\ stack # <<>> /\ offset' \in AfterBlanks(offset) /\ pc' = "linked"
      /\ stack' = SetTop([Top EXCEPT !.head = IF @ = None THEN ret ELSE @, !.tail = ret])
      /\ UNCHANGED <<input, requireEnd>>
  BY DEF LinkItem
<1>3. n \in 1 .. NestingLimit /\ offset \in Int /\ input \in Seq(Tokens)
  BY <1>1, <1>2 DEF OwnInv
<1>4. Course(U, O, P, C, n, "return", offset)
  BY <1>1, <1>2
<1>5. Course(U, O, P, C, n, "linked", offset')
  BY <1>2, <1>3, <1>4, LinkCourse
<1>6. OnCourse(C, n, pc', offset')
  BY <1>2, <1>5 DEF OnCourse
<1>7. PICK f : f = [Top EXCEPT !.head = IF @ = None THEN ret ELSE @, !.tail = ret]
  OBVIOUS
<1>8. f \in Frames /\ f.container = Top.container /\ stack' = SetTop(f)
  <2>1. Top \in Frames /\ ret \in Link
    BY <1>2, TopFacts DEF OwnInv
  <2> QED BY <1>2, <1>7, <2>1 DEF Frames
<1>9. Len(stack') = n /\ \A i \in 1 .. n : C[i] = stack'[i].container
  BY <1>1, <1>2, <1>8, SameContainers
<1> QED BY <1>2, <1>6, <1>9, CourseStep

LEMMA LinkedGrammar ==
  ASSUME OwnInv, GrammarInv, ContinueLoop \/ CloseContainer \/ ExpectedEnd
  PROVE  GrammarInv'
<1>1. PICK n, U, O, P, C :
        /\ n \in 0 .. NestingLimit /\ n = Len(stack) /\ Course(U, O, P, C, n, pc, offset)
        /\ \A i \in 1 .. n : C[i] = stack[i].container
        /\ stack # <<>> => n \in 1 .. NestingLimit /\ C[n] = Top.container
  BY CourseNow
<1>2. pc = "linked" /\ UNCHANGED <<input, requireEnd>>
  BY Zenon DEF ContinueLoop, CloseContainer, ExpectedEnd, Returns, Fails
<1>3. /\ stack # <<>> /\ stack \in Seq(Frames) /\ n \in 1 .. NestingLimit /\ C[n] = Top.container
      /\ offset \in Int /\ input \in Seq(Tokens)
  BY <1>1, <1>2 DEF OwnInv, PlaceInv
<1>4. Course(U, O, P, C, n, "linked", offset)
  BY <1>1, <1>2
<1>5. /\ CommaAt(offset) => OnCourse(C, n, "loop", offset)
      /\ ClosesAt(C[n], offset) => OnCourse(C, n - 1, "return", offset + 1)
      /\ ~CommaAt(offset) /\ ~ClosesAt(C[n], offset) => OnCourse(C, n, "fail", offset)
  BY <1>3, <1>4, LinkedCourse
<1>6. CASE ContinueLoop
  <2>1. CommaAt(offset) /\ pc' = "loop" /\ UNCHANGED <<offset, stack>>
    BY Zenon, <1>6 DEF ContinueLoop, CommaAt
  <2> QED BY <1>1, <1>2, <1>5, <2>1, SameStack
<1>7. CASE ExpectedEnd
  <2>1. /\ ~CommaAt(offset) /\ ~ClosesAt(C[n], offset) /\ pc' = "fail" /\ offset' = offset
        /\ stack' = stack
    BY Zenon, <1>3, <1>7 DEF ExpectedEnd, Fails, CommaAt, ClosesAt
  <2> QED BY <1>1, <1>2, <1>5, <2>1, SameStack
<1>8. CASE CloseContainer
  <2>1. /\ ClosesAt(C[n], offset) /\ pc' = "return" /\ offset' = offset + 1 /\ stack' = Pop
    BY <1>3, <1>8 DEF CloseContainer, Returns, ClosesAt
  <2>2. /\ Len(stack') = n - 1
        /\ \A i \in 1 .. n - 1 : C[i] = stack'[i].container
    <3>1. Len(Pop) = n - 1 /\ Pop \in Seq(Frames) /\ \A i \in DOMAIN Pop : Pop[i] = stack[i]
      BY <1>1, <1>3, PopFacts
    <3>2. \A i \in 1 .. n - 1 : i \in DOMAIN Pop /\ i \in 1 .. n
      BY <1>3, <3>1
    <3> QED BY <1>1, <2>1, <3>1, <3>2
  <2>3. OnCourse(C, n - 1, pc', offset')
    BY <1>5, <2>1
  <2> QED BY <1>2, <2>2, <2>3, CourseStep
<1> QED BY <1>6, <1>7, <1>8

LEMMA AbandonGrammar ==
  ASSUME OwnInv, GrammarInv, Abandon
  PROVE  GrammarInv'
<1>1. PICK n, U, O, P, C :
        /\ n \in 0 .. NestingLimit /\ n = Len(stack) /\ Course(U, O, P, C, n, pc, offset)
        /\ \A i \in 1 .. n : C[i] = stack[i].container
        /\ stack # <<>> => n \in 1 .. NestingLimit
  BY CourseNow
<1>2. /\ pc = "fail" /\ stack # <<>> /\ stack' = Pop
      /\ UNCHANGED <<input, requireEnd, offset, pc>>
  BY DEF Abandon
<1>3. stack \in Seq(Frames) /\ n \in 1 .. NestingLimit /\ input \in Seq(Tokens)
  BY <1>1, <1>2 DEF OwnInv
<1>4. OnCourse(C, n - 1, pc', offset')
  BY <1>1, <1>2, <1>3, AbandonCourse
<1>5. /\ Len(stack') = n - 1
      /\ \A i \in 1 .. n - 1 : C[i] = stack'[i].container
  <2>1. Len(Pop) = n - 1 /\ Pop \in Seq(Frames) /\ \A i \in DOMAIN Pop : Pop[i] = stack[i]
    BY <1>1, <1>2, <1>3, PopFacts
  <2>2. \A i \in 1 .. n - 1 : i \in DOMAIN Pop /\ i \in 1 .. n
    BY <1>3, <2>1
  <2> QED BY <1>1, <1>2, <2>1, <2>2
<1> QED BY <1>2, <1>4, <1>5, CourseStep

LEMMA EndGrammar ==
  ASSUME OwnInv, GrammarInv, Reject \/ Accept \/ RejectTrailing
  PROVE  GrammarInv'
<1>1. PICK n, U, O, P, C :
        /\ n = Len(stack) /\ Course(U, O, P, C, n, pc, offset)
        /\ \A i \in 1 .. n : C[i] = stack[i].container
        /\ stack = <<>> => n = 0
  BY CourseNow
<1>2. stack = <<>> /\ UNCHANGED <<input, requireEnd, stack>>
  BY DEF Reject, Accept, RejectTrailing
<1>3. n = 0 /\ input \in Seq(Tokens) /\ offset \in 0 .. Len(input)
  BY <1>1, <1>2 DEF OwnInv
<1>4. Course(U, O, P, C, 0, pc, offset)
  BY <1>1, <1>3
<1>5. Course(U, O, P, C, 0, pc', offset')
  <2>1. CASE Reject
    BY <1>3, <1>4, <2>1, EndCourse DEF Reject
  <2>2. CASE Accept
    BY <1>3, <1>4, <2>2, EndCourse DEF Accept
  <2>3. CASE RejectTrailing
    BY <1>3, <1>4, <2>3, EndCourse DEF RejectTrailing
  <2> QED BY <2>1, <2>2, <2>3
<1>6. OnCourse(C, n, pc', offset')
  BY <1>3, <1>5 DEF OnCourse
<1> QED BY <1>1, <1>2, <1>6, SameStack

LEMMA GrammarInvStep ==
  ASSUME ParserInv, GrammarInv, [ParseNext]_pvars
  PROVE  GrammarInv'
<1>1. OwnInv
  BY TextInvIsOwnInv DEF ParserInv
<1>2. CASE UNCHANGED pvars
  <2>1. UNCHANGED <<input, requireEnd, stack, pc, offset>>
    BY <1>2 DEF pvars, parser
  <2>2. PICK C : /\ \A i \in 1 .. Len(stack) : C[i] = stack[i].container
                 /\ OnCourse(C, Len(stack), pc, offset)
    BY Zenon DEF GrammarInv
  <2> QED BY <2>1, <2>2, CourseStep
<1> QED
  BY Zenon, <1>1, <1>2, BeginGrammar, ParseValueGrammar, EnterGrammar, NextElementGrammar,
     NextMemberGrammar, MalformedMemberGrammar, LinkItemGrammar, LinkedGrammar, AbandonGrammar,
     EndGrammar DEF ParseNext, Containers

LEMMA GrammarInvInit == ParseInit => GrammarInv
<1> SUFFICES ASSUME ParseInit PROVE GrammarInv
  OBVIOUS
<1>1. PICK U : Graded(U)
  <2>1. PICK D : D = SUBSET Spans
    OBVIOUS
  <2>2. Simple \in D /\ \A V : Compound(V) \in D
    BY <2>1 DEF Simple, Compound
  <2>3. PICK a, f : a = Simple /\ f = [V \in D |-> Simple \cup Compound(V)]
    OBVIOUS
  <2>4. \A V \in D : Simple \cup Compound(V) \in D
    <3> SUFFICES ASSUME NEW V \in D PROVE Simple \cup Compound(V) \in D
      OBVIOUS
    <3>1. PICK W : W = Compound(V)
      OBVIOUS
    <3>2. Simple \in SUBSET Spans /\ W \in SUBSET Spans
      BY <2>1, <2>2, <3>1
    <3> QED BY <2>1, <3>1, <3>2
  <2>5. f \in [D -> D] /\ a \in D
    BY <2>2, <2>3, <2>4
  <2>6. PICK U \in [Nat -> D] : U[0] = a /\ \A j \in Nat : U[j + 1] = f[U[j]]
    BY ONLY <2>5, Iteration
  <2>7. \A j \in Nat : U[j + 1] = Simple \cup Compound(U[j])
    BY <2>3, <2>6
  <2> QED BY <2>3, <2>6, <2>7 DEF Graded
<1>2. PICK O, P, C : /\ O = [i \in Nat |-> 0] /\ P = [i \in Nat |-> 0]
                     /\ C = [i \in Nat |-> "array"]
  OBVIOUS
<1>3. O \in [Nat -> Nat] /\ P \in [Nat -> Int] /\ C \in [Nat -> Containers]
  BY <1>2 DEF Containers
<1>4. stack = <<>> /\ Len(stack) = 0 /\ pc = "start" /\ \A i \in 1 .. 0 : FALSE
  BY DEF ParseInit
<1>5. Knows(U, O, P, C, 0, "start", offset)
  BY DEF Knows
<1>6. Course(U, O, P, C, 0, "start", offset)
  BY <1>1, <1>3, <1>4, <1>5 DEF Course
<1> QED BY <1>4, <1>6 DEF GrammarInv, OnCourse

\* The levels of the grammar are the ghost's.
LEMMA ValuesAre ==
  ASSUME NEW U, Graded(U)
  PROVE  Values = U[NestingLimit]
<1> DEFINE Upto(d, g) == IF d = 0 THEN Simple ELSE Simple \cup Compound(g[d - 1])
           Levels == CHOOSE g : g = [d \in Nat |-> Upto(d, g)]
<1>1. Values = Levels[NestingLimit]
  BY Zenon DEF Values
<1>2. PICK h : h = [d \in Nat |-> U[d]]
  OBVIOUS
<1>3. h = [d \in Nat |-> Upto(d, h)]
  <2>1. ASSUME NEW d \in Nat PROVE U[d] = Upto(d, h)
    <3>1. d # 0 => d - 1 \in Nat
      OBVIOUS
    <3>2. d # 0 => h[d - 1] = U[d - 1]
      BY <1>2, <3>1
    <3> QED BY <3>2, GradedIs
  <2> HIDE DEF Upto
  <2> QED BY <1>2, <2>1
<1>4. PICK g : g = Levels
  OBVIOUS
<1>5. g = [d \in Nat |-> Upto(d, g)]
  <2> HIDE DEF Upto
  <2> QED BY Zenon, <1>3, <1>4
<1>6. \A d \in Nat : g[d] = U[d]
  <2> DEFINE Good == {d \in Nat : g[d] = U[d]}
  <2>1. 0 \in Good
    <3>1. U[0] = Simple
      BY DEF Graded
    <3>2. g[0] = Simple
      BY <1>5
    <3> QED BY <3>1, <3>2
  <2>2. ASSUME NEW d \in Nat, d \in Good PROVE d + 1 \in Good
    <3>1. g[d + 1] = Simple \cup Compound(g[d])
      <4>1. d + 1 \in Nat /\ d + 1 # 0 /\ (d + 1) - 1 = d
        OBVIOUS
      <4>2. g[d + 1] = Upto(d + 1, g)
        <5> HIDE DEF Upto
        <5> QED BY <1>5, <4>1
      <4> QED BY <4>1, <4>2
    <3>2. g[d] = U[d]
      BY <2>2
    <3>3. U[d + 1] = Simple \cup Compound(U[d])
      BY DEF Graded
    <3> QED BY <3>1, <3>2, <3>3
  <2>3. Nat \subseteq Good
    <3> HIDE DEF Good
    <3> QED BY <2>1, <2>2, SetInduction
  <2> QED BY <2>3
<1> HIDE DEF Levels, Upto
<1> QED BY <1>1, <1>4, <1>6, NestingLimitAssumption

\* Where the leading value begins is no choice.
LEMMA LeadingIs ==
  ASSUME input \in Seq(Tokens), NEW U, Graded(U), NEW a \in Nat,
         input # <<>> => a \in AfterBlanks(AfterBOM)
  PROVE  \A s : s \in Leading <=> s = <<a, s[2]>> /\ <<a, s[2]>> \in U[NestingLimit] /\ input # <<>>
<1>1. PICK V : V = U[NestingLimit] /\ V = Values /\ Begins(V)
  BY ValuesAre, GradedBegins, NestingLimitAssumption
<1>2. AfterBOM \in Int
  BY DEF AfterBOM
<1>3. input # <<>> => /\ AfterBOM <= a /\ BlankSpan(AfterBOM, a)
                      /\ \A q \in Int : AfterBOM <= q /\ BlankSpan(AfterBOM, q) /\ ~IsBlank(q) => q = a
  BY <1>2, BlanksEnd
<1>4. \A s \in V : /\ s[1] \in Int /\ s = <<s[1], s[2]>> /\ ~IsBlank(s[1]) /\ input # <<>>
  <2> SUFFICES ASSUME NEW s \in V
               PROVE  s[1] \in Int /\ s = <<s[1], s[2]>> /\ ~IsBlank(s[1]) /\ input # <<>>
    OBVIOUS
  <2>1. /\ s \in Int \X Int /\ s = <<s[1], s[2]>> /\ 0 <= s[1] /\ s[1] < s[2] /\ s[2] <= Len(input)
        /\ StartsAt(s[1])
    BY <1>1 DEF Begins
  <2>2. ~IsBlank(s[1])
    BY <2>1, TokensApart
  <2>3. s[1] \in Int /\ s[2] \in Int /\ Len(input) > 0
    BY <2>1
  <2>4. input # <<>>
    BY <2>3
  <2> QED BY <2>1, <2>2, <2>3, <2>4
<1>5. \A s : s \in Leading <=> s \in V /\ s[1] >= AfterBOM /\ BlankSpan(AfterBOM, s[1])
  BY <1>1 DEF Leading
<1>6. ASSUME NEW s, s \in Leading
      PROVE  s = <<a, s[2]>> /\ <<a, s[2]>> \in V /\ input # <<>>
  <2>1. s \in V /\ s[1] >= AfterBOM /\ BlankSpan(AfterBOM, s[1])
    BY <1>5, <1>6
  <2>2. s[1] \in Int /\ s = <<s[1], s[2]>> /\ ~IsBlank(s[1]) /\ input # <<>>
    BY <1>4, <2>1
  <2>3. s[1] = a
    BY <1>2, <1>3, <2>1, <2>2
  <2> QED BY <2>1, <2>2, <2>3
<1>7. ASSUME NEW s, s = <<a, s[2]>>, <<a, s[2]>> \in V, input # <<>> PROVE s \in Leading
  <2>1. <<a, s[2]>>[1] = a
    OBVIOUS
  <2>2. s \in V /\ s[1] = a
    BY Zenon, <1>7, <2>1
  <2> QED BY <1>2, <1>3, <1>5, <1>7, <2>2
<1> QED BY <1>1, <1>6, <1>7

LEMMA GrammarMeans ==
  ASSUME ParserInv, GrammarInv
  PROVE  AcceptsTheGrammar
<1> SUFFICES ASSUME pc \in {"accepted", "rejected"}
             PROVE  IF \E s \in Leading : requireEnd => BlankSpan(s[2], Len(input))
                      THEN /\ pc = "accepted"
                           /\ \A s \in Leading : offset = IF requireEnd THEN Len(input) ELSE s[2]
                      ELSE pc = "rejected"
  BY Zenon DEF AcceptsTheGrammar
<1>1. OwnInv
  BY TextInvIsOwnInv DEF ParserInv
<1>2. PICK n, U, O, P, C :
        n = Len(stack) /\ Course(U, O, P, C, n, pc, offset) /\ (stack = <<>> => n = 0)
  BY <1>1, CourseNow
<1>3. n = 0 /\ pc # "start" /\ input \in Seq(Tokens)
  BY <1>1, <1>2 DEF OwnInv, PlaceInv
<1>4. PICK V, a : /\ V = U[NestingLimit] /\ a = O[1]
  OBVIOUS
<1>5. /\ Graded(U) /\ a \in Nat /\ (input # <<>> => a \in AfterBlanks(AfterBOM))
      /\ Knows(U, O, P, C, n, pc, offset)
  BY <1>2, <1>3, <1>4 DEF Course
<1>6. \A s : s \in Leading <=> s = <<a, s[2]>> /\ <<a, s[2]>> \in V /\ input # <<>>
  BY <1>3, <1>4, <1>5, LeadingIs
<1>7. ASSUME NEW e, ValueEnds(V, a, e), input # <<>>
      PROVE  <<a, e>> \in Leading /\ <<a, e>>[2] = e /\ \A s \in Leading : s[2] = e
  <2>1. \A q : <<a, q>> \in V <=> q = e
    BY <1>7 DEF ValueEnds
  <2>2. <<a, e>>[2] = e
    OBVIOUS
  <2>3. <<a, e>> \in Leading
    BY Zenon, <1>6, <1>7, <2>1, <2>2
  <2>4. \A s \in Leading : s[2] = e
    BY Zenon, <1>6, <2>1
  <2> QED BY <2>2, <2>3, <2>4
<1>8. V = {} \/ input # <<>>
  <2>1. Begins(V)
    BY <1>3, <1>4, <1>5, GradedBegins, NestingLimitAssumption
  <2>2. ASSUME NEW s \in V PROVE input # <<>>
    <3>1. s \in Int \X Int /\ 0 <= s[1] /\ s[1] < s[2] /\ s[2] <= Len(input)
      BY <2>1 DEF Begins
    <3>2. Len(input) > 0
      BY <1>3, <3>1
    <3> QED BY <3>2
  <2> QED BY <2>2
<1>9. CASE pc = "accepted"
  <2>1. PICK e \in Int : /\ ValueEnds(V, a, e)
                         /\ IF requireEnd THEN BlankSpan(e, Len(input)) /\ offset = Len(input)
                                          ELSE offset = e
    BY <1>4, <1>5, <1>9 DEF Knows
  <2>2. input # <<>>
    BY <1>8, <2>1 DEF ValueEnds
  <2>3. <<a, e>> \in Leading /\ <<a, e>>[2] = e /\ \A s \in Leading : s[2] = e
    BY <1>7, <2>1, <2>2
  <2>4. \E s \in Leading : requireEnd => BlankSpan(s[2], Len(input))
    BY Zenon, <2>1, <2>3
  <2> QED BY Zenon, <1>9, <2>1, <2>3, <2>4
<1>10. CASE pc = "rejected"
  <2>1. \/ input = <<>> \/ Dead(V, a)
        \/ requireEnd /\ \E e \in Int : ValueEnds(V, a, e) /\ ~BlankSpan(e, Len(input))
    BY <1>4, <1>5, <1>10 DEF Knows
  <2>2. CASE input = <<>> \/ Dead(V, a)
    <3>1. \A s : s \notin Leading
      BY Zenon, <1>6, <2>2 DEF Dead
    <3> QED BY Zenon, <1>10, <3>1
  <2>3. CASE input # <<>> /\ requireEnd /\ \E e \in Int : ValueEnds(V, a, e) /\ ~BlankSpan(e, Len(input))
    <3>1. PICK e \in Int : ValueEnds(V, a, e) /\ ~BlankSpan(e, Len(input))
      BY <2>3
    <3>2. \A s \in Leading : s[2] = e
      BY <1>7, <2>3, <3>1
    <3>3. \A s \in Leading : ~(requireEnd => BlankSpan(s[2], Len(input)))
      BY Zenon, <2>3, <3>1, <3>2
    <3> QED BY Zenon, <1>10, <3>3
  <2> QED BY <2>1, <2>2, <2>3
<1> QED BY <1>9, <1>10

\* The parser accepts exactly the texts that begin with a value of the grammar, of
\* at most CJSON_NESTING_LIMIT nested containers (and, when the caller asks for the
\* terminator, have nothing but blanks behind it), and the end it reports is the
\* end of that value.
THEOREM ParsesTheGrammar == ParseSpec => []AcceptsTheGrammar
<1>1. ParserInv /\ GrammarInv /\ [ParseNext]_pvars => GrammarInv'
  BY GrammarInvStep
<1> QED BY <1>1, GrammarInvInit, ParserInvAlways, GrammarMeans, PTL DEF ParseSpec
=============================================================================
