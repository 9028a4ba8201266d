---------------------------- MODULE ReadersProofs ----------------------------
(***************************************************************************)
(* For every text, every set of keys and every nesting limit: the trees a  *)
(* parse builds spell the text, what compare tells of them, and that they  *)
(* are printed as the text.                                                *)
(*                                                                         *)
(* NodesInv says what the parser puts into its nodes.  compare and Meaning *)
(* are functions that call themselves on the nodes below; such a function  *)
(* exists because a node has more nodes below it than each of its children *)
(* (Height), and facts about it are proved by an induction over a set of   *)
(* heights.                                                                *)
(***************************************************************************)
EXTENDS Readers, ForestProofs, ParserProofs

-----------------------------------------------------------------------------
(* What the parser puts into a node. *)

Contents == Containers \cup Scalars \cup Keys

\* A list under construction has keys exactly in an object, and its call a key while
\* a value is being parsed for it.
KeyedFrame(frame) ==
  /\ frame.container = "array" => frame.key = None
  /\ frame.head # None => /\ key[frame.head] # None <=> frame.container = "object"
                          /\ key[frame.tail] # None <=> frame.container = "object"

\* Every live node holds something, only containers have children, and the nodes of a
\* list have keys from an object's head on.
NodesInv ==
  /\ \A n \in Live : kind[n] \in Contents
  /\ \A n \in Live : child[n] # None => kind[n] \in Containers
  /\ \A n \in Live : key[n] # None /\ next[n] # None => key[next[n]] # None
  /\ \A n \in Live : kind[n] = "object" /\ child[n] # None => key[child[n]] # None
  /\ \A i \in DOMAIN stack : KeyedFrame(stack[i])
  /\ \A i \in DOMAIN stack :
       stack[i].container = "object" /\ (i # Len(stack) \/ pc \in {"value", "return"}) =>
         stack[i].key # None

LEMMA NodesInvInit == ParseInit => NodesInv
BY DEF ParseInit, NodesInv, Init, Live, InBounds

\* Live nodes link to live nodes only, and so do the calls.
LiveLinks ==
  /\ Live \subseteq NodeIds /\ None \notin Live
  /\ next \in [NodeIds -> Link] /\ child \in [NodeIds -> Link]
  /\ \A n \in Live : next[n] \in Live \cup {None} /\ child[n] \in Live \cup {None}
  /\ \A i \in DOMAIN stack : stack[i].head # None => stack[i].head \in Live
       /\ stack[i].tail \in Live
  /\ ret # None => ret \in Live
  /\ \A h \in Hands : \A m \in Live : next[m] # h /\ child[m] # h

LEMMA HandsAreLive == HandInv => LiveLinks
<1> SUFFICES ASSUME HandInv PROVE LiveLinks
  OBVIOUS
<1> USE NoneIsNoNode
<1>1. /\ Hands \subseteq Live /\ Live \subseteq NodeIds
      /\ next \in [NodeIds -> Link] /\ child \in [NodeIds -> Link]
      /\ \A h \in Hands : Tree(next, child, h) \subseteq Live
      /\ \A h \in Hands : \A m \in Live : next[m] # h /\ child[m] # h
  BY GrownFacts DEF HandInv
<1>2. \A n \in Live : Into(NoRefs, next, child, n, Live)
  BY DEF HandInv, Grown, Consistent
<1>3. \A n \in Live : next[n] \in Live \cup {None} /\ child[n] \in Live \cup {None}
  BY <1>1, <1>2 DEF Into, NoRefs
<1>4. \A i \in DOMAIN stack : stack[i].head # None => stack[i].head \in Live
        /\ stack[i].tail \in Live
  BY <1>1, HandsAre DEF HandInv, FrameInv
<1>5. ret # None => ret \in Live
  BY <1>1, HandsAre
<1> QED BY <1>1, <1>3, <1>4, <1>5 DEF LiveLinks

LEMMA HandsAreLiveNext == (HandInv => LiveLinks)'
BY HandsAreLive, PTL

\* Nothing changes but the calls' place.
LEMMA IdleNodes ==
  ASSUME NodesInv, UNCHANGED <<vars, kind, stack>>,
         pc' \in {"value", "return"} => pc \in {"value", "return"}
  PROVE  NodesInv'
BY DEF NodesInv, KeyedFrame, vars, Live, InBounds

\* A new node on top of the list from c.
LEMMA ReturnsNodes ==
  ASSUME NodesInv, OwnInv, HandInv, BoundsInv, NEW c \in Live \cup {None}, NEW k \in Contents,
         Returns(c, k), c # None => k \in Containers /\ (k = "object" => key[c] # None),
         \A i \in DOMAIN stack' : i \in DOMAIN stack /\ stack'[i] = stack[i],
         \A i \in DOMAIN stack' : stack[i].container = "object" => stack[i].key # None
  PROVE  NodesInv'
<1>1. /\ size \in NodeIds \ Live /\ Live' = Live \cup {size}
  <2>1. size \in 0 .. MaxNodes /\ deleted \subseteq InBounds /\ size < MaxNodes
        /\ size' = size + 1 /\ deleted' = deleted
    BY DEF BoundsInv, TypeOK, LinksInBounds, Returns, Alloc
  <2> QED BY <2>1, MaxNodesAssumption DEF Live, InBounds, NodeIds
<1>2. /\ Live \subseteq NodeIds /\ None \notin Live
      /\ next \in [NodeIds -> Link] /\ child \in [NodeIds -> Link] /\ kind \in [NodeIds -> Kinds]
      /\ \A n \in Live : next[n] \in Live \cup {None} /\ child[n] \in Live \cup {None}
      /\ \A i \in DOMAIN stack : stack[i].head # None => stack[i].head \in Live
           /\ stack[i].tail \in Live
  BY HandsAreLive DEF OwnInv, LiveLinks
<1>3. next[size] = None
  BY <1>1, NoneIsNoNode, GrownFacts DEF HandInv
<1>4. /\ next' = next /\ key' = key /\ child' = [child EXCEPT ![size] = c]
      /\ kind' = [kind EXCEPT ![size] = k]
  BY DEF Returns, Alloc
<1>5. /\ child'[size] = c /\ kind'[size] = k
      /\ \A n \in Live : child'[n] = child[n] /\ kind'[n] = kind[n]
  BY <1>1, <1>2, <1>4
<1>6. \A n \in Live' : /\ kind'[n] \in Contents
                       /\ child'[n] # None => kind'[n] \in Containers
                       /\ key'[n] # None /\ next'[n] # None => key'[next'[n]] # None
                       /\ kind'[n] = "object" /\ child'[n] # None => key'[child'[n]] # None
  BY <1>1, <1>3, <1>4, <1>5 DEF NodesInv
<1>7. \A i \in DOMAIN stack' : KeyedFrame(stack[i])'
  BY <1>4 DEF NodesInv, KeyedFrame
<1>8. \A i \in DOMAIN stack' : stack'[i].container = "object" => stack'[i].key # None
  OBVIOUS
<1> QED BY <1>6, <1>7, <1>8 DEF NodesInv

\* The list of one hand is deleted.
LEMMA DeletesNodes ==
  ASSUME NodesInv, HandInv, HandInv', NEW h, Delete(h), kind' = kind,
         \A i \in DOMAIN stack' : i \in DOMAIN stack /\ stack'[i] = stack[i],
         pc' \notin {"value", "return"},
         \A i \in DOMAIN stack' : i # Len(stack)
  PROVE  NodesInv'
<1>1. PICK D : /\ deleted' = deleted \cup D /\ size' = size
               /\ next' = Cleared(next, D) /\ child' = Cleared(child, D)
               /\ \E M : M \subseteq D /\ key' = Cleared(key, M)
  <2>1. {m \in Owned(next, child, h) : ~isRef[m]} \subseteq Owned(next, child, h)
    OBVIOUS
  <2> QED BY <2>1 DEF Delete, DeleteChain
<1>2. PICK M : M \subseteq D /\ key' = Cleared(key, M)
  BY <1>1
<1>3. Live' = Live \ D /\ Live \subseteq NodeIds
  BY <1>1, HandsAreLive DEF LiveLinks, Live, InBounds
<1>4. \A n \in Live' : next'[n] = next[n] /\ child'[n] = child[n] /\ key'[n] = key[n]
        /\ n \in Live
  BY <1>1, <1>2, <1>3 DEF Cleared
<1>5. /\ \A n \in Live' : next'[n] \in Live' \cup {None} /\ child'[n] \in Live' \cup {None}
      /\ \A i \in DOMAIN stack' : stack'[i].head # None => stack'[i].head \in Live'
           /\ stack'[i].tail \in Live'
  BY HandsAreLiveNext DEF LiveLinks
<1>6. \A n \in Live' : /\ kind'[n] \in Contents
                       /\ child'[n] # None => kind'[n] \in Containers
                       /\ key'[n] # None /\ next'[n] # None => key'[next'[n]] # None
                       /\ kind'[n] = "object" /\ child'[n] # None => key'[child'[n]] # None
  BY <1>4, <1>5 DEF NodesInv
<1>7. \A i \in DOMAIN stack' : KeyedFrame(stack[i])'
  BY <1>4, <1>5 DEF NodesInv, KeyedFrame
<1>8. \A i \in DOMAIN stack' : stack'[i].container = "object" => stack'[i].key # None
  BY DEF NodesInv
<1> QED BY <1>6, <1>7, <1>8 DEF NodesInv

LEMMA EnterNodes ==
  ASSUME NodesInv, OwnInv, NEW container \in Containers, Enter(container)
  PROVE  NodesInv'
<1> DEFINE fresh == Frame(container)
<1>1. fresh \in Frames /\ fresh.head = None /\ fresh.key = None
  BY DEF Frame, Frames, Link, Containers
<1>2. stack \in Seq(Frames) /\ stack' = Append(stack, fresh) /\ UNCHANGED <<vars, kind>>
        /\ pc' = "loop"
  BY DEF OwnInv, Enter
<1>7. pc = "value" /\ Len(stack) \in Nat
  <2>1. Opens(container)
    BY DEF Enter
  <2> QED BY <1>2, <2>1, OpensAtAValue
<1> HIDE DEF fresh
<1>3. /\ DOMAIN stack' = DOMAIN stack \cup {Len(stack) + 1} /\ Len(stack') = Len(stack) + 1
      /\ stack'[Len(stack) + 1] = fresh /\ \A i \in DOMAIN stack : stack'[i] = stack[i]
  BY <1>1, <1>2, PushFacts
<1>4. UNCHANGED <<key, next, child, Live>>
  BY <1>2 DEF vars, Live, InBounds
<1>5. \A i \in DOMAIN stack' : KeyedFrame(stack[i])'
  BY <1>1, <1>3, <1>4 DEF NodesInv, KeyedFrame
<1>6. \A i \in DOMAIN stack' : stack'[i].container = "object" /\ i # Len(stack')
        => stack'[i].key # None
  BY <1>2, <1>3, <1>7 DEF NodesInv
<1> QED BY <1>2, <1>4, <1>5, <1>6 DEF NodesInv

LEMMA NextElementNodes ==
  ASSUME NodesInv, NextElement, OwnInv
  PROVE  NodesInv'
<1>1. UNCHANGED <<vars, kind, stack>> /\ Top.container = "array" /\ Top = stack[Len(stack)]
  BY DEF NextElement, Top
<1> QED BY <1>1 DEF NodesInv, KeyedFrame, vars, Live, InBounds

LEMMA NextMemberNodes ==
  ASSUME NodesInv, OwnInv, NextMember
  PROVE  NodesInv'
<1>1. stack \in Seq(Frames) /\ stack # <<>> /\ offset \in Int /\ input \in Seq(Tokens)
  BY DEF OwnInv, PlaceInv, NextMember
<1>2. UNCHANGED <<vars, kind>> /\ Top.container = "object"
  BY DEF NextMember
<1>3. PICK name \in AfterBlanks(offset + 1) :
        ReadsString(name) /\ stack' = SetTop([Top EXCEPT !.key = input[name + 1]])
  BY DEF NextMember
<1> DEFINE f == [Top EXCEPT !.key = input[name + 1]]
<1>4. /\ f \in Frames /\ f.head = Top.head /\ f.tail = Top.tail /\ f.container = Top.container
      /\ f.key # None
  <2>1. name \in Int
    BY <1>1, BlanksInText
  <2>2. input[name + 1] \in Keys
    BY <1>1, <1>3, <2>1, ReadsInText
  <2> QED BY <1>1, <2>2, TopFacts, NoneAssumption DEF Frames
<1> HIDE DEF f
<1>5. stack' = SetTop(f)
  BY <1>3 DEF f
<1>6. /\ DOMAIN stack' = DOMAIN stack /\ stack'[Len(stack)] = f /\ Len(stack') = Len(stack)
      /\ \A i \in DOMAIN stack : i # Len(stack) => stack'[i] = stack[i]
      /\ Top = stack[Len(stack)] /\ Len(stack) \in DOMAIN stack
  BY <1>1, <1>4, <1>5, SetTopFacts, TopFacts
<1>7. UNCHANGED <<key, next, child, Live>>
  BY <1>2 DEF vars, Live, InBounds
<1>8. \A i \in DOMAIN stack' : KeyedFrame(stack[i])'
  BY <1>2, <1>4, <1>6, <1>7 DEF NodesInv, KeyedFrame
<1>9. \A i \in DOMAIN stack' : stack'[i].container = "object" => stack'[i].key # None
  BY <1>4, <1>6 DEF NodesInv
<1> QED BY <1>2, <1>7, <1>8, <1>9 DEF NodesInv

LEMMA CloseContainerNodes ==
  ASSUME NodesInv, OwnInv, HandInv, BoundsInv, CloseContainer
  PROVE  NodesInv'
<1>1. stack \in Seq(Frames) /\ stack # <<>> /\ Returns(Top.head, Top.container) /\ stack' = Pop
  BY DEF OwnInv, PlaceInv, CloseContainer
<1>2. /\ DOMAIN stack' = DOMAIN stack \ {Len(stack)}
      /\ \A i \in DOMAIN stack' : stack'[i] = stack[i]
      /\ Top = stack[Len(stack)] /\ Len(stack) \in DOMAIN stack /\ Top \in Frames
  BY <1>1, PopFacts, TopFacts
<1>3. Top.head \in Live \cup {None} /\ Top.container \in Containers
        /\ Containers \subseteq Contents
  BY <1>2, HandsAreLive DEF LiveLinks, Frames, Containers, Contents
<1> QED BY <1>1, <1>2, <1>3, ReturnsNodes DEF NodesInv, KeyedFrame

LEMMA AbandonNodes ==
  ASSUME NodesInv, OwnInv, HandInv, HandInv', Abandon
  PROVE  NodesInv'
<1>1. stack \in Seq(Frames) /\ stack # <<>> /\ kind' = kind /\ pc' = "fail" /\ pc = "fail"
  BY DEF OwnInv, Abandon
<1>2. stack' = Pop /\ IF Top.head = None THEN UNCHANGED vars ELSE Delete(Top.head)
  BY DEF Abandon, Leave
<1>3. /\ DOMAIN stack' = DOMAIN stack \ {Len(stack)}
      /\ \A i \in DOMAIN stack' : stack'[i] = stack[i]
  BY <1>1, <1>2, PopFacts
<1>4. CASE Top.head # None
  BY <1>1, <1>2, <1>3, <1>4, DeletesNodes
<1>5. CASE Top.head = None
  <2>1. UNCHANGED <<key, next, child, Live>>
    BY <1>2, <1>5 DEF vars, Live, InBounds
  <2> QED BY <1>1, <1>3, <2>1 DEF NodesInv, KeyedFrame
<1> QED BY <1>4, <1>5

LEMMA RejectTrailingNodes ==
  ASSUME NodesInv, HandInv, HandInv', RejectTrailing
  PROVE  NodesInv'
<1>1. stack = <<>> /\ stack' = <<>> /\ kind' = kind /\ pc' = "rejected" /\ Delete(ret)
  BY DEF RejectTrailing
<1>2. DOMAIN stack' = {}
  BY <1>1
<1> QED BY <1>1, <1>2, DeletesNodes

LEMMA LinkItemNodes ==
  ASSUME NodesInv, OwnInv, HandInv, BoundsInv, LinkItem
  PROVE  NodesInv'
<1> USE NoneIsNoNode
<1>1. /\ stack \in Seq(Frames) /\ stack # <<>> /\ ret # None /\ ret \in Link
      /\ UNCHANGED <<size, deleted, child, isRef, kind>>
      /\ key' = [key EXCEPT ![ret] = Top.key]
      /\ pc = "return" /\ pc' = "linked"
  BY DEF OwnInv, PlaceInv, LinkItem
<1> DEFINE f == [Top EXCEPT !.head = IF @ = None THEN ret ELSE @, !.tail = ret]
<1>2. /\ f \in Frames /\ f.head = (IF Top.head = None THEN ret ELSE Top.head) /\ f.tail = ret
      /\ f.key = Top.key /\ f.container = Top.container
  BY <1>1, TopFacts DEF Frames
<1> HIDE DEF f
<1>3. /\ DOMAIN stack' = DOMAIN stack /\ stack'[Len(stack)] = f /\ Len(stack') = Len(stack)
      /\ \A i \in DOMAIN stack : i # Len(stack) => stack'[i] = stack[i]
      /\ Top = stack[Len(stack)] /\ Top \in Frames /\ Len(stack) \in DOMAIN stack
  <2>1. stack' = SetTop(f)
    BY DEF LinkItem, f
  <2> QED BY <1>1, <1>2, <2>1, SetTopFacts, TopFacts
<1>4. /\ LiveLinks /\ next[ret] = None /\ ret \in Live /\ ret \in Hands
      /\ \A i \in DOMAIN stack : stack[i].head # ret
      /\ FrameInv(Top)
  BY <1>1, HandsAreLive, HandsAre, TopHand DEF HandInv, HandsApart, LiveLinks
<1>5. \A i \in DOMAIN stack : stack[i].head # None => stack[i].tail # ret
  <2> SUFFICES ASSUME NEW i \in DOMAIN stack, stack[i].head # None PROVE stack[i].tail # ret
    OBVIOUS
  <2>1. stack[i].head \in Hands /\ stack[i].tail \in Tree(next, child, stack[i].head)
    BY HandsAre DEF HandInv, FrameInv
  <2>2. ret \in Tree(next, child, ret)
    BY <1>4, GrownFacts DEF HandInv
  <2> QED BY <1>4, <2>1, <2>2 DEF HandInv, Grown
<1>6. Live' = Live /\ Live \subseteq NodeIds
  BY <1>1, <1>4 DEF Live, InBounds, LiveLinks
<1>7. /\ key'[ret] = Top.key /\ \A n \in Live : n # ret => key'[n] = key[n]
  <2>1. ret \in NodeIds /\ key' \in [NodeIds -> Keys \cup {None}]
          /\ key \in [NodeIds -> Keys \cup {None}]
    BY <1>1, <1>3, <1>4, <1>6 DEF BoundsInv, TypeOK, Frames
  <2> QED BY <1>1, <1>6, <2>1
<1>8. Top.container = "object" => Top.key # None
  BY <1>1, <1>3 DEF NodesInv
<1>9. /\ Top.head # None <=> Top.tail # None
      /\ Top.tail # None => /\ Top.tail \in Live /\ Top.tail # ret /\ next'[Top.tail] = ret
                            /\ \A n \in Live : n # Top.tail => next'[n] = next[n]
      /\ Top.tail = None => next' = next
  <2>1. /\ Top.head # None <=> Top.tail # None
        /\ Top.head # None => Top.tail \in Live /\ Top.tail # ret
    BY <1>3, <1>4, <1>5 DEF FrameInv, LiveLinks
  <2>2. next' = IF Top.tail = None THEN next ELSE [next EXCEPT ![Top.tail] = ret]
    BY DEF LinkItem, LinkAsNextSibling
  <2> QED BY <1>4, <1>6, <2>1, <2>2 DEF LiveLinks
<1>10. /\ Top.container = "array" => Top.key = None
       /\ Top.container \in Containers
       /\ Top.head # None => /\ key[Top.head] # None <=> Top.container = "object"
                             /\ key[Top.tail] # None <=> Top.container = "object"
  BY <1>3 DEF NodesInv, KeyedFrame, Frames, Containers
<1>11. \A n \in Live : key'[n] # None /\ next'[n] # None => key'[next'[n]] # None
  <2> SUFFICES ASSUME NEW n \in Live, key'[n] # None, next'[n] # None PROVE key'[next'[n]] # None
    OBVIOUS
  <2>1. CASE n = ret
    BY <1>4, <1>9, <2>1
  <2>2. CASE n # ret /\ Top.tail # None /\ n = Top.tail
    BY <1>7, <1>8, <1>9, <1>10, <2>2
  <2>3. CASE n # ret /\ n # Top.tail
    <3>1. next'[n] = next[n] /\ key'[n] = key[n] /\ next[n] \in Live /\ next[n] # ret
      BY <1>4, <1>7, <1>9, <2>3 DEF LiveLinks
    <3> QED BY <1>7, <3>1 DEF NodesInv
  <2>4. n # None
    BY <1>4 DEF LiveLinks
  <2> QED BY <2>1, <2>2, <2>3, <2>4
<1>12. \A n \in Live : kind[n] = "object" /\ child[n] # None => key'[child[n]] # None
  <2> SUFFICES ASSUME NEW n \in Live, kind[n] = "object", child[n] # None
               PROVE key'[child[n]] # None
    OBVIOUS
  <2>1. child[n] \in Live /\ child[n] # ret
    BY <1>4 DEF LiveLinks
  <2> QED BY <1>7, <2>1 DEF NodesInv
<1>13. \A i \in DOMAIN stack' : KeyedFrame(stack[i])'
  <2>1. ASSUME NEW i \in DOMAIN stack, i # Len(stack) PROVE KeyedFrame(stack[i])'
    <3>1. stack'[i] = stack[i] /\ KeyedFrame(stack[i])
      BY <1>3, <2>1 DEF NodesInv
    <3>2. stack[i].head # None => /\ stack[i].head \in Live /\ stack[i].tail \in Live
                                  /\ stack[i].head # ret /\ stack[i].tail # ret
      BY <1>4, <1>5 DEF LiveLinks
    <3> QED BY <1>7, <3>1, <3>2 DEF KeyedFrame
  <2>2. KeyedFrame(stack[Len(stack)])'
    <3>1. /\ stack'[Len(stack)] = f /\ f.container = Top.container /\ f.key = Top.key
               /\ f.tail = ret
          /\ f.head = IF Top.head = None THEN ret ELSE Top.head
      BY <1>2, <1>3
    <3>2. Top.key # None <=> Top.container = "object"
      BY <1>8, <1>10 DEF Containers
    <3>3. CASE Top.head = None
      BY <1>3, <1>7, <3>1, <3>2, <3>3 DEF KeyedFrame
    <3>4. CASE Top.head # None
      <4>1. Top.head \in Live /\ Top.head # ret
        BY <1>3, <1>4, <3>4 DEF LiveLinks
      <4> QED BY <1>3, <1>7, <1>10, <3>1, <3>2, <3>4, <4>1 DEF KeyedFrame
    <3> QED BY <3>3, <3>4
  <2> QED BY <1>3, <2>1, <2>2
<1>14. \A i \in DOMAIN stack' : stack'[i].container = "object" /\ i # Len(stack')
         => stack'[i].key # None
  BY <1>3 DEF NodesInv
<1> QED BY <1>1, <1>6, <1>11, <1>12, <1>13, <1>14 DEF NodesInv

LEMMA NodesInvStep == ParserInv /\ NodesInv /\ [ParseNext]_pvars => NodesInv'
<1> SUFFICES ASSUME ParserInv, NodesInv, [ParseNext]_pvars PROVE NodesInv'
  OBVIOUS
<1>1. OwnInv /\ BoundsInv /\ HandInv
  BY TextInvIsOwnInv DEF ParserInv
<1>2. HandInv'
  BY <1>1, HandStep
<1>3. CASE UNCHANGED pvars
  BY <1>3, IdleNodes DEF pvars, parser
<1>4. CASE Begin
  <2>1. \A i \in DOMAIN stack : FALSE
    BY <1>1, <1>4 DEF OwnInv, PlaceInv, Begin
  <2>2. UNCHANGED <<vars, kind, stack>>
    BY <1>4 DEF Begin
  <2> QED BY <2>1, <2>2 DEF NodesInv, KeyedFrame, vars, Live, InBounds
<1>5. CASE ParseNothing \/ MalformedMember \/ ContinueLoop \/ ExpectedEnd \/ Reject \/ Accept
  BY <1>5, IdleNodes
    DEF ParseNothing, MalformedMember, ContinueLoop, ExpectedEnd, Reject, Accept, Fails
<1>6. ASSUME NEW k \in Contents, Returns(None, k), stack' = stack, pc = "value" PROVE NodesInv'
  BY <1>1, <1>6, ReturnsNodes DEF NodesInv
<1>7. CASE ParseScalar
  <2>1. pc = "value" /\ Returns(None, input[offset + 1]) /\ stack' = stack
        /\ (ReadsScalar(offset) \/ ReadsString(offset))
    BY <1>7 DEF ParseScalar
  <2>2. input[offset + 1] \in Contents
    BY <2>1 DEF ReadsScalar, ReadsString, Contents
  <2> QED BY <1>6, <2>1, <2>2
<1>8. ASSUME NEW container \in Containers,
             \/ TooDeep(container) \/ ParseEmpty(container)
             \/ ParseOpenEnded(container) \/ Enter(container)
      PROVE  NodesInv'
  <2>1. CASE TooDeep(container) \/ ParseOpenEnded(container)
    BY <2>1, IdleNodes DEF TooDeep, ParseOpenEnded, Fails
  <2>2. CASE ParseEmpty(container)
    <3>1. pc = "value" /\ stack' = stack /\ Returns(None, container) /\ container \in Contents
      BY <2>2, OpensAtAValue DEF ParseEmpty, Contents
    <3> QED BY <1>6, <3>1
  <2> QED BY <1>1, <1>8, <2>1, <2>2, EnterNodes
<1> QED
  BY <1>1, <1>2, <1>3, <1>4, <1>5, <1>7, <1>8, NextElementNodes, NextMemberNodes, LinkItemNodes,
     CloseContainerNodes, AbandonNodes, RejectTrailingNodes DEF ParseNext, Containers

LEMMA NodesInvAlways == ParseSpec => [](ParserInv /\ NodesInv)
BY ParserInvInit, NodesInvInit, ParserInvStep, NodesInvStep, PTL DEF ParseSpec

-----------------------------------------------------------------------------
(* What a finished parse leaves, read as a tree. *)

Finished == ParserInv /\ NodesInv /\ pc = "accepted"

LEMMA FinishedIsATree ==
  ASSUME Finished
  PROVE  /\ TreeInv /\ isRef = NoRefs
         /\ \A p \in Live : OwnsList(p)
         /\ kind \in [NodeIds -> Kinds]
<1>1. TreeInv /\ isRef = NoRefs /\ kind \in [NodeIds -> Kinds]
  BY ParseEndsInATree, TextInvIsOwnInv DEF Finished, ParserInv, HandInv, OwnInv
<1>2. Live \subseteq NodeIds
  BY <1>1, InvFacts
<1> QED BY <1>1, <1>2 DEF OwnsList, NoRefs

\* The children of a node, and how far down it is to the last of them.
LEMMA KidFacts ==
  ASSUME TreeInv, NEW p \in NodeIds
  PROVE  /\ Kids(p) = KidsOf[p] /\ Kids(p) \in Seq(NodeIds) /\ Len(Kids(p)) \in Nat
         /\ DOMAIN Kids(p) = 1 .. Len(Kids(p))
         /\ \A i \in 1 .. Len(Kids(p)) : Kids(p)[i] \in Live /\ Kids(p)[i] \in Range(KidsOf[p])
         /\ \A i, j \in 1 .. Len(Kids(p)) : Kids(p)[i] = Kids(p)[j] => i = j
         /\ p \notin Live => Kids(p) = <<>>
<1>1. /\ Kids(p) = KidsOf[p] /\ Kids(p) \in Seq(NodeIds) /\ Len(Kids(p)) \in Nat
      /\ DOMAIN Kids(p) = 1 .. Len(Kids(p))
      /\ \A i \in 1 .. Len(Kids(p)) : Kids(p)[i] \in Range(KidsOf[p])
  BY InvFacts, RangeOfList DEF KidsOf
<1>2. \A i \in 1 .. Len(Kids(p)) : Kids(p)[i] \in Live
  BY <1>1, InvFacts, ListFacts
<1>3. \A i, j \in 1 .. Len(Kids(p)) : Kids(p)[i] = Kids(p)[j] => i = j
  <2>1. Sound(Live, isRef, next, prev, child) /\ Spelled(Live, isRef, next, child, KidsOf)
    BY InvFacts
  <2>2. \A q \in NodeIds : \A i \in 1 .. Len(KidsOf[p]), j \in 1 .. Len(KidsOf[q]) :
          KidsOf[p][i] = KidsOf[q][j] => p = q /\ i = j
    BY <2>1, ListFacts
  <2> QED BY <1>1, <2>2
<1>4. p \notin Live => Kids(p) = <<>>
  BY DEF Kids, OwnsList
<1> QED BY <1>1, <1>2, <1>3, <1>4

Height(n) == Cardinality(Below(KidsOf, n))

LEMMA HeightFalls ==
  ASSUME TreeInv, NEW p \in NodeIds
  PROVE  /\ Height(p) \in Nat
         /\ \A i \in 1 .. Len(Kids(p)) : Height(Kids(p)[i]) \in Nat
              /\ Height(Kids(p)[i]) < Height(p)
<1>1. \A x \in NodeIds : Range(KidsOf[x]) \subseteq NodeIds
  BY InvFacts
<1>2. \A n \in NodeIds : IsFiniteSet(Below(KidsOf, n)) /\ Height(n) \in Nat
  <2> SUFFICES ASSUME NEW n \in NodeIds PROVE IsFiniteSet(Below(KidsOf, n)) /\ Height(n) \in Nat
    OBVIOUS
  <2>1. Below(KidsOf, n) \subseteq NodeIds
    BY <1>1, BelowFacts
  <2>2. IsFiniteSet(Below(KidsOf, n))
    BY <2>1, NodeIdsFinite, FS_Subset
  <2> QED BY <2>2, FS_CardinalityType DEF Height
<1>3. ASSUME NEW i \in 1 .. Len(Kids(p))
      PROVE Height(Kids(p)[i]) \in Nat /\ Height(Kids(p)[i]) < Height(p)
  <2> DEFINE k == Kids(p)[i]
             A == Below(KidsOf, p)
             B == Below(KidsOf, k)
  <2>1. k \in NodeIds /\ k \in Live /\ k \in Range(KidsOf[p]) /\ p \in Live
    <3>1. k \in Live /\ k \in Range(KidsOf[p]) /\ Live \subseteq NodeIds
      BY KidFacts, InvFacts
    <3>2. p \in Live
      BY KidFacts
    <3> QED BY <3>1, <3>2
  <2> HIDE DEF k
  <2>2. p \notin B
    BY <2>1, InvFacts, ParentNotBelow
  <2>3. /\ p \in A /\ k \in A /\ A \in SUBSET NodeIds /\ \A x \in A : Range(KidsOf[x]) \subseteq A
    BY <1>1, <2>1, BelowFacts
  <2> HIDE DEF A
  <2>4. B \subseteq A
    BY <2>3, BelowInside
  <2> HIDE DEF B
  <2>5. IsFiniteSet(A)
    BY <1>2 DEF A
  <2>6. Cardinality(B) < Cardinality(A)
    <3>1. B # A
      BY <2>2, <2>3
    <3>2. IsFiniteSet(B) /\ Cardinality(B) <= Cardinality(A)
            /\ (Cardinality(B) = Cardinality(A) => B = A)
      BY <2>4, <2>5, FS_Subset
    <3>3. Cardinality(A) \in Nat /\ Cardinality(B) \in Nat
      BY <2>5, <3>2, FS_CardinalityType
    <3> QED BY <3>1, <3>2, <3>3
  <2> QED BY <1>2, <2>1, <2>6 DEF A, B, Height, k
<1> QED BY <1>2, <1>3

\* Both case modes find a child of the target, if they find one.
LEMMA FoundIsKid ==
  ASSUME Finished, NEW p \in NodeIds, NEW k, NEW cs
  PROVE  \A m \in FindObjectChild(key, p, k, cs) : \E j \in 1 .. Len(Kids(p)) : m = Kids(p)[j]
<1>1. TreeInv
  BY FinishedIsATree
<1>2. CASE p \in Live
  <2>1. OwnsList(p)
    BY <1>2, FinishedIsATree
  <2> QED BY <1>1, <2>1, FoundIsFirst, KidFacts DEF First
<1>3. CASE p \notin Live
  <2>1. child[p] = None
    BY <1>1, <1>3, InvFacts, SoundFacts
  <2>2. FindObjectChild(key, p, k, cs) \subseteq Walk(next, None, None)
    BY <2>1 DEF FindObjectChild, Chain
  <2>3. Walk(next, None, None) = {}
    <3>1. PICK S \in SUBSET NodeIds : S = {}
      OBVIOUS
    <3>2. None \in S \cup {None, None} /\ \A m \in S : next[m] \in S \cup {None, None}
      BY <3>1
    <3>3. Walk(next, None, None) \subseteq S
      BY <3>2, WalkInside
    <3> QED BY <3>1, <3>3
  <2> QED BY <2>2, <2>3
<1> QED BY <1>2, <1>3

-----------------------------------------------------------------------------
(* The functions compare and Meaning are defined by exist: what a node is to them
   depends on the nodes below it, which are fewer. *)

\* g and h agree on the children of a and b.
AgreeBelow(g, h, a, b) ==
  \A i \in 1 .. Len(Kids(a)), j \in 1 .. Len(Kids(b)) :
    /\ g[<<Kids(a)[i], Kids(b)[j]>>] = h[<<Kids(a)[i], Kids(b)[j]>>]
    /\ g[<<Kids(b)[j], Kids(a)[i]>>] = h[<<Kids(b)[j], Kids(a)[i]>>]

LEMMA MembersAreLocal ==
  ASSUME Finished, NEW a \in NodeIds, NEW b \in NodeIds, NEW cs, NEW g, NEW h,
         \A i \in 1 .. Len(Kids(a)), j \in 1 .. Len(Kids(b)) :
           g[<<Kids(a)[i], Kids(b)[j]>>] = h[<<Kids(a)[i], Kids(b)[j]>>]
  PROVE  MembersMatch(g, a, b, cs) <=> MembersMatch(h, a, b, cs)
<1>1. ASSUME NEW i \in 1 .. Len(Kids(a)), NEW m \in FindObjectChild(key, b, key[Kids(a)[i]], cs)
      PROVE  g[<<Kids(a)[i], m>>] = h[<<Kids(a)[i], m>>]
  <2>1. PICK j \in 1 .. Len(Kids(b)) : m = Kids(b)[j]
    BY FoundIsKid
  <2> QED BY <2>1
<1> QED BY <1>1 DEF MembersMatch

LEMMA MatchIsLocal ==
  ASSUME Finished, NEW a \in NodeIds, NEW b \in NodeIds, NEW cs, NEW copied, NEW g, NEW h,
         AgreeBelow(g, h, a, b)
  PROVE  NodesMatch(g, a, b, cs, copied) <=> NodesMatch(h, a, b, cs, copied)
<1>1. ObjectsMatch(g, a, b, cs) <=> ObjectsMatch(h, a, b, cs)
  <2>0. /\ \A i \in 1 .. Len(Kids(a)), j \in 1 .. Len(Kids(b)) :
             g[<<Kids(a)[i], Kids(b)[j]>>] = h[<<Kids(a)[i], Kids(b)[j]>>]
        /\ \A i \in 1 .. Len(Kids(b)), j \in 1 .. Len(Kids(a)) :
             g[<<Kids(b)[i], Kids(a)[j]>>] = h[<<Kids(b)[i], Kids(a)[j]>>]
    BY DEF AgreeBelow
  <2>1. MembersMatch(g, a, b, cs) <=> MembersMatch(h, a, b, cs)
    BY <2>0, MembersAreLocal
  <2>2. MembersMatch(g, b, a, cs) <=> MembersMatch(h, b, a, cs)
    BY <2>0, MembersAreLocal
  <2> QED BY <2>1, <2>2 DEF ObjectsMatch
<1>2. ArraysMatch(g, a, b) <=> ArraysMatch(h, a, b)
  BY DEF ArraysMatch, AgreeBelow
<1> QED BY <1>1, <1>2 DEF NodesMatch

Pairs == NodeIds \X NodeIds
SameOf(cs, copied) ==
  CHOOSE same : same = [pair \in Pairs |-> NodesMatch(same, pair[1], pair[2], cs, copied)]

Rank(a, b) == Height(a) + Height(b)

LEMMA RankFalls ==
  ASSUME Finished, NEW a \in NodeIds, NEW b \in NodeIds
  PROVE  /\ Rank(a, b) \in Nat /\ Rank(a, b) <= MaxNodes + MaxNodes /\ Rank(b, a) = Rank(a, b)
         /\ \A i \in 1 .. Len(Kids(a)), j \in 1 .. Len(Kids(b)) :
              /\ Kids(a)[i] \in NodeIds /\ Kids(b)[j] \in NodeIds
              /\ Rank(Kids(a)[i], Kids(b)[j]) \in Nat /\ Rank(Kids(a)[i], Kids(b)[j]) < Rank(a, b)
              /\ Rank(Kids(b)[j], Kids(a)[i]) = Rank(Kids(a)[i], Kids(b)[j])
<1>1. TreeInv
  BY FinishedIsATree
<1>2. \A n \in NodeIds : Height(n) \in Nat /\ Height(n) <= MaxNodes
  <2> SUFFICES ASSUME NEW n \in NodeIds PROVE Height(n) \in Nat /\ Height(n) <= MaxNodes
    OBVIOUS
  <2>1. Below(KidsOf, n) \subseteq NodeIds
    BY DEF Below
  <2>2. Cardinality(Below(KidsOf, n)) <= Cardinality(NodeIds)
    BY <2>1, NodeIdsFinite, FS_Subset
  <2> QED BY <1>1, <2>2, NodeIdsFinite, HeightFalls DEF Height
<1>3. /\ \A i \in 1 .. Len(Kids(a)) : Kids(a)[i] \in NodeIds /\ Height(Kids(a)[i]) \in Nat
           /\ Height(Kids(a)[i]) < Height(a)
      /\ \A i \in 1 .. Len(Kids(b)) : Kids(b)[i] \in NodeIds /\ Height(Kids(b)[i]) \in Nat
           /\ Height(Kids(b)[i]) < Height(b)
  BY <1>1, HeightFalls, KidFacts, InvFacts
<1> HIDE DEF Height
<1> QED BY <1>2, <1>3, MaxNodesAssumption DEF Rank

LEMMA SameExists ==
  ASSUME Finished, NEW cs, NEW copied
  PROVE  \E same : same = [pair \in Pairs |-> NodesMatch(same, pair[1], pair[2], cs, copied)]
<1> DEFINE Match(g) == [pair \in Pairs |-> NodesMatch(g, pair[1], pair[2], cs, copied)]
           Right(g, r) == \A a, b \in NodeIds : Rank(a, b) < r => g[<<a, b>>] = Match(g)[<<a, b>>]
           S == {r \in Nat : \E g : Right(g, r)}
<1>1. 0 \in S
  <2>1. Right([pair \in Pairs |-> FALSE], 0)
    BY RankFalls
  <2> QED BY <2>1
<1>2. ASSUME NEW r \in Nat, r \in S PROVE r + 1 \in S
  <2>1. PICK g : Right(g, r)
    BY <1>2
  <2> DEFINE h == Match(g)
  <2>2. ASSUME NEW a \in NodeIds, NEW b \in NodeIds, Rank(a, b) < r + 1
        PROVE  h[<<a, b>>] = Match(h)[<<a, b>>]
    <3>1. \A i \in 1 .. Len(Kids(a)), j \in 1 .. Len(Kids(b)) :
            /\ Kids(a)[i] \in NodeIds /\ Kids(b)[j] \in NodeIds
            /\ Rank(Kids(a)[i], Kids(b)[j]) < r /\ Rank(Kids(b)[j], Kids(a)[i]) < r
      BY <2>2, RankFalls
    <3>2. AgreeBelow(g, h, a, b)
      <4> HIDE DEF Match
      <4> QED BY <2>1, <3>1 DEF AgreeBelow
    <3>3. NodesMatch(g, a, b, cs, copied) <=> NodesMatch(h, a, b, cs, copied)
      BY <3>2, MatchIsLocal
    <3>4. /\ <<a, b>> \in Pairs
          /\ Match(g)[<<a, b>>] = NodesMatch(g, a, b, cs, copied)
          /\ Match(h)[<<a, b>>] = NodesMatch(h, a, b, cs, copied)
      <4> HIDE DEF h
      <4>1. <<a, b>> \in Pairs
        BY DEF Pairs
      <4> QED BY <4>1
    <3>5. NodesMatch(g, a, b, cs, copied) = NodesMatch(h, a, b, cs, copied)
      BY <3>3 DEF NodesMatch
    <3> QED BY <3>4, <3>5
  <2>3. Right(h, r + 1)
    BY <2>2
  <2> HIDE DEF Right
  <2> QED BY <2>3
<1>3. MaxNodes + MaxNodes + 1 \in S
  <2> HIDE DEF S
  <2>1. Nat \subseteq S
    BY <1>1, <1>2, SetInduction
  <2> QED BY <2>1, MaxNodesAssumption
<1>4. PICK g : Right(g, MaxNodes + MaxNodes + 1)
  BY <1>3
<1>5. \A a, b \in NodeIds : g[<<a, b>>] = Match(g)[<<a, b>>]
  <2> SUFFICES ASSUME NEW a \in NodeIds, NEW b \in NodeIds
               PROVE  g[<<a, b>>] = Match(g)[<<a, b>>]
    OBVIOUS
  <2> HIDE DEF Match
  <2>1. Rank(a, b) < MaxNodes + MaxNodes + 1
    BY RankFalls, MaxNodesAssumption
  <2> QED BY <1>4, <2>1
<1>6. Match(Match(g)) = Match(g)
  <2> SUFFICES ASSUME NEW a \in NodeIds, NEW b \in NodeIds
               PROVE  NodesMatch(Match(g), a, b, cs, copied) = NodesMatch(g, a, b, cs, copied)
    BY DEF Pairs
  <2>1. AgreeBelow(g, Match(g), a, b)
    <3> HIDE DEF Match
    <3> QED BY <1>5, RankFalls DEF AgreeBelow
  <2>2. NodesMatch(g, a, b, cs, copied) <=> NodesMatch(Match(g), a, b, cs, copied)
    BY <2>1, MatchIsLocal
  <2> QED BY <2>2 DEF NodesMatch
<1>7. Match(g) = [pair \in Pairs |-> NodesMatch(Match(g), pair[1], pair[2], cs, copied)]
  BY <1>6
<1> QED BY <1>7

\* compare is such a function.
LEMMA CompareIsSame ==
  \A a, b, cs, copied : CompareNodes(a, b, cs, copied) = SameOf(cs, copied)[<<a, b>>]
BY DEF CompareNodes, SameOf, Pairs

LEMMA SameIs ==
  ASSUME Finished, NEW cs, NEW copied, NEW a \in NodeIds, NEW b \in NodeIds
  PROVE  /\ SameOf(cs, copied)[<<a, b>>] \in BOOLEAN
         /\ SameOf(cs, copied)[<<a, b>>] <=> NodesMatch(SameOf(cs, copied), a, b, cs, copied)
<1> DEFINE same == SameOf(cs, copied)
<1>1. same = [pair \in Pairs |-> NodesMatch(same, pair[1], pair[2], cs, copied)]
  BY SameExists DEF SameOf
<1> HIDE DEF same
<1>2. <<a, b>> \in Pairs
  BY DEF Pairs
<1>3. same[<<a, b>>] = NodesMatch(same, a, b, cs, copied)
  BY <1>1, <1>2
<1>4. NodesMatch(same, a, b, cs, copied) \in BOOLEAN
  BY DEF NodesMatch
<1> QED BY <1>3, <1>4 DEF same

\* Symmetry.
LEMMA SameIsSymmetric ==
  ASSUME Finished, NEW cs, NEW copied
  PROVE  \A a, b \in NodeIds : SameOf(cs, copied)[<<a, b>>] = SameOf(cs, copied)[<<b, a>>]
<1> DEFINE same == SameOf(cs, copied)
           S == {r \in Nat : \A a, b \in NodeIds : Rank(a, b) < r
             => same[<<a, b>>] = same[<<b, a>>]}
<1>1. 0 \in S
  BY RankFalls
<1>2. ASSUME NEW r \in Nat, r \in S PROVE r + 1 \in S
  <2> SUFFICES ASSUME NEW a \in NodeIds, NEW b \in NodeIds, Rank(a, b) < r + 1
               PROVE  same[<<a, b>>] = same[<<b, a>>]
    OBVIOUS
  <2> HIDE DEF same
  <2>1. \A i \in 1 .. Len(Kids(a)), j \in 1 .. Len(Kids(b)) :
          same[<<Kids(a)[i], Kids(b)[j]>>] = same[<<Kids(b)[j], Kids(a)[i]>>]
    <3>1. \A i \in 1 .. Len(Kids(a)), j \in 1 .. Len(Kids(b)) :
            /\ Kids(a)[i] \in NodeIds /\ Kids(b)[j] \in NodeIds
            /\ Rank(Kids(a)[i], Kids(b)[j]) < r
      BY RankFalls
    <3> QED BY <1>2, <3>1
  <2>2. ArraysMatch(same, a, b) <=> ArraysMatch(same, b, a)
    BY <2>1 DEF ArraysMatch
  <2>3. ObjectsMatch(same, a, b, cs) <=> ObjectsMatch(same, b, a, cs)
    BY DEF ObjectsMatch
  <2>4. NodesMatch(same, a, b, cs, copied) <=> NodesMatch(same, b, a, cs, copied)
    BY <2>2, <2>3 DEF NodesMatch, NumbersMatch
  <2> QED BY <2>4, SameIs DEF same
<1>3. MaxNodes + MaxNodes + 1 \in S
  <2> HIDE DEF S
  <2>1. Nat \subseteq S
    BY <1>1, <1>2, SetInduction
  <2> QED BY <2>1, MaxNodesAssumption
<1> SUFFICES ASSUME NEW a \in NodeIds, NEW b \in NodeIds PROVE same[<<a, b>>] = same[<<b, a>>]
  OBVIOUS
<1>4. Rank(a, b) < MaxNodes + MaxNodes + 1
  BY RankFalls, MaxNodesAssumption
<1> HIDE DEF same
<1> QED BY <1>3, <1>4

\* What a tree says.
SaysOf(cs) == CHOOSE says : says = [n \in NodeIds |-> Told(says, n, cs)]

LEMMA MeaningIsSays == \A cs : Meaning(cs) = SaysOf(cs)
BY DEF Meaning, SaysOf

\* A tree says the content of its root, and what its children say.
CalledAs(cs, k) == IF cs THEN key[k] ELSE Lower[key[k]]
Items(says, n) == [i \in 1 .. Len(Kids(n)) |-> says[Kids(n)[i]]]
Members(says, n, cs) == {<<CalledAs(cs, Kids(n)[i]), says[Kids(n)[i]]>> : i \in 1 .. Len(Kids(n))}

Saying(k, items, members) == [kind |-> k, items |-> items, members |-> members]

LEMMA ToldIs ==
  ASSUME Finished, NEW n \in NodeIds, NEW cs, NEW says
  PROVE  /\ kind[n] = "object" => Told(says, n, cs) = Saying(kind[n], <<>>, Members(says, n, cs))
         /\ kind[n] # "object" => Told(says, n, cs) = Saying(kind[n], Items(says, n), {})
<1>1. DOMAIN Kids(n) = 1 .. Len(Kids(n))
  BY FinishedIsATree, KidFacts
<1>2. CASE kind[n] = "object"
  BY <1>1, <1>2 DEF Told, Members, CalledAs, Saying
<1>3. CASE kind[n] # "object"
  BY <1>1, <1>3 DEF Told, Items, Saying
<1> QED BY <1>2, <1>3

LEMMA ToldIsLocal ==
  ASSUME Finished, NEW n \in NodeIds, NEW cs, NEW g, NEW h,
         \A i \in 1 .. Len(Kids(n)) : g[Kids(n)[i]] = h[Kids(n)[i]]
  PROVE  Told(g, n, cs) = Told(h, n, cs)
<1>1. Items(g, n) = Items(h, n)
  BY DEF Items
<1>2. Members(g, n, cs) = Members(h, n, cs)
  BY DEF Members
<1>3. /\ kind[n] = "object" => Told(g, n, cs) = Saying(kind[n], <<>>, Members(g, n, cs))
      /\ kind[n] # "object" => Told(g, n, cs) = Saying(kind[n], Items(g, n), {})
  BY ToldIs
<1>4. /\ kind[n] = "object" => Told(h, n, cs) = Saying(kind[n], <<>>, Members(h, n, cs))
      /\ kind[n] # "object" => Told(h, n, cs) = Saying(kind[n], Items(h, n), {})
  BY ToldIs
<1> QED BY <1>1, <1>2, <1>3, <1>4

LEMMA SaysExists ==
  ASSUME Finished, NEW cs
  PROVE  \E says : says = [n \in NodeIds |-> Told(says, n, cs)]
<1> DEFINE Tells(g) == [n \in NodeIds |-> Told(g, n, cs)]
           Right(g, r) == \A n \in NodeIds : Height(n) < r => g[n] = Tells(g)[n]
           S == {r \in Nat : \E g : Right(g, r)}
<1>0. \A n \in NodeIds :
        /\ Height(n) \in Nat /\ Height(n) <= MaxNodes
        /\ \A i \in 1 .. Len(Kids(n)) : Kids(n)[i] \in NodeIds /\ Height(Kids(n)[i]) \in Nat
             /\ Height(Kids(n)[i]) < Height(n)
  <2> SUFFICES ASSUME NEW n \in NodeIds
               PROVE  /\ Height(n) \in Nat /\ Height(n) <= MaxNodes
                      /\ \A i \in 1 .. Len(Kids(n)) : Kids(n)[i] \in NodeIds
                           /\ Height(Kids(n)[i]) \in Nat /\ Height(Kids(n)[i]) < Height(n)
    OBVIOUS
  <2>1. TreeInv
    BY FinishedIsATree
  <2>2. Rank(n, n) <= MaxNodes + MaxNodes
    BY RankFalls
  <2>3. /\ Height(n) \in Nat
        /\ \A i \in 1 .. Len(Kids(n)) : Kids(n)[i] \in NodeIds /\ Height(Kids(n)[i]) \in Nat
             /\ Height(Kids(n)[i]) < Height(n)
    BY <2>1, HeightFalls, KidFacts, InvFacts
  <2> HIDE DEF Height
  <2> QED BY <2>2, <2>3, MaxNodesAssumption DEF Rank
<1> HIDE DEF Height
<1>1. 0 \in S
  <2>1. Right(NodeIds, 0)
    BY <1>0
  <2> QED BY <2>1
<1>2. ASSUME NEW r \in Nat, r \in S PROVE r + 1 \in S
  <2>1. PICK g : Right(g, r)
    BY <1>2
  <2> DEFINE h == Tells(g)
  <2>2. ASSUME NEW n \in NodeIds, Height(n) < r + 1 PROVE h[n] = Tells(h)[n]
    <3>1. \A i \in 1 .. Len(Kids(n)) : Kids(n)[i] \in NodeIds /\ Height(Kids(n)[i]) < r
      BY <1>0, <2>2
    <3>2. \A i \in 1 .. Len(Kids(n)) : g[Kids(n)[i]] = h[Kids(n)[i]]
      <4> HIDE DEF Tells
      <4> QED BY <2>1, <3>1
    <3>3. Told(g, n, cs) = Told(h, n, cs)
      BY <3>2, ToldIsLocal
    <3> QED BY <3>3
  <2>3. Right(h, r + 1)
    BY <2>2
  <2> HIDE DEF Right
  <2> QED BY <2>3
<1>3. MaxNodes + 1 \in S
  <2> HIDE DEF S
  <2>1. Nat \subseteq S
    BY <1>1, <1>2, SetInduction
  <2> QED BY <2>1, MaxNodesAssumption
<1>4. PICK g : Right(g, MaxNodes + 1)
  BY <1>3
<1>5. \A n \in NodeIds : g[n] = Tells(g)[n]
  <2> HIDE DEF Tells
  <2>1. \A n \in NodeIds : Height(n) < MaxNodes + 1
    BY <1>0, MaxNodesAssumption
  <2> QED BY <1>4, <2>1
<1>6. \A n \in NodeIds : Told(Tells(g), n, cs) = Told(g, n, cs)
  <2> SUFFICES ASSUME NEW n \in NodeIds PROVE Told(Tells(g), n, cs) = Told(g, n, cs)
    OBVIOUS
  <2>1. \A i \in 1 .. Len(Kids(n)) : g[Kids(n)[i]] = Tells(g)[Kids(n)[i]]
    <3> HIDE DEF Tells
    <3> QED BY <1>0, <1>5
  <2> QED BY <2>1, ToldIsLocal
<1>7. Tells(g) = [n \in NodeIds |-> Told(Tells(g), n, cs)]
  BY <1>6
<1> QED BY <1>7

LEMMA SaysIs ==
  ASSUME Finished, NEW cs, NEW n \in NodeIds
  PROVE  SaysOf(cs)[n] = Told(SaysOf(cs), n, cs)
<1> DEFINE says == SaysOf(cs)
<1>1. says = [m \in NodeIds |-> Told(says, m, cs)]
  BY SaysExists DEF SaysOf
<1> HIDE DEF says
<1>2. says[n] = Told(says, n, cs)
  BY <1>1
<1> QED BY <1>2 DEF says

-----------------------------------------------------------------------------
(* Equality as meaning. *)

\* What a node holds decides whether it has children, and whether they have keys.
LEMMA NodesHold ==
  ASSUME Finished, NEW n \in Live
  PROVE  /\ n \in NodeIds /\ kind[n] \in Contents
         /\ kind[n] \notin Containers => Kids(n) = <<>>
         /\ kind[n] = "object" => \A i \in 1 .. Len(Kids(n)) : key[Kids(n)[i]] \in Keys
<1>1. /\ TreeInv /\ OwnsList(n) /\ NodesInv
  BY FinishedIsATree DEF Finished
<1>2. /\ n \in NodeIds /\ Live \subseteq NodeIds /\ None \notin Live
           /\ Spells(next, child[n], KidsOf[n])
      /\ Kids(n) = KidsOf[n] /\ Kids(n) \in Seq(NodeIds) /\ isRef[n] = FALSE
      /\ \A m \in Live : next[m] \in Live \cup {None}
           /\ (isRef[m] \/ child[m] \in Live \cup {None})
      /\ key \in [NodeIds -> Keys \cup {None}] /\ None \notin NodeIds
  BY <1>1, InvFacts, SoundFacts, KidFacts DEF Spelled, OwnsList
<1>3. kind[n] \in Contents
  BY <1>1 DEF NodesInv
<1>4. ASSUME kind[n] \notin Containers PROVE Kids(n) = <<>>
  <2>1. child[n] = None
    BY <1>1, <1>4 DEF NodesInv
  <2>2. Len(Kids(n)) = 0
    BY <1>2, <2>1 DEF Spells
  <2> QED BY <1>2, <2>2
<1>5. ASSUME kind[n] = "object", NEW i \in 1 .. Len(Kids(n)) PROVE key[Kids(n)[i]] \in Keys
  <2> DEFINE S == {m \in Live : key[m] # None}
  <2>1. child[n] \in S \cup {None}
    BY <1>1, <1>2, <1>5 DEF NodesInv
  <2>2. \A m \in S : next[m] \in S \cup {None}
    BY <1>1, <1>2 DEF NodesInv
  <2>3. \A j \in 1 .. Len(KidsOf[n]) : KidsOf[n][j] \in S
    <3> HIDE DEF S
    <3> QED BY <1>2, <2>1, <2>2, SpellsInside
  <2>4. Kids(n)[i] \in S
    BY <1>2, <2>3
  <2> QED BY <1>2, <2>4
<1> QED BY <1>2, <1>3, <1>4, <1>5

\* What a plain tree has below it is plain.
LEMMA PlainFacts ==
  ASSUME Finished, NEW n \in Live, NEW cs, Plain(n, cs)
  PROVE  /\ kind[n] # Huge
         /\ \A i, j \in 1 .. Len(Kids(n)) :
              kind[n] = "object" /\ i # j => ~KeyMatches(key[Kids(n)[i]], key[Kids(n)[j]], cs)
         /\ \A i \in 1 .. Len(Kids(n)) : Kids(n)[i] \in Live /\ Plain(Kids(n)[i], cs)
<1> DEFINE D == Owned(next, child, n)
<1>1. /\ TreeInv /\ isRef = NoRefs /\ n \in NodeIds /\ Live \cap deleted = {}
           /\ Live \subseteq NodeIds
      /\ \A m \in Live : next[m] \in Live \cup {None} /\ child[m] \in Live \cup {None}
      /\ Spelled(Live, isRef, next, child, KidsOf) /\ Kids(n) = KidsOf[n]
      /\ KidsOf[n] \in Seq(NodeIds)
  BY FinishedIsATree, InvFacts, SoundFacts, KidFacts DEF NoRefs
<1>2. n \in D
  BY <1>1 DEF Owned
<1>3. ASSUME NEW i \in 1 .. Len(Kids(n))
      PROVE  Kids(n)[i] \in Live /\ Plain(Kids(n)[i], cs)
  <2>1. Kids(n)[i] \in Live /\ Kids(n)[i] \in NodeIds
    BY <1>1, KidFacts
  <2>2. ASSUME NEW S \in SUBSET NodeIds, n \in S \cup deleted,
               \A m \in S : /\ next[m] \in S \cup deleted \cup {None}
                            /\ isRef[m] \/ child[m] \in S \cup deleted \cup {None}
        PROVE  Kids(n)[i] \in S
    <3> DEFINE T == S \cap Live
    <3>1. child[n] \in T \cup {None} /\ T \subseteq NodeIds
      BY <1>1, <2>2 DEF NoRefs
    <3>2. \A m \in T : next[m] \in T \cup {None}
      BY <1>1, <2>2
    <3>3. Range(KidsOf[n]) \subseteq T
      <4> HIDE DEF T
      <4> QED BY <1>1, <3>1, <3>2, ListInside
    <3> QED BY <1>1, <3>3, RangeOfList
  <2>3. Owned(next, child, Kids(n)[i]) \subseteq D
    <3> SUFFICES ASSUME NEW x \in Owned(next, child, Kids(n)[i]) PROVE x \in D
      OBVIOUS
    <3>1. ASSUME NEW S \in SUBSET NodeIds, n \in S \cup deleted,
                 \A m \in S : /\ next[m] \in S \cup deleted \cup {None}
                              /\ isRef[m] \/ child[m] \in S \cup deleted \cup {None}
          PROVE  x \in S
      <4>1. Kids(n)[i] \in S
        BY <2>2, <3>1
      <4> QED BY <3>1, <4>1 DEF Owned
    <3>2. x \in NodeIds
      BY DEF Owned
    <3> QED BY <3>1, <3>2 DEF Owned
  <2> QED BY <2>1, <2>3 DEF Plain, OwnNames, Finite
<1> HIDE DEF D
<1>4. kind[n] # Huge /\ \A i, j \in 1 .. Len(Kids(n)) :
              kind[n] = "object" /\ i # j => ~KeyMatches(key[Kids(n)[i]], key[Kids(n)[j]], cs)
  BY <1>2 DEF Plain, OwnNames, Finite, D
<1> QED BY <1>3, <1>4

\* says tells apart what same does, among the children of a and b.
SayTheSame(same, says, a, b) ==
  \A i \in 1 .. Len(Kids(a)), j \in 1 .. Len(Kids(b)) :
    same[<<Kids(a)[i], Kids(b)[j]>>] <=> says[Kids(a)[i]] = says[Kids(b)[j]]

\* Every member of an object has its match in another exactly when what the first
\* says the other says too: a key leads to the one member that has it.
LEMMA MembersMean ==
  ASSUME Finished, NEW a \in Live, NEW b \in Live, NEW cs \in BOOLEAN, NEW same, NEW says,
         kind[a] = "object", kind[b] = "object", Plain(b, cs), SayTheSame(same, says, a, b)
  PROVE  MembersMatch(same, a, b, cs) <=> Members(says, a, cs) \subseteq Members(says, b, cs)
<1>1. /\ TreeInv /\ OwnsList(b) /\ a \in NodeIds /\ b \in NodeIds /\ Kids(b) = KidsOf[b]
      /\ Len(Kids(b)) \in Nat
  BY FinishedIsATree, KidFacts, NodesHold
<1>2. /\ \A i \in 1 .. Len(Kids(a)) : key[Kids(a)[i]] \in Keys
      /\ \A j \in 1 .. Len(Kids(b)) : key[Kids(b)[j]] \in Keys
      /\ None \notin Keys
  BY NodesHold, NoneAssumption
<1>3. \A i \in 1 .. Len(Kids(a)), j \in 1 .. Len(Kids(b)) :
        KeyMatches(key[Kids(b)[j]], key[Kids(a)[i]], cs)
          <=> CalledAs(cs, Kids(a)[i]) = CalledAs(cs, Kids(b)[j])
  BY <1>2 DEF KeyMatches, CalledAs
<1>4. \A i, j \in 1 .. Len(Kids(b)) : i # j => CalledAs(cs, Kids(b)[i]) # CalledAs(cs, Kids(b)[j])
  <2>1. \A i, j \in 1 .. Len(Kids(b)) : i # j => ~KeyMatches(key[Kids(b)[i]], key[Kids(b)[j]], cs)
    BY PlainFacts
  <2> QED BY <1>2, <2>1 DEF KeyMatches, CalledAs
<1>5. \A i \in 1 .. Len(Kids(a)) : \A m :
        m \in FindObjectChild(key, b, key[Kids(a)[i]], cs) <=>
          \E j \in 1 .. Len(Kids(b)) : m = Kids(b)[j]
            /\ CalledAs(cs, Kids(a)[i]) = CalledAs(cs, Kids(b)[j])
  <2> SUFFICES ASSUME NEW i \in 1 .. Len(Kids(a)), NEW m
               PROVE m \in FindObjectChild(key, b, key[Kids(a)[i]], cs) <=>
                  \E j \in 1 .. Len(Kids(b)) : m = Kids(b)[j]
                    /\ CalledAs(cs, Kids(a)[i]) = CalledAs(cs, Kids(b)[j])
    OBVIOUS
  <2>0. /\ \A item \in FindObjectChild(key, b, key[Kids(a)[i]], cs) :
             \E j : First(key, b, key[Kids(a)[i]], cs, j) /\ item = KidsOf[b][j]
        /\ \A j : First(key, b, key[Kids(a)[i]], cs, j)
             => KidsOf[b][j] \in FindObjectChild(key, b, key[Kids(a)[i]], cs)
    BY <1>1, FoundIsFirst
  <2>1. ASSUME m \in FindObjectChild(key, b, key[Kids(a)[i]], cs)
        PROVE  \E j \in 1 .. Len(Kids(b)) : m = Kids(b)[j]
                 /\ CalledAs(cs, Kids(a)[i]) = CalledAs(cs, Kids(b)[j])
    <3>1. PICK j : First(key, b, key[Kids(a)[i]], cs, j) /\ m = KidsOf[b][j]
      BY <2>0, <2>1
    <3> QED BY <1>1, <1>3, <3>1 DEF First, Named
  <2>2. ASSUME NEW j \in 1 .. Len(Kids(b)), m = Kids(b)[j], CalledAs(cs, Kids(a)[i])
                 = CalledAs(cs, Kids(b)[j])
        PROVE  m \in FindObjectChild(key, b, key[Kids(a)[i]], cs)
    <3>1. KeyMatches(key[Kids(b)[j]], key[Kids(a)[i]], cs)
      BY <1>3, <2>2
    <3>2. \A l \in 1 .. j - 1 : ~KeyMatches(key[Kids(b)[l]], key[Kids(a)[i]], cs)
      <4> SUFFICES ASSUME NEW l \in 1 .. j - 1
                   PROVE ~KeyMatches(key[Kids(b)[l]], key[Kids(a)[i]], cs)
        OBVIOUS
      <4>1. l \in 1 .. Len(Kids(b)) /\ l # j
        BY <1>1
      <4> QED BY <1>3, <1>4, <2>2, <4>1
    <3>3. First(key, b, key[Kids(a)[i]], cs, j)
      BY <1>1, <3>1, <3>2 DEF First, Named
    <3> QED BY <1>1, <2>0, <2>2, <3>3
  <2> QED BY <2>1, <2>2
<1> DEFINE Twin(i, j) == CalledAs(cs, Kids(a)[i]) = CalledAs(cs, Kids(b)[j])
      /\ says[Kids(a)[i]] = says[Kids(b)[j]]
<1>6. ASSUME NEW i \in 1 .. Len(Kids(a))
      PROVE  (\E match \in FindObjectChild(key, b, key[Kids(a)[i]], cs) :
               same[<<Kids(a)[i], match>>])
               <=> \E j \in 1 .. Len(Kids(b)) : Twin(i, j)
  <2>1. ASSUME NEW m \in FindObjectChild(key, b, key[Kids(a)[i]], cs), same[<<Kids(a)[i], m>>]
        PROVE  \E j \in 1 .. Len(Kids(b)) : Twin(i, j)
    <3>1. PICK j \in 1 .. Len(Kids(b)) : m = Kids(b)[j]
            /\ CalledAs(cs, Kids(a)[i]) = CalledAs(cs, Kids(b)[j])
      BY <1>5
    <3>2. same[<<Kids(a)[i], Kids(b)[j]>>]
      BY <2>1, <3>1
    <3>3. says[Kids(a)[i]] = says[Kids(b)[j]]
      BY <3>2 DEF SayTheSame
    <3> QED BY <3>1, <3>3
  <2>2. ASSUME NEW j \in 1 .. Len(Kids(b)), Twin(i, j)
        PROVE  \E match \in FindObjectChild(key, b, key[Kids(a)[i]], cs) :
                 same[<<Kids(a)[i], match>>]
    <3>1. Kids(b)[j] \in FindObjectChild(key, b, key[Kids(a)[i]], cs)
      BY <1>5, <2>2
    <3>2. same[<<Kids(a)[i], Kids(b)[j]>>]
      BY <2>2 DEF SayTheSame
    <3> QED BY <3>1, <3>2
  <2> QED BY <2>1, <2>2
<1>7. MembersMatch(same, a, b, cs) <=> \A i \in 1 .. Len(Kids(a)) :
        \E j \in 1 .. Len(Kids(b)) : Twin(i, j)
  <2> HIDE DEF Twin
  <2> QED BY <1>6 DEF MembersMatch
<1>8. Members(says, a, cs) \subseteq Members(says, b, cs)
        <=> \A i \in 1 .. Len(Kids(a)) : \E j \in 1 .. Len(Kids(b)) : Twin(i, j)
  <2>1. ASSUME Members(says, a, cs) \subseteq Members(says, b, cs), NEW i \in 1 .. Len(Kids(a))
        PROVE  \E j \in 1 .. Len(Kids(b)) : Twin(i, j)
    <3>1. <<CalledAs(cs, Kids(a)[i]), says[Kids(a)[i]]>> \in Members(says, b, cs)
      BY <2>1 DEF Members
    <3>2. PICK j \in 1 .. Len(Kids(b)) :
            <<CalledAs(cs, Kids(a)[i]), says[Kids(a)[i]]>>
              = <<CalledAs(cs, Kids(b)[j]), says[Kids(b)[j]]>>
      BY <3>1 DEF Members
    <3> QED BY <3>2
  <2>2. ASSUME \A i \in 1 .. Len(Kids(a)) : \E j \in 1 .. Len(Kids(b)) : Twin(i, j),
               NEW pair \in Members(says, a, cs)
        PROVE  pair \in Members(says, b, cs)
    <3>1. PICK i \in 1 .. Len(Kids(a)) : pair = <<CalledAs(cs, Kids(a)[i]), says[Kids(a)[i]]>>
      BY DEF Members
    <3>2. PICK j \in 1 .. Len(Kids(b)) : Twin(i, j)
      BY <2>2
    <3> QED BY <3>1, <3>2 DEF Members
  <2> HIDE DEF Twin
  <2> QED BY <2>1, <2>2
<1> QED BY <1>7, <1>8

\* The type of a node tells its content, but for strings.
LEMMA TypesApart ==
  ASSUME Finished, NEW n \in Live, kind[n] # Huge
  PROVE  /\ NodeType(n) = "array" <=> kind[n] = "array"
         /\ NodeType(n) = "object" <=> kind[n] = "object"
         /\ NodeType(n) = "number" <=> kind[n] = Scalar
         /\ NodeType(n) = "string" <=> kind[n] \in Keys
         /\ kind[n] \in {"array", "object", Scalar} \cup Keys
         /\ "array" \notin Keys /\ "object" \notin Keys /\ Scalar \notin Keys
<1>1. kind[n] \in Contents
  BY NodesHold
<1>2. "array" \notin Keys /\ "object" \notin Keys /\ Scalar \notin Keys /\ Huge \notin Keys
  BY KeysAssumption DEF Scalars
<1>3. kind[n] \in {"array", "object", Scalar} \cup Keys
  BY <1>1 DEF Contents, Containers, Scalars
<1>4. CASE kind[n] \in {"array", "object", Scalar}
  BY <1>2, <1>4 DEF NodeType, Scalars, Scalar, Huge
<1>5. CASE kind[n] \in Keys
  BY <1>2, <1>5 DEF NodeType, Scalars
<1> QED BY <1>2, <1>3, <1>4, <1>5

\* Two nodes whose children are told apart rightly are told apart rightly.
LEMMA MatchMeans ==
  ASSUME Finished, NEW a \in Live, NEW b \in Live, NEW cs \in BOOLEAN, NEW copied \in BOOLEAN,
         NEW same, NEW says, Plain(a, cs), Plain(b, cs),
         SayTheSame(same, says, a, b), SayTheSame(same, says, b, a)
  PROVE  NodesMatch(same, a, b, cs, copied) <=> Told(says, a, cs) = Told(says, b, cs)
<1>1. a \in NodeIds /\ b \in NodeIds /\ kind[a] # Huge /\ kind[b] # Huge
  BY NodesHold, PlainFacts
<1>2. \A n \in {a, b} :
        /\ kind[n] = "object" => Told(says, n, cs) = Saying(kind[n], <<>>, Members(says, n, cs))
        /\ kind[n] # "object" => Told(says, n, cs) = Saying(kind[n], Items(says, n), {})
  BY <1>1, ToldIs
<1>3. \A k, l, i, j, m, o : Saying(k, i, m) = Saying(l, j, o) <=> k = l /\ i = j /\ m = o
  BY DEF Saying
<1>4. CASE kind[a] # kind[b]
  <2>1. Told(says, a, cs) # Told(says, b, cs)
    BY <1>2, <1>3, <1>4
  <2>2. ~NodesMatch(same, a, b, cs, copied)
    BY <1>1, <1>4, TypesApart DEF NodesMatch
  <2> QED BY <2>1, <2>2
<1>5. CASE kind[a] = kind[b] /\ a = b
  <2>1. Told(says, a, cs) = Told(says, b, cs)
    BY <1>5
  <2> DEFINE Good == NodesMatch(same, a, b, cs, copied)
  <2>2. CASE kind[a] = "object"
    <3>1. MembersMatch(same, a, b, cs) /\ MembersMatch(same, b, a, cs)
      BY <1>5, <2>2, MembersMean
    <3> QED BY <1>1, <1>5, <2>1, <2>2, <3>1, TypesApart DEF NodesMatch, ObjectsMatch
  <2>3. CASE kind[a] = "array"
    <3>1. ArraysMatch(same, a, b)
      BY <1>5 DEF ArraysMatch, SayTheSame
    <3> QED BY <1>1, <1>5, <2>1, <2>3, <3>1, TypesApart DEF NodesMatch
  <2>4. CASE kind[a] \notin {"array", "object"}
    BY <1>1, <1>5, <2>1, <2>4, TypesApart DEF NodesMatch, NumbersMatch
  <2> QED BY <2>2, <2>3, <2>4
<1>6. CASE kind[a] = kind[b] /\ a # b
  <2>2. CASE kind[a] = "object"
    <3>1. MembersMatch(same, a, b, cs) <=> Members(says, a, cs) \subseteq Members(says, b, cs)
      BY <1>6, <2>2, MembersMean
    <3>2. MembersMatch(same, b, a, cs) <=> Members(says, b, cs) \subseteq Members(says, a, cs)
      BY <1>6, <2>2, MembersMean
    <3>3. NodesMatch(same, a, b, cs, copied) <=> ObjectsMatch(same, a, b, cs)
      BY <1>1, <1>6, <2>2, TypesApart DEF NodesMatch
    <3>4. Told(says, a, cs) = Told(says, b, cs) <=> Members(says, a, cs) = Members(says, b, cs)
      <4>1. /\ Told(says, a, cs) = Saying(kind[a], <<>>, Members(says, a, cs))
            /\ Told(says, b, cs) = Saying(kind[a], <<>>, Members(says, b, cs))
        BY <1>2, <1>6, <2>2
      <4> QED BY <1>3, <4>1
    <3> QED BY <3>1, <3>2, <3>3, <3>4 DEF ObjectsMatch
  <2>3. CASE kind[a] = "array"
    <3>1. NodesMatch(same, a, b, cs, copied) <=> ArraysMatch(same, a, b)
      BY <1>1, <1>6, <2>3, TypesApart DEF NodesMatch
    <3>2. Told(says, a, cs) = Told(says, b, cs) <=> Items(says, a) = Items(says, b)
      <4>1. /\ Told(says, a, cs) = Saying(kind[a], Items(says, a), {})
            /\ Told(says, b, cs) = Saying(kind[a], Items(says, b), {})
        BY <1>2, <1>6, <2>3
      <4> QED BY <1>3, <4>1
    <3>3. ArraysMatch(same, a, b) <=> Items(says, a) = Items(says, b)
      <4>1. Len(Kids(a)) \in Nat /\ Len(Kids(b)) \in Nat
        BY <1>1, FinishedIsATree, KidFacts
      <4>2. ASSUME ArraysMatch(same, a, b) PROVE Items(says, a) = Items(says, b)
        BY <4>2 DEF ArraysMatch, Items, SayTheSame
      <4>3. ASSUME Items(says, a) = Items(says, b) PROVE ArraysMatch(same, a, b)
        <5>1. 1 .. Len(Kids(a)) = 1 .. Len(Kids(b))
          BY <4>3 DEF Items
        <5>2. Len(Kids(a)) = Len(Kids(b))
          BY <4>1, <5>1
        <5>3. \A i \in 1 .. Len(Kids(a)) : says[Kids(a)[i]] = says[Kids(b)[i]]
          <6> SUFFICES ASSUME NEW i \in 1 .. Len(Kids(a))
                       PROVE says[Kids(a)[i]] = says[Kids(b)[i]]
            OBVIOUS
          <6>1. Items(says, a)[i] = says[Kids(a)[i]] /\ Items(says, b)[i] = says[Kids(b)[i]]
            BY <5>1 DEF Items
          <6> QED BY <4>3, <6>1
        <5> QED BY <5>2, <5>3 DEF ArraysMatch, SayTheSame
      <4> QED BY <4>2, <4>3
    <3> QED BY <3>1, <3>2, <3>3
  <2>4. CASE kind[a] \notin {"array", "object"}
    <3>1. Kids(a) = <<>> /\ Kids(b) = <<>>
      BY <1>6, <2>4, NodesHold DEF Containers
    <3>2. Items(says, a) = Items(says, b)
      BY <3>1 DEF Items
    <3>3. Told(says, a, cs) = Told(says, b, cs)
      BY <1>2, <1>6, <2>4, <3>2
    <3>4. NodesMatch(same, a, b, cs, copied)
      BY <1>1, <1>6, <2>4, TypesApart DEF NodesMatch, NumbersMatch
    <3> QED BY <3>3, <3>4
  <2> QED BY <2>2, <2>3, <2>4
<1> QED BY <1>4, <1>5, <1>6

\* From the leaves up, compare tells apart what Meaning does.
LEMMA SameMeans ==
  ASSUME Finished, NEW cs \in BOOLEAN, NEW copied \in BOOLEAN
  PROVE  \A a, b \in Live : Plain(a, cs) /\ Plain(b, cs) =>
           (SameOf(cs, copied)[<<a, b>>] <=> SaysOf(cs)[a] = SaysOf(cs)[b])
<1> DEFINE same == SameOf(cs, copied)
           says == SaysOf(cs)
           Means(a, b) == same[<<a, b>>] <=> says[a] = says[b]
           S == {r \in Nat : \A a, b \in Live : Plain(a, cs) /\ Plain(b, cs)
             /\ Rank(a, b) < r => Means(a, b)}
<1>0. Live \subseteq NodeIds
  BY NodesHold
<1>1. 0 \in S
  BY <1>0, RankFalls
<1>2. ASSUME NEW r \in Nat, r \in S PROVE r + 1 \in S
  <2> SUFFICES ASSUME NEW a \in Live, NEW b \in Live, Plain(a, cs), Plain(b, cs), Rank(a, b) < r + 1
               PROVE  Means(a, b)
    OBVIOUS
  <2>1. \A i \in 1 .. Len(Kids(a)), j \in 1 .. Len(Kids(b)) :
          /\ Kids(a)[i] \in Live /\ Kids(b)[j] \in Live
          /\ Plain(Kids(a)[i], cs) /\ Plain(Kids(b)[j], cs)
          /\ Rank(Kids(a)[i], Kids(b)[j]) < r /\ Rank(Kids(b)[j], Kids(a)[i]) < r
    BY <1>0, RankFalls, PlainFacts
  <2>2. \A i \in 1 .. Len(Kids(a)), j \in 1 .. Len(Kids(b)) :
          Means(Kids(a)[i], Kids(b)[j]) /\ Means(Kids(b)[j], Kids(a)[i])
    <3> HIDE DEF Means
    <3> QED BY <1>2, <2>1
  <2> HIDE DEF same, says
  <2>3. SayTheSame(same, says, a, b) /\ SayTheSame(same, says, b, a)
    BY <2>2 DEF SayTheSame
  <2>4. NodesMatch(same, a, b, cs, copied) <=> Told(says, a, cs) = Told(says, b, cs)
    BY <2>3, MatchMeans
  <2>5. same[<<a, b>>] <=> NodesMatch(same, a, b, cs, copied)
    BY <1>0, SameIs DEF same
  <2>6. says[a] = Told(says, a, cs) /\ says[b] = Told(says, b, cs)
    BY <1>0, SaysIs DEF says
  <2> QED BY <2>4, <2>5, <2>6
<1>3. MaxNodes + MaxNodes + 1 \in S
  <2> HIDE DEF S
  <2>1. Nat \subseteq S
    BY <1>1, <1>2, SetInduction
  <2> QED BY <2>1, MaxNodesAssumption
<1> SUFFICES ASSUME NEW a \in Live, NEW b \in Live, Plain(a, cs), Plain(b, cs) PROVE Means(a, b)
  OBVIOUS
<1>4. Rank(a, b) < MaxNodes + MaxNodes + 1
  BY <1>0, RankFalls, MaxNodesAssumption
<1> HIDE DEF Means
<1> QED BY <1>3, <1>4

LEMMA ComparesRightly == Finished => CompareIsMeaning /\ CompareIsSymmetric
<1> SUFFICES ASSUME Finished PROVE CompareIsMeaning /\ CompareIsSymmetric
  OBVIOUS
<1>0. Live \subseteq NodeIds
  BY NodesHold
<1>1. \A a, b \in Live : \A cs, copied :
        SameOf(cs, copied)[<<a, b>>] \in BOOLEAN
  BY <1>0, SameIs
<1>2. ASSUME NEW a \in Live, NEW b \in Live, NEW cs \in BOOLEAN, Plain(a, cs), Plain(b, cs)
      PROVE  /\ Compare(a, b, cs) = (Meaning(cs)[a] = Meaning(cs)[b])
             /\ CJSONCompare(a, b, cs) = (Meaning(cs)[a] = Meaning(cs)[b])
  <2>1. /\ SameOf(cs, FALSE)[<<a, b>>] <=> SaysOf(cs)[a] = SaysOf(cs)[b]
        /\ SameOf(cs, TRUE)[<<a, b>>] <=> SaysOf(cs)[a] = SaysOf(cs)[b]
    BY <1>2, SameMeans
  <2>2. /\ SameOf(cs, FALSE)[<<a, b>>] \in BOOLEAN /\ SameOf(cs, TRUE)[<<a, b>>] \in BOOLEAN
    BY <1>1
  <2>3. Compare(a, b, cs) <=> SameOf(cs, FALSE)[<<a, b>>]
    BY CompareIsSame DEF Compare
  <2>4. CJSONCompare(a, b, cs) = SameOf(cs, TRUE)[<<a, b>>]
    BY CompareIsSame DEF CJSONCompare
  <2>5. Meaning(cs) = SaysOf(cs)
    BY MeaningIsSays
  <2> QED BY <2>1, <2>2, <2>3, <2>4, <2>5 DEF Compare
<1>3. CompareIsMeaning
  BY <1>2 DEF CompareIsMeaning
<1>4. CompareIsSymmetric
  <2> SUFFICES ASSUME NEW a \in Live, NEW b \in Live, NEW cs \in BOOLEAN
               PROVE  Compare(a, b, cs) = Compare(b, a, cs)
    BY DEF CompareIsSymmetric
  <2>1. SameOf(cs, FALSE)[<<a, b>>] = SameOf(cs, FALSE)[<<b, a>>]
    BY <1>0, SameIsSymmetric
  <2> QED BY <2>1, CompareIsSame DEF Compare
<1> QED BY <1>3, <1>4

\* compare, and cJSON_Compare on copies, find two trees a parse has built equal
\* exactly when they say the same, the order of members aside, as long as no object
\* holds a key twice and no number overflowed.
THEOREM ComparesByMeaning == ParseSpec => []CompareIsMeaning
<1>1. ParserInv /\ NodesInv => CompareIsMeaning
  BY ComparesRightly DEF Finished, CompareIsMeaning
<1> QED BY <1>1, NodesInvAlways, PTL

\* compare answers the same whichever of two trees is named first, whatever keys
\* they repeat.
THEOREM ComparesBothWays == ParseSpec => []CompareIsSymmetric
<1>1. ParserInv /\ NodesInv => CompareIsSymmetric
  BY ComparesRightly DEF Finished, CompareIsSymmetric
<1> QED BY <1>1, NodesInvAlways, PTL

-----------------------------------------------------------------------------
(* The text that has been read. *)

Texts == Seq(Tokens)

\* What one token adds to a text without blanks.
Bit(t) == IF t \in {Blank, Nul} THEN <<>> ELSE <<t>>

LEMMA TextAlgebra ==
  /\ <<>> \in Texts
  /\ \A t \in Tokens : <<t>> \in Texts
  /\ \A a, b \in Texts : a \o b \in Texts
  /\ \A a \in Texts : a \o <<>> = a /\ <<>> \o a = a
  /\ \A a, b, c \in Texts : (a \o b) \o c = a \o (b \o c)
<1>1. /\ <<>> \in Texts /\ \A t \in Tokens : <<t>> \in Texts
  <2> HIDE DEF Tokens
  <2> QED BY DEF Texts
<1>2. \A a, b \in Texts : a \o b \in Texts
  BY ConcatProperties DEF Texts
<1>3. \A a \in Texts : a \o <<>> = a /\ <<>> \o a = a
  BY ConcatEmptySeq DEF Texts
<1>4. \A a, b, c \in Texts : (a \o b) \o c = a \o (b \o c)
  BY ConcatAssociative DEF Texts
<1> QED BY <1>1, <1>2, <1>3, <1>4

LEMMA BitIsText == \A t \in Tokens : Bit(t) \in Texts
BY TextAlgebra DEF Bit

LEMMA TokensAre ==
  /\ \A t \in {"[", "]", "{", "}", ",", ":"} : t \in Tokens
  /\ Keys \subseteq Tokens /\ Scalars \subseteq Tokens
BY DEF Tokens, Marks

\* T has the text without blanks up to every offset.
Reading(T) ==
  /\ T \in [Nat -> Texts]
  /\ T[AfterBOM] = <<>>
  /\ \A o \in Nat : AfterBOM <= o /\ o < Len(input) => T[o + 1] = T[o] \o Bit(input[o + 1])

\* Where the text begins.
LEMMA StartFacts ==
  ASSUME input \in Seq(Tokens)
  PROVE  /\ AfterBOM \in Nat /\ AfterBOM <= Len(input) /\ Len(input) \in Nat
         /\ \A i \in 1 .. Len(input) : input[i] \in Tokens
BY DEF AfterBOM, Reads

LEMMA ReadingExists ==
  ASSUME input \in Seq(Tokens)
  PROVE  \E T : Reading(T)
<1> DEFINE n == Len(input)
           Seqs == [i \in 1 .. n |-> IF i <= AfterBOM THEN <<>> ELSE Bit(input[i])]
<1>1. /\ AfterBOM \in Nat /\ AfterBOM <= n /\ n \in Nat
      /\ \A i \in 1 .. n : input[i] \in Tokens
  BY StartFacts
<1> HIDE DEF n
<1>2. \A i \in 1 .. n : Seqs[i] \in Texts
  BY <1>1, BitIsText, TextAlgebra
<1>3. Seqs \in Seq(Texts) /\ Len(Seqs) = n
  BY <1>1, <1>2
<1> HIDE DEF Seqs
<1>4. PICK at : at \in [0 .. n -> Texts] /\ Joins(Seqs, at)
  BY <1>3, JoinsExist DEF Texts
<1>5. at[0] = <<>> /\ \A i \in 1 .. n : at[i] = at[i - 1] \o Seqs[i]
  BY <1>3, <1>4 DEF Joins
<1>6. at[AfterBOM] = <<>>
  <2>1. CASE AfterBOM = 0
    BY <1>5, <2>1
  <2>2. CASE AfterBOM # 0
    <3>1. AfterBOM = 1 /\ 1 \in 1 .. n /\ 1 - 1 = 0
      BY <1>1, <2>2 DEF AfterBOM
    <3>2. at[1] = at[0] \o Seqs[1]
      BY <1>5, <3>1
    <3>3. Seqs[1] = <<>>
      BY <3>1 DEF Seqs
    <3> QED BY <1>5, <3>1, <3>2, <3>3, TextAlgebra
  <2> QED BY <2>1, <2>2
<1>7. PICK T : T = [o \in Nat |-> IF o <= n THEN at[o] ELSE <<>>]
  OBVIOUS
<1>8. T \in [Nat -> Texts]
  BY <1>4, <1>7, TextAlgebra
<1>9. ASSUME NEW o \in Nat, AfterBOM <= o, o < n PROVE T[o + 1] = T[o] \o Bit(input[o + 1])
  <2>1. o + 1 \in 1 .. n /\ (o + 1) - 1 = o /\ ~(o + 1 <= AfterBOM) /\ o <= n /\ o + 1 \in Nat
    BY <1>1, <1>9
  <2>2. at[o + 1] = at[o] \o Seqs[o + 1]
    BY <1>5, <2>1
  <2>3. Seqs[o + 1] = Bit(input[o + 1])
    BY <2>1 DEF Seqs
  <2>4. T[o + 1] = at[o + 1] /\ T[o] = at[o]
    BY <1>7, <2>1
  <2> QED BY <2>2, <2>3, <2>4
<1>10. T[AfterBOM] = <<>>
  BY <1>1, <1>6, <1>7
<1> QED BY <1>8, <1>9, <1>10 DEF Reading, n

LEMMA ReadingMeans ==
  ASSUME input \in Seq(Tokens), NEW T, Reading(T), NEW o \in AfterBOM .. Len(input)
  PROVE  T[o] = NoBlanks(SubSeq(input, AfterBOM + 1, o))
<1> DEFINE a == AfterBOM
           n == o - a
           s == SubSeq(input, a + 1, o)
           Seqs == [i \in 1 .. Len(s) |-> Bit(s[i])]
<1>1. /\ a \in Nat /\ n \in Nat /\ a + n = o /\ o <= Len(input) /\ Len(input) \in Nat
      /\ \A i \in 1 .. Len(input) : input[i] \in Tokens
  BY StartFacts
<1>2. Len(s) = n /\ \A i \in 1 .. n : s[i] = input[a + i] /\ s[i] \in Tokens
  <2>1. a + 1 \in Int /\ o \in Int /\ \A i \in a + 1 .. o : input[i] \in Tokens
    BY <1>1
  <2> HIDE DEF a
  <2>2. /\ Len(s) = IF a + 1 <= o THEN o - (a + 1) + 1 ELSE 0
        /\ \A i \in 1 .. o - (a + 1) + 1 : s[i] = input[(a + 1) + i - 1]
    BY <2>1, SubSeqProperties
  <2> HIDE DEF s
  <2>3. Len(s) = n
    BY <1>1, <2>2
  <2>4. ASSUME NEW i \in 1 .. n PROVE s[i] = input[a + i] /\ s[i] \in Tokens
    <3>1. i \in 1 .. o - (a + 1) + 1 /\ (a + 1) + i - 1 = a + i /\ a + i \in 1 .. Len(input)
      BY <1>1
    <3> QED BY <1>1, <2>2, <3>1
  <2> QED BY <2>3, <2>4
<1> HIDE DEF s
<1>3. /\ Seqs \in Seq(Texts) /\ Len(Seqs) = n /\ \A i \in 1 .. n : Seqs[i] = Bit(input[a + i])
  <2>1. \A i \in 1 .. n : Bit(s[i]) \in Texts
    BY <1>2, BitIsText
  <2>2. Seqs = [i \in 1 .. n |-> Bit(s[i])]
    BY <1>2
  <2> HIDE DEF Seqs, n, a
  <2>3. \A i \in 1 .. n : Seqs[i] = Bit(s[i]) /\ s[i] = input[a + i]
    BY <1>2, <2>2
  <2>4. Seqs \in Seq(Texts) /\ Len(Seqs) = n
    BY <1>1, <2>1, <2>2
  <2> QED BY <2>3, <2>4
<1>4. NoBlanks(s) = FlattenSeq(Seqs)
  BY DEF NoBlanks, Bit
<1> HIDE DEF Seqs
<1>5. PICK at : at = [j \in 0 .. n |-> T[a + j]]
  OBVIOUS
<1>6. at \in [0 .. n -> Texts] /\ at[0] = <<>> /\ at[n] = T[o]
  <2>1. /\ T \in [Nat -> Texts] /\ T[a] = <<>>
    BY DEF Reading
  <2> HIDE DEF n, a
  <2> QED BY <1>1, <1>5, <2>1
<1>7. ASSUME NEW i \in 1 .. n PROVE at[i] = at[i - 1] \o Seqs[i]
  <2>1. /\ a + (i - 1) \in Nat /\ a <= a + (i - 1) /\ a + (i - 1) < Len(input)
        /\ (a + (i - 1)) + 1 = a + i /\ i - 1 \in 0 .. n /\ i \in 0 .. n
    BY <1>1
  <2>2. T[(a + (i - 1)) + 1] = T[a + (i - 1)] \o Bit(input[(a + (i - 1)) + 1])
    BY <2>1 DEF Reading
  <2> HIDE DEF n, a
  <2> QED BY <1>3, <1>5, <2>1, <2>2
<1>8. Joins(Seqs, at)
  BY <1>3, <1>6, <1>7 DEF Joins
<1>9. FlattenSeq(Seqs) = at[n]
  <2> HIDE DEF n
  <2> QED BY <1>3, <1>6, <1>8, FlattenIsLast DEF Texts
<1> QED BY <1>4, <1>6, <1>9 DEF s, a

\* Blanks add nothing.
LEMMA BlanksAddNothing ==
  ASSUME input \in Seq(Tokens), NEW T, Reading(T), NEW o \in Nat, AfterBOM <= o,
         NEW e \in AfterBlanks(o)
  PROVE  e \in Nat /\ o <= e /\ e <= Len(input) /\ T[e] = T[o]
<1>1. e \in Nat /\ o <= e /\ e <= Len(input) /\ \A i \in o .. e - 1 : IsBlank(i)
  BY BlanksInText DEF AfterBlanks
<1> DEFINE Good == {j \in Nat : o + j <= e => T[o + j] = T[o]}
<1>2. 0 \in Good
  BY <1>1
<1>3. ASSUME NEW j \in Nat, j \in Good PROVE j + 1 \in Good
  <2> SUFFICES ASSUME o + (j + 1) <= e PROVE T[o + (j + 1)] = T[o]
    OBVIOUS
  <2>1. /\ o + j \in o .. e - 1 /\ o + j \in Nat /\ AfterBOM <= o + j /\ o + j < Len(input)
        /\ o + (j + 1) = (o + j) + 1
    BY <1>1, StartFacts
  <2>2. T[(o + j) + 1] = T[o + j] \o Bit(input[(o + j) + 1])
    BY <2>1 DEF Reading
  <2>3. Bit(input[(o + j) + 1]) = <<>>
    BY <1>1, <2>1 DEF IsBlank, Reads, Bit
  <2>4. T[o + j] \in Texts
    BY <2>1 DEF Reading
  <2>5. T[o + j] = T[o]
    <3>1. o + j <= e
      BY <1>1, <2>1
    <3> QED BY <1>3, <3>1
  <2> QED BY <2>1, <2>2, <2>3, <2>4, <2>5, TextAlgebra
<1>4. Nat \subseteq Good
  <2> HIDE DEF Good
  <2> QED BY <1>2, <1>3, SetInduction
<1>5. e - o \in Good /\ o + (e - o) = e
  BY <1>1, <1>4
<1> QED BY <1>1, <1>5

\* A token that is no blank adds itself.
LEMMA TokenAddsItself ==
  ASSUME input \in Seq(Tokens), NEW T, Reading(T), NEW o \in Nat, AfterBOM <= o, o < Len(input),
         input[o + 1] \notin {Blank, Nul}
  PROVE  T[o + 1] = T[o] \o <<input[o + 1]>>
BY DEF Reading, Bit

LEMMA PrintedTokens ==
  /\ \A t \in {"[", "]", "{", "}", ",", ":"} : t \notin {Blank, Nul}
  /\ Keys \cap {Blank, Nul} = {} /\ Scalars \cap {Blank, Nul} = {}
BY KeysAssumption DEF Marks, Scalars, Blank, Nul, Scalar, Huge, Broken, Stray, BOM

-----------------------------------------------------------------------------
(* The texts of the nodes. *)

Opener(container) == IF container = "array" THEN "[" ELSE "{"
Enclosed(k, text) ==
  IF k \in Containers THEN (<<Opener(k)>> \o text) \o <<Closing(k)>> ELSE <<k>>

Name(k) == IF k = None THEN <<>> ELSE <<k, ":">>
Comma(m) == IF m = None THEN <<>> ELSE <<",">>
Upto(P, m) == IF m = None THEN <<>> ELSE P[m]
Piece(W, m) == (Comma(prev[m]) \o Name(key[m])) \o W[m]

\* W is the text of every node, P the text of its list up to it, H where the list
\* begins; all but the node on its way up are in a list.
Linked == Live \ {ret}

Chained(H, P, W) ==
  \A m \in Linked :
    /\ H[m] \in Linked
    /\ prev[m] = None => H[m] = m
    /\ prev[m] # None => H[m] = H[prev[m]] /\ (key[m] = None <=> key[prev[m]] = None)
    /\ P[m] = Upto(P, prev[m]) \o Piece(W, m)

Enclosing(H, P, W) ==
  \A n \in Live :
    /\ child[n] = None => W[n] = Enclosed(kind[n], <<>>)
    /\ child[n] # None =>
         /\ key[child[n]] = None <=> kind[n] # "object"
         /\ \A m \in Linked : next[m] = None /\ H[m] = child[n] => W[n] = Enclosed(kind[n], P[m])

Ending(H) ==
  \A i \in DOMAIN stack : stack[i].head # None =>
    /\ H[stack[i].tail] = stack[i].head
    /\ \A m \in Linked : next[m] = None /\ H[m] = stack[i].head => m = stack[i].tail

Listed(H, P, W) ==
  /\ H \in [NodeIds -> NodeIds] /\ P \in [NodeIds -> Texts] /\ W \in [NodeIds -> Texts]
  /\ Chained(H, P, W) /\ Enclosing(H, P, W) /\ Ending(H)

LEMMA EnclosedIsText == \A k \in Contents, t \in Texts : Enclosed(k, t) \in Texts
<1> SUFFICES ASSUME NEW k \in Contents, NEW t \in Texts PROVE Enclosed(k, t) \in Texts
  OBVIOUS
<1>1. CASE k \in Containers
  <2>1. Opener(k) \in Tokens /\ Closing(k) \in Tokens
    BY TokensAre DEF Opener, Closing
  <2> QED BY <1>1, <2>1, TextAlgebra DEF Enclosed
<1>2. CASE k \notin Containers
  <2>1. k \in Tokens
    BY <1>2, TokensAre DEF Contents
  <2> QED BY <1>2, <2>1, TextAlgebra DEF Enclosed
<1> QED BY <1>1, <1>2

LEMMA PartsAreTexts ==
  /\ \A k \in Keys \cup {None} : Name(k) \in Texts
  /\ \A m : Comma(m) \in Texts
  /\ \A P \in [NodeIds -> Texts], m \in Link : Upto(P, m) \in Texts
<1>1. \A k \in Keys \cup {None} : Name(k) \in Texts
  <2> SUFFICES ASSUME NEW k \in Keys PROVE <<k, ":">> \in Texts
    BY TextAlgebra DEF Name
  <2>1. k \in Tokens /\ ":" \in Tokens
    BY TokensAre
  <2> HIDE DEF Tokens
  <2> QED BY <2>1 DEF Texts
<1>2. \A m : Comma(m) \in Texts
  BY TokensAre, TextAlgebra DEF Comma
<1>3. \A P \in [NodeIds -> Texts], m \in Link : Upto(P, m) \in Texts
  BY TextAlgebra DEF Upto, Link
<1> QED BY <1>1, <1>2, <1>3

LEMMA IdleListed ==
  ASSUME NEW H, NEW P, NEW W, Listed(H, P, W), UNCHANGED <<vars, kind, ret>>,
         \A i \in DOMAIN stack' :
           \/ stack'[i].head = None
           \/ i \in DOMAIN stack /\ stack'[i].head = stack[i].head
             /\ stack'[i].tail = stack[i].tail
  PROVE  Listed(H, P, W)'
<1>1. UNCHANGED <<Live, Linked, next, prev, child, key, kind>>
  BY DEF vars, Live, InBounds, Linked
<1>2. Chained(H, P, W)'
  BY <1>1 DEF Listed, Chained, Piece
<1>3. Enclosing(H, P, W)'
  BY <1>1 DEF Listed, Enclosing
<1>4. Ending(H)'
  BY <1>1 DEF Listed, Ending
<1> QED BY <1>2, <1>3, <1>4 DEF Listed

\* The links of a parse under way.
LEMMA LinkFacts ==
  ASSUME HandInv
  PROVE  /\ Live \subseteq NodeIds /\ None \notin Live
         /\ next \in [NodeIds -> Link] /\ prev \in [NodeIds -> Link]
              /\ child \in [NodeIds -> Link]
         /\ \A n \in Live : next[n] \in Live \cup {None} /\ prev[n] \in Live \cup {None}
              /\ child[n] \in Live \cup {None}
         /\ \A m, n \in Live : next[m] = n <=> prev[n] = m
         /\ \A n \in NodeIds \ Live : next[n] = None /\ prev[n] = None /\ child[n] = None
         /\ \A h \in Hands : h \in Live /\ prev[h] = None
              /\ \A m \in Live : next[m] # h /\ child[m] # h
         /\ ret # None => /\ ret \in Hands /\ next[ret] = None
                          /\ \A n \in Live : prev[n] # ret
<1> USE NoneIsNoNode
<1>1. /\ Live \subseteq NodeIds /\ None \notin Live
      /\ next \in [NodeIds -> Link] /\ prev \in [NodeIds -> Link] /\ child \in [NodeIds -> Link]
      /\ \A n \in Live : next[n] \in Live \cup {None} /\ prev[n] \in Live \cup {None}
           /\ child[n] \in Live \cup {None}
      /\ \A m, n \in Live : next[m] = n <=> prev[n] = m
      /\ \A n \in NodeIds \ Live : next[n] = None /\ prev[n] = None /\ child[n] = None
      /\ \A h \in Hands : h \in Live /\ prev[h] = None
           /\ \A m \in Live : next[m] # h /\ child[m] # h
  BY GrownFacts DEF HandInv
<1>2. ret # None => ret \in Hands /\ next[ret] = None
  BY HandsAre DEF HandInv
<1>3. ret # None => \A n \in Live : prev[n] # ret
  BY <1>1, <1>2
<1> QED BY <1>1, <1>2, <1>3

\* The list from c ends at t, and is one that a container of kind k may have.
ListTo(H, c, t, k) ==
  /\ c = None <=> t = None
  /\ c # None => /\ key[c] = None <=> k # "object"
                 /\ \A m \in Linked : next[m] = None /\ H[m] = c => m = t

\* A new node that holds the list from c to t.
LEMMA ReturnsListed ==
  ASSUME NEW H, NEW P, NEW W, Listed(H, P, W), OwnInv, BoundsInv, HandInv, ret = None,
         NEW c \in Live \cup {None}, NEW t \in Link, NEW k \in Contents, Returns(c, k),
         ListTo(H, c, t, k),
         \A i \in DOMAIN stack' : i \in DOMAIN stack /\ stack'[i] = stack[i]
  PROVE  \E W2 : Listed(H, P, W2)' /\ W2[ret'] = Enclosed(k, Upto(P, t))
<1> PICK W2 : W2 = [W EXCEPT ![size] = Enclosed(k, Upto(P, t))]
  OBVIOUS
<1>1. /\ size \in NodeIds \ Live /\ Live' = Live \cup {size}
      /\ next' = next /\ prev' = prev /\ key' = key /\ child' = [child EXCEPT ![size] = c]
      /\ kind' = [kind EXCEPT ![size] = k] /\ ret' = size
  <2>1. size \in 0 .. MaxNodes /\ deleted \subseteq InBounds /\ size < MaxNodes
        /\ size' = size + 1 /\ deleted' = deleted
    BY DEF BoundsInv, TypeOK, LinksInBounds, Returns, Alloc
  <2> QED BY <2>1, MaxNodesAssumption DEF Live, InBounds, NodeIds, Returns, Alloc
<1>2. Linked = Live /\ Linked' = Live
  BY <1>1, LinkFacts DEF Linked
<1>3. /\ W2[size] = Enclosed(k, Upto(P, t)) /\ \A n \in Live : W2[n] = W[n]
      /\ W2 \in [NodeIds -> Texts]
  BY <1>1, PartsAreTexts, EnclosedIsText, LinkFacts DEF Listed
<1>4. Chained(H, P, W2)'
  <2> SUFFICES ASSUME NEW m \in Live
               PROVE  /\ H[m] \in Live
                      /\ prev[m] = None => H[m] = m
                      /\ prev[m] # None => H[m] = H[prev[m]]
                           /\ (key[m] = None <=> key[prev[m]] = None)
                      /\ P[m] = Upto(P, prev[m]) \o ((Comma(prev[m]) \o Name(key[m])) \o W2[m])
    BY <1>1, <1>2 DEF Chained, Piece
  <2> QED BY <1>2, <1>3 DEF Listed, Chained, Piece
<1>5. Enclosing(H, P, W2)'
  <2>1. /\ child' \in [NodeIds -> Link] /\ child'[size] = c
        /\ \A n \in Live : child'[n] = child[n] /\ kind'[n] = kind[n]
    BY <1>1, LinkFacts DEF Link
  <2>2. kind'[size] = k
    <3>1. kind \in [NodeIds -> Kinds]
      BY DEF OwnInv
    <3> QED BY <1>1, <3>1
  <2>3. ASSUME NEW n \in Live
        PROVE  /\ child'[n] = None => W2[n] = Enclosed(kind'[n], <<>>)
               /\ child'[n] # None =>
                    /\ key[child'[n]] = None <=> kind'[n] # "object"
                    /\ \A m \in Live : next[m] = None /\ H[m] = child'[n]
                         => W2[n] = Enclosed(kind'[n], P[m])
    BY <1>2, <1>3, <2>1 DEF Listed, Enclosing
  <2>4. /\ c = None => W2[size] = Enclosed(k, <<>>)
        /\ c # None =>
             /\ key[c] = None <=> k # "object"
             /\ \A m \in Live : next[m] = None /\ H[m] = c => W2[size] = Enclosed(k, P[m])
    BY <1>2, <1>3 DEF Upto, ListTo
  <2> QED BY <1>1, <1>2, <2>1, <2>2, <2>3, <2>4 DEF Enclosing
<1>6. Ending(H)'
  BY <1>1, <1>2 DEF Listed, Ending
<1> QED BY <1>1, <1>3, <1>4, <1>5, <1>6 DEF Listed

\* The lists under construction do not hold the node on its way up.
LEMMA TailsAreLinked ==
  ASSUME HandInv, NEW i \in DOMAIN stack, stack[i].head # None
  PROVE  stack[i].tail \in Linked /\ stack[i].tail # None
<1>1. /\ stack[i].head \in Hands /\ stack[i].tail \in Tree(next, child, stack[i].head)
      /\ ret # None => ret \in Hands /\ stack[i].head # ret
  BY HandsAre DEF HandInv, FrameInv, HandsApart
<1>2. \A h \in Hands : h \in Tree(next, child, h) /\ Tree(next, child, h) \subseteq Live
  BY GrownFacts DEF HandInv
<1>3. \A g, h \in Hands : g # h => Tree(next, child, g) \cap Tree(next, child, h) = {}
  BY DEF HandInv, Grown
<1>4. None \notin Live
  BY LinkFacts
<1>5. stack[i].tail \in Live
  BY <1>1, <1>2
<1>6. stack[i].tail # ret
  BY <1>1, <1>2, <1>3, <1>4, <1>5
<1> QED BY <1>4, <1>5, <1>6 DEF Linked

\* What linking an item does, read at its nodes and its calls.
LEMMA LinkItemFacts ==
  ASSUME OwnInv, HandInv, NodesInv, BoundsInv, LinkItem
  PROVE  /\ ret \in Linked' /\ ret \in Hands /\ Linked' = Live /\ Live' = Live
         /\ Live = Linked \cup {ret} /\ ret \notin Linked /\ ret # None
         /\ kind' = kind /\ child' = child /\ pc = "return" /\ pc' = "linked"
         /\ DOMAIN stack' = DOMAIN stack /\ Len(stack') = Len(stack)
              /\ Len(stack) \in DOMAIN stack
         /\ \A i \in DOMAIN stack : i # Len(stack) => stack'[i] = stack[i]
         /\ Top = stack[Len(stack)] /\ Top \in Frames /\ FrameInv(Top) /\ KeyedFrame(Top)
         /\ LET f == stack'[Len(stack)]
            IN  /\ f.head = (IF Top.head = None THEN ret ELSE Top.head) /\ f.tail = ret
                /\ f.key = Top.key /\ f.container = Top.container
         /\ key'[ret] = Top.key /\ \A n \in Linked : key'[n] = key[n]
         /\ Top.container = "array" <=> Top.key = None
         /\ prev'[ret] = Top.tail /\ \A n \in Linked : prev'[n] = prev[n]
         /\ next'[ret] = None /\ \A n \in Linked : n # Top.tail => next'[n] = next[n]
         /\ Top.tail # None => Top.tail \in Linked /\ next'[Top.tail] = ret
<1> USE NoneIsNoNode
<1>1. /\ stack \in Seq(Frames) /\ stack # <<>> /\ ret # None /\ ret \in Link
      /\ UNCHANGED <<size, deleted, child, isRef, kind>> /\ ret' = None
      /\ key' = [key EXCEPT ![ret] = Top.key]
      /\ pc = "return" /\ pc' = "linked"
  BY DEF OwnInv, PlaceInv, LinkItem
<1> DEFINE f == [Top EXCEPT !.head = IF @ = None THEN ret ELSE @, !.tail = ret]
<1>2. /\ f \in Frames /\ f.head = (IF Top.head = None THEN ret ELSE Top.head) /\ f.tail = ret
      /\ f.key = Top.key /\ f.container = Top.container
  BY <1>1, TopFacts DEF Frames
<1> HIDE DEF f
<1>3. /\ DOMAIN stack' = DOMAIN stack /\ stack'[Len(stack)] = f /\ Len(stack') = Len(stack)
      /\ \A i \in DOMAIN stack : i # Len(stack) => stack'[i] = stack[i]
      /\ Top = stack[Len(stack)] /\ Top \in Frames /\ Len(stack) \in DOMAIN stack
  <2>1. stack' = SetTop(f)
    BY DEF LinkItem, f
  <2> QED BY <1>1, <1>2, <2>1, SetTopFacts, TopFacts
<1>4. /\ next[ret] = None /\ ret \in Live /\ ret \in Hands /\ prev[ret] = None
      /\ Live \subseteq NodeIds /\ None \notin Live
      /\ next \in [NodeIds -> Link] /\ prev \in [NodeIds -> Link]
      /\ FrameInv(Top) /\ KeyedFrame(Top)
  BY <1>1, <1>3, LinkFacts, TopHand DEF NodesInv
<1>5. Live' = Live
  BY <1>1 DEF Live, InBounds
<1>6. Linked' = Live /\ Live = Linked \cup {ret} /\ ret \notin Linked
  BY <1>1, <1>4, <1>5 DEF Linked
<1>7. /\ Top.head = None <=> Top.tail = None
      /\ Top.tail # None => Top.tail \in Linked
  BY <1>3, <1>4, TailsAreLinked DEF FrameInv
<1>8. /\ key'[ret] = Top.key /\ \A n \in Linked : key'[n] = key[n]
  <2>1. ret \in NodeIds /\ key \in [NodeIds -> Keys \cup {None}]
    BY <1>4 DEF BoundsInv, TypeOK
  <2> QED BY <1>1, <1>4, <1>6, <2>1
<1>9. /\ prev'[ret] = Top.tail /\ \A n \in Linked : prev'[n] = prev[n]
      /\ next'[ret] = None /\ \A n \in Linked : n # Top.tail => next'[n] = next[n]
      /\ Top.tail # None => next'[Top.tail] = ret
  <2>1. /\ next' = IF Top.tail = None THEN next ELSE [next EXCEPT ![Top.tail] = ret]
        /\ prev' = IF Top.tail = None THEN prev ELSE [prev EXCEPT ![ret] = Top.tail]
    BY DEF LinkItem, LinkAsNextSibling
  <2>2. CASE Top.tail = None
    BY <1>4, <2>1, <2>2
  <2>3. CASE Top.tail # None
    BY <1>4, <1>6, <1>7, <2>1, <2>3
  <2> QED BY <2>2, <2>3
<1>10. Top.container = "array" <=> Top.key = None
  <2>1. Top.container = "object" => Top.key # None
    BY <1>1, <1>3 DEF NodesInv
  <2>2. Top.container \in {"array", "object"}
    BY <1>3 DEF Frames
  <2> QED BY <1>4, <2>1, <2>2 DEF KeyedFrame
<1> QED BY <1>1, <1>2, <1>3, <1>4, <1>5, <1>6, <1>7, <1>8, <1>9, <1>10

LEMMA EditedFunction ==
  ASSUME NEW S, NEW V, NEW f \in [S -> V], NEW x \in S, NEW v \in V, NEW g, g
           = [f EXCEPT ![x] = v]
  PROVE  g \in [S -> V] /\ g[x] = v /\ \A y \in S : y # x => g[y] = f[y]
OBVIOUS

\* The node on its way up becomes the last of its list.
Relisted(H, P, W, H2, P2) ==
  /\ H2 = [H EXCEPT ![ret] = IF Top.tail = None THEN ret ELSE Top.head]
  /\ P2 = [P EXCEPT ![ret] =
             Upto(P, Top.tail) \o ((Comma(Top.tail) \o Name(Top.key)) \o W[ret])]

Appended(P, W, P2) ==
  /\ \A n \in Linked : P2[n] = P[n]
  /\ P2[ret] = Upto(P, Top.tail) \o ((Comma(Top.tail) \o Name(Top.key)) \o W[ret])

LEMMA LinkListed ==
  ASSUME NEW H, NEW P, NEW W, Listed(H, P, W), OwnInv, HandInv, NodesInv, BoundsInv, LinkItem,
         NEW H2, NEW P2, Relisted(H, P, W, H2, P2)
  PROVE  Listed(H2, P2, W)' /\ Appended(P, W, P2)
<1> DEFINE text == Upto(P, Top.tail) \o ((Comma(Top.tail) \o Name(Top.key)) \o W[ret])
           head == IF Top.tail = None THEN ret ELSE Top.head
<1>1. /\ Live \subseteq NodeIds /\ None \notin Live
      /\ \A n \in Live : next[n] \in Live \cup {None} /\ prev[n] \in Live \cup {None}
           /\ child[n] \in Live \cup {None}
      /\ \A n \in Live : prev[n] # ret /\ child[n] # ret
      /\ \A i \in DOMAIN stack : stack[i].head # None => \A m \in Live : child[m] # stack[i].head
  <2>1. \A i \in DOMAIN stack : stack[i].head # None => stack[i].head \in Hands
    BY HandsAre
  <2> QED BY <2>1, LinkItemFacts, LinkFacts
<1>2. /\ ret \in NodeIds /\ text \in Texts /\ head \in NodeIds
  <2>1. /\ ret \in NodeIds /\ W[ret] \in Texts
    BY <1>1, LinkItemFacts DEF Listed
  <2>2. Upto(P, Top.tail) \in Texts /\ Comma(Top.tail) \in Texts /\ Name(Top.key) \in Texts
    BY PartsAreTexts, LinkItemFacts DEF Frames, Listed
  <2>3. Top.tail # None => Top.head \in NodeIds
    BY LinkItemFacts DEF FrameInv, Frames, Link
  <2> QED BY <2>1, <2>2, <2>3, TextAlgebra
<1>3. /\ H2 \in [NodeIds -> NodeIds] /\ P2 \in [NodeIds -> Texts]
      /\ H2[ret] = head /\ P2[ret] = text
      /\ \A n \in Linked : H2[n] = H[n] /\ P2[n] = P[n]
  <2> HIDE DEF text, head
  <2>1. H2 = [H EXCEPT ![ret] = head] /\ P2 = [P EXCEPT ![ret] = text]
    BY DEF text, head, Relisted
  <2>2. Linked \subseteq NodeIds /\ ret \notin Linked
    BY <1>1, LinkItemFacts DEF Linked
  <2>3. H \in [NodeIds -> NodeIds] /\ P \in [NodeIds -> Texts]
    BY DEF Listed
  <2>4. H2 \in [NodeIds -> NodeIds] /\ H2[ret] = head /\ \A n \in Linked : H2[n] = H[n]
    BY <1>2, <2>1, <2>2, <2>3, EditedFunction
  <2>5. P2 \in [NodeIds -> Texts] /\ P2[ret] = text /\ \A n \in Linked : P2[n] = P[n]
    <3>1. ret \in NodeIds /\ text \in Texts /\ P \in [NodeIds -> Texts]
      BY <1>2, <2>3
    <3>2. P2 = [P EXCEPT ![ret] = text]
      BY <2>1
    <3>3. P2 \in [NodeIds -> Texts] /\ P2[ret] = text /\ \A y \in NodeIds : y # ret
            => P2[y] = P[y]
      BY ONLY <3>1, <3>2, EditedFunction
    <3> QED BY <2>2, <3>3
  <2> QED BY <2>4, <2>5
<1>4. ASSUME Top.tail # None
      PROVE  /\ H[Top.tail] = Top.head /\ Top.head # None /\ Top.tail \in Linked
             /\ key[Top.tail] = None <=> Top.key = None
  BY <1>4, LinkItemFacts DEF Listed, Ending, FrameInv, KeyedFrame, Frames
<1>5. Chained(H2, P2, W)'
  <2> SUFFICES ASSUME NEW m \in Linked \cup {ret}
               PROVE  /\ H2[m] \in Linked \cup {ret}
                      /\ prev'[m] = None => H2[m] = m
                      /\ prev'[m] # None => H2[m] = H2[prev'[m]]
                           /\ (key'[m] = None <=> key'[prev'[m]] = None)
                      /\ P2[m] = Upto(P2, prev'[m]) \o ((Comma(prev'[m]) \o Name(key'[m])) \o W[m])
    BY LinkItemFacts DEF Chained, Piece
  <2>1. CASE m = ret
    <3>1. prev'[m] = Top.tail /\ key'[m] = Top.key
      BY <2>1, LinkItemFacts
    <3>2. Upto(P2, Top.tail) = Upto(P, Top.tail)
      BY <1>3, <1>4 DEF Upto
    <3>3. Top.tail # None => key'[Top.tail] = key[Top.tail] /\ H2[Top.tail] = Top.head
      BY <1>3, <1>4, LinkItemFacts
    <3>4. Top.tail # None => Top.head \in Linked
      BY <1>4 DEF Listed, Chained
    <3>5. H2[m] \in Linked \cup {ret} /\ (Top.tail = None => H2[m] = m)
      BY <1>3, <2>1, <3>4
    <3>6. Top.tail # None => H2[m] = H2[Top.tail] /\ (key'[m] = None <=> key'[Top.tail] = None)
      BY <1>3, <1>4, <2>1, <3>1, <3>3
    <3>7. P2[m] = Upto(P2, Top.tail) \o ((Comma(Top.tail) \o Name(Top.key)) \o W[m])
      BY <1>3, <2>1, <3>2
    <3> QED BY <3>1, <3>5, <3>6, <3>7
  <2>2. CASE m \in Linked
    <3>1. prev'[m] = prev[m] /\ key'[m] = key[m] /\ H2[m] = H[m] /\ P2[m] = P[m]
      BY <1>3, <2>2, LinkItemFacts
    <3>2. prev[m] # None => prev[m] \in Linked
      BY <1>1, <2>2 DEF Linked
    <3>3. prev[m] # None => /\ H2[prev[m]] = H[prev[m]] /\ P2[prev[m]] = P[prev[m]]
                            /\ key'[prev[m]] = key[prev[m]]
      BY <1>3, <3>2, LinkItemFacts
    <3>4. Upto(P2, prev[m]) = Upto(P, prev[m])
      BY <3>3 DEF Upto
    <3>5. /\ H[m] \in Linked
          /\ prev[m] = None => H[m] = m
          /\ prev[m] # None => H[m] = H[prev[m]] /\ (key[m] = None <=> key[prev[m]] = None)
          /\ P[m] = Upto(P, prev[m]) \o ((Comma(prev[m]) \o Name(key[m])) \o W[m])
      BY <2>2 DEF Listed, Chained, Piece
    <3> QED BY <3>1, <3>3, <3>4, <3>5
  <2> QED BY <2>1, <2>2
<1>6. Enclosing(H2, P2, W)'
  <2> SUFFICES ASSUME NEW n \in Live
               PROVE  /\ child[n] = None => W[n] = Enclosed(kind[n], <<>>)
                      /\ child[n] # None =>
                           /\ key'[child[n]] = None <=> kind[n] # "object"
                           /\ \A m \in Linked \cup {ret} : next'[m] = None /\ H2[m] = child[n]
                                => W[n] = Enclosed(kind[n], P2[m])
    BY LinkItemFacts DEF Enclosing
  <2>1. /\ child[n] = None => W[n] = Enclosed(kind[n], <<>>)
        /\ child[n] # None =>
             /\ key[child[n]] = None <=> kind[n] # "object"
             /\ \A m \in Linked : next[m] = None /\ H[m] = child[n]
                  => W[n] = Enclosed(kind[n], P[m])
    BY DEF Listed, Enclosing
  <2>2. child[n] # None => child[n] \in Linked /\ key'[child[n]] = key[child[n]]
    BY <1>1, LinkItemFacts DEF Linked
  <2>3. child[n] # head
    BY <1>1, LinkItemFacts, <1>4
  <2>4. ASSUME NEW m \in Linked, next'[m] = None PROVE next[m] = None
    BY <1>1, <2>4, LinkItemFacts
  <2> QED BY <1>3, <2>1, <2>2, <2>3, <2>4
<1>7. Ending(H2)'
  <2> SUFFICES ASSUME NEW i \in DOMAIN stack', stack'[i].head # None
               PROVE  /\ H2[stack'[i].tail] = stack'[i].head
                      /\ \A m \in Linked \cup {ret} :
                           next'[m] = None /\ H2[m] = stack'[i].head => m = stack'[i].tail
    BY LinkItemFacts DEF Ending
  <2>1. CASE i = Len(stack)
    <3>1. stack'[i].tail = ret /\ stack'[i].head = head
      BY <1>4, <2>1, LinkItemFacts DEF FrameInv
    <3>2. ASSUME NEW m \in Linked, next'[m] = None, H2[m] = head PROVE FALSE
      <4>4. H[m] = head /\ H[m] \in Linked
        BY <1>3, <3>2 DEF Listed, Chained
      <4>1. H[m] = head /\ H[m] \in Linked /\ next[m] = None
        BY <1>1, <3>2, <4>4, LinkItemFacts
      <4>2. Top.tail # None /\ head = Top.head
        BY <4>1, LinkItemFacts
      <4>3. m = Top.tail
        BY <1>4, <4>1, <4>2, LinkItemFacts DEF Listed, Ending
      <4> QED BY <3>2, <4>2, <4>3, LinkItemFacts
    <3> QED BY <1>3, <3>1, <3>2
  <2>2. CASE i # Len(stack)
    <3>1. i \in DOMAIN stack /\ stack'[i] = stack[i] /\ stack[i].head # None
      BY <2>2, LinkItemFacts
    <3>2. stack[i].tail \in Linked /\ H[stack[i].tail] = stack[i].head
      BY <3>1, TailsAreLinked DEF Listed, Ending
    <3>3. ASSUME NEW m \in Linked, next'[m] = None, H2[m] = stack[i].head PROVE m = stack[i].tail
      <4>1. H[m] = stack[i].head /\ next[m] = None
        BY <1>1, <1>3, <3>3, LinkItemFacts
      <4> QED BY <3>1, <4>1 DEF Listed, Ending
    <3>4. head # stack[i].head
      <4>1. stack[i].head # ret /\ (Top.head # None => stack[i].head # Top.head)
        BY <2>2, <3>1, LinkItemFacts, TopHand DEF HandInv, HandsApart
      <4> QED BY <1>4, <4>1
    <3> QED BY <1>3, <3>1, <3>2, <3>3, <3>4
  <2> QED BY <2>1, <2>2
<1> QED BY <1>3, <1>5, <1>6, <1>7 DEF Listed, Appended

-----------------------------------------------------------------------------
(* Where the parser stands in the text. *)

\* What of the text belongs to a call under way: with the elements linked so far, and
\* with the beginning of the next.
Opened(P, f) == <<Opener(f.container)>> \o Upto(P, f.tail)
Begun(P, f) == Opened(P, f) \o (Comma(f.tail) \o Name(f.key))

\* A is the text in front of the element each call is at.
Nested(P, A) ==
  \A i \in DOMAIN stack :
    i # Len(stack) \/ pc \in {"value", "return"} => A[i] = A[i - 1] \o Begun(P, stack[i])

Reached(T, P, W, A) ==
  /\ A \in [Nat -> Texts] /\ A[0] = <<>>
  /\ Nested(P, A)
  /\ AfterBOM <= offset
  /\ pc = "value" => T[offset] = A[Len(stack)]
  /\ pc \in {"return", "accepted"} => T[offset] = A[Len(stack)] \o W[ret]
  /\ pc = "linked" => Top.tail # None /\ T[offset] = A[Len(stack) - 1] \o Opened(P, Top)
  /\ pc = "loop" => /\ offset < Len(input)
                    /\ T[offset + 1] = A[Len(stack) - 1] \o (Opened(P, Top) \o Comma(Top.tail))

Spelt(T, H, P, W, A) == Reading(T) /\ Listed(H, P, W) /\ Reached(T, P, W, A)

\* While nothing has gone wrong, the nodes and the calls spell what has been read.
SpellInv ==
  pc \in {"value", "loop", "linked", "return", "accepted"} => \E T, H, P, W, A :
    Spelt(T, H, P, W, A)

AllInv == OwnInv /\ BoundsInv /\ HandInv /\ NodesInv

LEMMA ReadingStays ==
  ASSUME NEW T, Reading(T), input' = input
  PROVE  Reading(T)' /\ AfterBOM' = AfterBOM
BY DEF Reading, AfterBOM, Reads

LEMMA FrameTexts ==
  ASSUME NEW P \in [NodeIds -> Texts], NEW f \in Frames
  PROVE  /\ Opened(P, f) \in Texts /\ Begun(P, f) \in Texts /\ <<Opener(f.container)>> \in Texts
         /\ Comma(f.tail) \in Texts /\ Name(f.key) \in Texts /\ Upto(P, f.tail) \in Texts
<1>1. /\ Comma(f.tail) \in Texts /\ Name(f.key) \in Texts /\ Upto(P, f.tail) \in Texts
  BY PartsAreTexts DEF Frames
<1>2. <<Opener(f.container)>> \in Texts
  BY TokensAre, TextAlgebra DEF Opener
<1> QED BY <1>1, <1>2, TextAlgebra DEF Opened, Begun

\* P may change where no call looks.
LEMMA FramesStay ==
  ASSUME NEW P, NEW P2, HandInv, \A n \in Linked : P2[n] = P[n], NEW i \in DOMAIN stack
  PROVE  Opened(P2, stack[i]) = Opened(P, stack[i]) /\ Begun(P2, stack[i]) = Begun(P, stack[i])
<1>1. stack[i].tail # None => stack[i].tail \in Linked
  BY TailsAreLinked DEF HandInv, FrameInv
<1>2. Upto(P2, stack[i].tail) = Upto(P, stack[i].tail)
  BY <1>1 DEF Upto
<1> QED BY <1>2 DEF Opened, Begun

LEMMA BeginSpelt ==
  ASSUME AllInv, Begin
  PROVE  SpellInv'
<1> SUFFICES ASSUME pc' = "value" PROVE \E T, H, P, W, A : Spelt(T, H, P, W, A)'
  BY DEF SpellInv, Begin
<1>1. /\ input \in Seq(Tokens) /\ stack = <<>> /\ ret = None
      /\ UNCHANGED <<vars, input, stack, ret, kind>> /\ offset' \in AfterBlanks(AfterBOM)
  BY DEF AllInv, OwnInv, PlaceInv, Begin
<1>2. DOMAIN stack = {} /\ Len(stack) = 0
  BY <1>1
<1>3. Live = {}
  <2>1. Hands = {}
    BY <1>1, <1>2, HandsAre
  <2> QED BY <2>1 DEF AllInv, HandInv, Grown
<1>4. PICK T : Reading(T)
  BY <1>1, ReadingExists
<1>5. PICK H : H = [n \in NodeIds |-> n]
  OBVIOUS
<1>6. PICK P : P = [n \in NodeIds |-> <<>>]
  OBVIOUS
<1>7. PICK A : A = [n \in Nat |-> <<>>]
  OBVIOUS
<1>8. Listed(H, P, P)
  <2>1. H \in [NodeIds -> NodeIds] /\ P \in [NodeIds -> Texts]
    BY <1>5, <1>6, TextAlgebra
  <2>2. Chained(H, P, P) /\ Enclosing(H, P, P) /\ Ending(H)
    BY <1>2, <1>3 DEF Chained, Enclosing, Ending, Linked
  <2> QED BY <2>1, <2>2 DEF Listed
<1>9. Listed(H, P, P)'
  BY <1>1, <1>2, <1>8, IdleListed
<1>10. /\ T[offset'] = T[AfterBOM] /\ AfterBOM <= offset'
  BY <1>1, <1>4, StartFacts, BlanksAddNothing
<1>11. Reached(T, P, P, A)'
  <2>1. A \in [Nat -> Texts] /\ A[0] = <<>>
    BY <1>7, TextAlgebra
  <2>2. T[AfterBOM] = <<>>
    BY <1>4 DEF Reading
  <2>3. AfterBOM' = AfterBOM
    BY <1>1, <1>4, ReadingStays
  <2>4. Nested(P, A)'
    BY <1>1, <1>2 DEF Nested
  <2> QED BY <1>1, <1>2, <1>10, <2>1, <2>2, <2>3, <2>4 DEF Reached
<1> QED BY <1>1, <1>4, <1>9, <1>11, ReadingStays DEF Spelt

\* The step reads a value of kind k with the list that ends at t.
ReadsValue(T, P, A, t, k) ==
  /\ AfterBOM <= offset'
  /\ T[offset'] = A[Len(stack')] \o Enclosed(k, Upto(P, t))
  /\ \A i \in DOMAIN stack' : i \in DOMAIN stack /\ stack'[i] = stack[i]
                               /\ A[i] = A[i - 1] \o Begun(P, stack[i])

\* A call returns a new node.
LEMMA ReturnsSpelt ==
  ASSUME AllInv, NEW T, NEW H, NEW P, NEW W, NEW A, Spelt(T, H, P, W, A), ret = None,
         NEW c \in Live \cup {None}, NEW t \in Link, NEW k \in Contents, Returns(c, k),
         ListTo(H, c, t, k),
         ReadsValue(T, P, A, t, k)
  PROVE  SpellInv'
<1>1. /\ AfterBOM <= offset'
      /\ T[offset'] = A[Len(stack')] \o Enclosed(k, Upto(P, t))
      /\ \A i \in DOMAIN stack' : i \in DOMAIN stack /\ stack'[i] = stack[i]
                                   /\ A[i] = A[i - 1] \o Begun(P, stack[i])
  BY DEF ReadsValue
<1>2. PICK W2 : Listed(H, P, W2)' /\ W2[ret'] = Enclosed(k, Upto(P, t))
  <2>1. Listed(H, P, W) /\ OwnInv /\ BoundsInv /\ HandInv
    BY DEF AllInv, Spelt
  <2>2. \A i \in DOMAIN stack' : i \in DOMAIN stack /\ stack'[i] = stack[i]
    BY <1>1
  <2> QED BY <2>1, <2>2, ReturnsListed
<1>3. input' = input /\ pc' = "return"
  BY DEF Returns
<1>4. Nested(P, A)'
  BY <1>1 DEF Nested
<1>5. Reading(T)' /\ AfterBOM' = AfterBOM
  BY <1>3, ReadingStays DEF Spelt
<1>6. Reached(T, P, W2, A)'
  BY <1>1, <1>2, <1>3, <1>4, <1>5 DEF Reached, Spelt
<1> QED BY <1>2, <1>5, <1>6 DEF SpellInv, Spelt

\* Where the parser is in the text.
LEMMA PlaceFacts ==
  ASSUME AllInv, NEW T, Reading(T), AfterBOM <= offset
  PROVE  /\ input \in Seq(Tokens) /\ offset \in Nat /\ offset <= Len(input) /\ Len(input) \in Nat
         /\ AfterBOM \in Nat /\ T[offset] \in Texts
         /\ stack \in Seq(Frames) /\ Len(stack) \in Nat /\ DOMAIN stack = 1 .. Len(stack)
         /\ \A i \in DOMAIN stack : stack[i] \in Frames
<1>1. input \in Seq(Tokens) /\ offset \in 0 .. Len(input) /\ stack \in Seq(Frames)
  BY DEF AllInv, OwnInv
<1>2. /\ Len(stack) \in Nat /\ DOMAIN stack = 1 .. Len(stack)
      /\ \A i \in DOMAIN stack : stack[i] \in Frames
  BY <1>1
<1>3. offset \in Nat /\ offset <= Len(input) /\ Len(input) \in Nat /\ AfterBOM \in Nat
  BY <1>1, StartFacts
<1> QED BY <1>1, <1>2, <1>3 DEF Reading

LEMMA ParseScalarSpelt ==
  ASSUME AllInv, SpellInv, ParseScalar
  PROVE  SpellInv'
<1>1. /\ pc = "value" /\ ret = None /\ Returns(None, input[offset + 1]) /\ stack' = stack
      /\ offset' = offset + 1 /\ (ReadsScalar(offset) \/ ReadsString(offset))
  BY DEF ParseScalar, AllInv, OwnInv, PlaceInv
<1>2. PICK T, H, P, W, A : Spelt(T, H, P, W, A)
  BY <1>1 DEF SpellInv
<1>3. Reading(T) /\ Reached(T, P, W, A) /\ AfterBOM <= offset
  BY <1>2 DEF Spelt, Reached
<1> DEFINE t == input[offset + 1]
<1>4. /\ offset < Len(input) /\ t \in Keys \cup Scalars
  BY <1>1 DEF ReadsScalar, ReadsString
<1>5. t \in Contents \ Containers /\ t \notin {Blank, Nul}
  BY <1>4, KeysAssumption, PrintedTokens DEF Contents, Containers, Scalars, Scalar, Huge
<1>6. T[offset + 1] = T[offset] \o <<t>>
  BY <1>3, <1>4, <1>5, PlaceFacts, TokenAddsItself
<1>7. Enclosed(t, Upto(P, None)) = <<t>>
  BY <1>5 DEF Enclosed
<1>8. T[offset'] = A[Len(stack')] \o Enclosed(t, Upto(P, None))
  BY <1>1, <1>3, <1>6, <1>7 DEF Reached
<1>9. \A i \in DOMAIN stack' : i \in DOMAIN stack /\ stack'[i] = stack[i]
                                 /\ A[i] = A[i - 1] \o Begun(P, stack[i])
  BY <1>1, <1>3 DEF Reached, Nested
<1>10. AfterBOM <= offset'
  BY <1>1, <1>3, PlaceFacts
<1>11. ListTo(H, None, None, t) /\ None \in Link
  BY DEF ListTo, Link
<1>12. ReadsValue(T, P, A, None, t)
  BY <1>8, <1>9, <1>10 DEF ReadsValue
<1> HIDE DEF t
<1>13. Returns(None, t) /\ t \in Contents
  BY <1>1, <1>5 DEF t
<1> QED BY <1>1, <1>2, <1>11, <1>12, <1>13, ReturnsSpelt

LEMMA ParseEmptySpelt ==
  ASSUME AllInv, SpellInv, NEW container \in Containers, ParseEmpty(container)
  PROVE  SpellInv'
<1>1. /\ pc = "value" /\ ret = None /\ Returns(None, container) /\ stack' = stack
  BY OpensAtAValue DEF ParseEmpty, AllInv, OwnInv, PlaceInv
<1>2. PICK T, H, P, W, A : Spelt(T, H, P, W, A)
  BY <1>1 DEF SpellInv
<1>3. Reading(T) /\ Reached(T, P, W, A) /\ AfterBOM <= offset
  BY <1>2 DEF Spelt, Reached
<1>4. PICK e \in AfterBlanks(offset + 1) : Reads(e, Closing(container)) /\ offset' = e + 1
  BY DEF ParseEmpty
<1>5. Reads(offset, Opener(container))
  BY DEF ParseEmpty, Opens, Opener
<1>6. /\ offset < Len(input) /\ T[offset + 1] = T[offset] \o <<Opener(container)>>
  BY <1>3, <1>5, PlaceFacts, PrintedTokens, TokenAddsItself DEF Reads, Opener
<1>7. e \in Nat /\ offset + 1 <= e /\ T[e] = T[offset + 1]
  BY <1>3, <1>4, PlaceFacts, BlanksAddNothing
<1>8. T[e + 1] = T[e] \o <<Closing(container)>>
  <2>1. e < Len(input) /\ input[e + 1] = Closing(container)
    BY <1>4 DEF Reads
  <2>2. Closing(container) \notin {Blank, Nul}
    BY PrintedTokens DEF Closing
  <2>3. AfterBOM <= e /\ input \in Seq(Tokens)
    BY <1>3, <1>7, PlaceFacts
  <2> QED BY <1>3, <1>7, <2>1, <2>2, <2>3, TokenAddsItself
<1>9. <<Opener(container)>> \in Texts /\ <<Closing(container)>> \in Texts
  BY TokensAre, TextAlgebra DEF Opener, Closing
<1>10. Enclosed(container, Upto(P, None)) = <<Opener(container)>> \o <<Closing(container)>>
  <2>1. Enclosed(container, Upto(P, None))
          = (<<Opener(container)>> \o <<>>) \o <<Closing(container)>>
    BY DEF Enclosed, Upto
  <2> QED BY <1>9, <2>1, TextAlgebra
<1>11. T[offset'] = A[Len(stack')] \o Enclosed(container, Upto(P, None))
  <2>1. T[offset] = A[Len(stack)] /\ A[Len(stack)] \in Texts
    BY <1>1, <1>3, PlaceFacts DEF Reached
  <2>2. T[e + 1] = (A[Len(stack)] \o <<Opener(container)>>) \o <<Closing(container)>>
    BY <1>6, <1>7, <1>8, <2>1
  <2>3. T[e + 1] = A[Len(stack)] \o (<<Opener(container)>> \o <<Closing(container)>>)
    BY <1>9, <2>1, <2>2, TextAlgebra
  <2> QED BY <1>1, <1>4, <1>10, <2>3
<1>12. \A i \in DOMAIN stack' : i \in DOMAIN stack /\ stack'[i] = stack[i]
                                 /\ A[i] = A[i - 1] \o Begun(P, stack[i])
  BY <1>1, <1>3 DEF Reached, Nested
<1>13. AfterBOM <= offset'
  BY <1>3, <1>4, <1>7, PlaceFacts
<1>14. container \in Contents /\ None \in Link
  BY DEF Contents, Link
<1>15. ListTo(H, None, None, container)
  BY DEF ListTo
<1>16. ReadsValue(T, P, A, None, container)
  BY <1>11, <1>12, <1>13 DEF ReadsValue
<1> QED BY <1>1, <1>2, <1>14, <1>15, <1>16, ReturnsSpelt

\* No node changes.
LEMMA IdleSpelt ==
  ASSUME NEW T, NEW H, NEW P, NEW W, NEW A, Spelt(T, H, P, W, A),
         UNCHANGED <<vars, kind, ret, input>>,
         \A i \in DOMAIN stack' :
           \/ stack'[i].head = None
           \/ i \in DOMAIN stack /\ stack'[i].head = stack[i].head
             /\ stack'[i].tail = stack[i].tail,
         Reached(T, P, W, A)' 
  PROVE  Spelt(T, H, P, W, A)'
BY IdleListed, ReadingStays DEF Spelt

\* The call on top goes on to its next element.
LEMMA AdvanceSpelt ==
  ASSUME AllInv, NEW T, NEW H, NEW P, NEW W, NEW A, Spelt(T, H, P, W, A), pc = "loop",
         pc' = "value", UNCHANGED <<vars, kind, ret, input>>,
         NEW f \in Frames, f.container = Top.container, f.head = Top.head, f.tail = Top.tail,
         stack' = SetTop(f),
         AfterBOM <= offset', T[offset'] = T[offset + 1] \o Name(f.key)
  PROVE  SpellInv'
<1> DEFINE l == Len(stack)
<1>1. Reading(T) /\ Reached(T, P, W, A) /\ AfterBOM <= offset /\ P \in [NodeIds -> Texts]
  BY DEF Spelt, Reached, Listed
<1>2. stack # <<>> /\ stack \in Seq(Frames)
  BY DEF AllInv, OwnInv, PlaceInv
<1>3. /\ l \in Nat \ {0} /\ l \in DOMAIN stack /\ Top = stack[l] /\ Top \in Frames
      /\ DOMAIN stack' = DOMAIN stack /\ stack'[l] = f /\ Len(stack') = l
      /\ \A i \in DOMAIN stack : i # l => stack'[i] = stack[i]
      /\ DOMAIN stack = 1 .. l
  BY <1>2, TopFacts, SetTopFacts
<1>4. PICK A2 : A2 = [A EXCEPT ![l] = T[offset']]
  OBVIOUS
<1>5. A \in [Nat -> Texts] /\ A[0] = <<>> /\ T[offset + 1] \in Texts
  <2>1. A \in [Nat -> Texts] /\ A[0] = <<>>
    BY <1>1 DEF Reached
  <2>2. offset + 1 \in Nat
    BY <1>1, PlaceFacts
  <2>3. T \in [Nat -> Texts]
    BY <1>1 DEF Reading
  <2> QED BY <2>1, <2>2, <2>3
<1>6. /\ Opened(P, Top) \in Texts /\ Comma(Top.tail) \in Texts /\ Name(f.key) \in Texts
      /\ A[l - 1] \in Texts
  <2>1. l - 1 \in Nat
    BY <1>3
  <2> QED BY <1>1, <1>3, <1>5, <2>1, FrameTexts
<1>7. T[offset'] \in Texts
  BY <1>5, <1>6, TextAlgebra
<1> HIDE DEF l
<1>8. A2 \in [Nat -> Texts] /\ A2[l] = T[offset'] /\ \A i \in Nat : i # l => A2[i] = A[i]
  BY <1>3, <1>4, <1>5, <1>7, EditedFunction
<1>9. T[offset'] = A[l - 1] \o Begun(P, f)
  <2>1. T[offset + 1] = A[l - 1] \o (Opened(P, Top) \o Comma(Top.tail))
    BY <1>1 DEF Reached, l
  <2>2. Begun(P, f) = Opened(P, Top) \o (Comma(Top.tail) \o Name(f.key))
    BY DEF Begun, Opened
  <2>3. (A[l - 1] \o (Opened(P, Top) \o Comma(Top.tail))) \o Name(f.key)
          = A[l - 1] \o (Opened(P, Top) \o (Comma(Top.tail) \o Name(f.key)))
    <3> DEFINE a == A[l - 1]
               o == Opened(P, Top)
               c == Comma(Top.tail)
               n == Name(f.key)
    <3>1. a \in Texts /\ o \in Texts /\ c \in Texts /\ n \in Texts
      BY <1>6
    <3> HIDE DEF a, o, c, n
    <3>2. (a \o (o \o c)) \o n = a \o (o \o (c \o n))
      <4>1. o \o c \in Texts /\ (o \o c) \o n = o \o (c \o n)
        BY <3>1, TextAlgebra
      <4>2. (a \o (o \o c)) \o n = a \o ((o \o c) \o n)
        BY <3>1, <4>1, TextAlgebra
      <4> QED BY <4>1, <4>2
    <3> QED BY <3>2 DEF a, o, c, n
  <2> QED BY <2>1, <2>2, <2>3
<1>10. Nested(P, A2)'
  <2> SUFFICES ASSUME NEW i \in DOMAIN stack PROVE A2[i] = A2[i - 1] \o Begun(P, stack'[i])
    BY <1>3 DEF Nested
  <2>1. i \in Nat /\ i - 1 \in Nat /\ i - 1 # l /\ (i = l => i - 1 = l - 1)
    BY <1>3
  <2>2. CASE i = l
    BY <1>3, <1>8, <1>9, <2>1, <2>2
  <2>3. CASE i # l
    <3>1. A[i] = A[i - 1] \o Begun(P, stack[i])
      BY <1>1, <2>3 DEF Reached, Nested, l
    <3> QED BY <1>3, <1>8, <2>1, <2>3, <3>1
  <2> QED BY <2>2, <2>3
<1>11. Reached(T, P, W, A2)'
  <2>1. A2[0] = <<>> /\ AfterBOM' = AfterBOM
    BY <1>1, <1>3, <1>5, <1>8, ReadingStays
  <2> QED BY <1>3, <1>8, <1>10, <2>1 DEF Reached
<1>12. Listed(H, P, W)'
  <2>1. \A i \in DOMAIN stack' : i \in DOMAIN stack /\ stack'[i].head = stack[i].head
          /\ stack'[i].tail = stack[i].tail
    BY <1>3
  <2> QED BY <2>1, IdleListed DEF Spelt
<1> QED BY <1>1, <1>11, <1>12, ReadingStays DEF SpellInv, Spelt

LEMMA EnterSpelt ==
  ASSUME AllInv, SpellInv, NEW container \in Containers, Enter(container)
  PROVE  SpellInv'
<1> DEFINE fresh == Frame(container)
           l == Len(stack)
<1>1. /\ pc = "value" /\ pc' = "loop" /\ stack' = Append(stack, fresh)
      /\ UNCHANGED <<vars, kind, ret, input>>
  BY OpensAtAValue DEF Enter
<1>2. PICK T, H, P, W, A : Spelt(T, H, P, W, A)
  BY <1>1 DEF SpellInv
<1>3. Reading(T) /\ Reached(T, P, W, A) /\ AfterBOM <= offset /\ P \in [NodeIds -> Texts]
  BY <1>2 DEF Spelt, Reached, Listed
<1>4. PICK e \in AfterBlanks(offset + 1) : e < Len(input) /\ offset' = e - 1
  BY DEF Enter
<1>5. Reads(offset, Opener(container))
  BY DEF Enter, Opens, Opener
<1>6. /\ offset < Len(input) /\ T[offset + 1] = T[offset] \o <<Opener(container)>>
  BY <1>3, <1>5, PlaceFacts, PrintedTokens, TokenAddsItself DEF Reads, Opener
<1>7. e \in Nat /\ offset + 1 <= e /\ T[e] = T[offset + 1]
  BY <1>3, <1>4, PlaceFacts, BlanksAddNothing
<1>8. /\ fresh \in Frames /\ fresh.head = None /\ fresh.tail = None /\ fresh.container = container
  BY DEF Frame, Frames, Link, Containers
<1>9. stack \in Seq(Frames)
  BY DEF AllInv, OwnInv
<1> HIDE DEF fresh
<1>10. /\ l \in Nat /\ DOMAIN stack' = DOMAIN stack \cup {l + 1} /\ Len(stack') = l + 1
       /\ stack'[l + 1] = fresh /\ \A i \in DOMAIN stack : stack'[i] = stack[i]
       /\ Top' = fresh
  <2>1. /\ l \in Nat /\ DOMAIN stack' = DOMAIN stack \cup {l + 1} /\ Len(stack') = l + 1
        /\ stack'[l + 1] = fresh /\ \A i \in DOMAIN stack : stack'[i] = stack[i]
    BY <1>1, <1>8, <1>9, PushFacts
  <2> QED BY <2>1 DEF Top
<1> HIDE DEF l
<1>11. Nested(P, A)'
  <2> SUFFICES ASSUME NEW i \in DOMAIN stack PROVE A[i] = A[i - 1] \o Begun(P, stack[i])
    BY <1>1, <1>10 DEF Nested
  <2> QED BY <1>1, <1>3 DEF Reached, Nested
<1>12. T[offset' + 1] = A[l] \o (Opened(P, fresh) \o Comma(fresh.tail))
  <2>1. Opened(P, fresh) = <<Opener(container)>> \o <<>> /\ Comma(fresh.tail) = <<>>
    BY <1>8 DEF Opened, Comma, Upto
  <2>2. <<Opener(container)>> \in Texts
    BY TokensAre, TextAlgebra DEF Opener
  <2>3. Opened(P, fresh) \o Comma(fresh.tail) = <<Opener(container)>>
    BY <2>1, <2>2, TextAlgebra
  <2>4. T[offset] = A[l]
    BY <1>1, <1>3 DEF Reached, l
  <2>5. offset' + 1 = e
    BY <1>4, <1>7
  <2> QED BY <1>6, <1>7, <2>3, <2>4, <2>5
<1>13. Reached(T, P, W, A)'
  <2>1. AfterBOM' = AfterBOM /\ AfterBOM <= offset' /\ offset' < Len(input)
    BY <1>1, <1>3, <1>4, <1>7, ReadingStays, PlaceFacts
  <2>2. Len(stack') - 1 = l
    BY <1>10
  <2> QED BY <1>1, <1>3, <1>10, <1>11, <1>12, <2>1, <2>2 DEF Reached
<1>14. Spelt(T, H, P, W, A)'
  <2>1. \A i \in DOMAIN stack' :
          \/ stack'[i].head = None
          \/ i \in DOMAIN stack /\ stack'[i].head = stack[i].head
               /\ stack'[i].tail = stack[i].tail
    BY <1>8, <1>10
  <2> QED BY <1>1, <1>2, <1>13, <2>1, IdleSpelt
<1> QED BY <1>14 DEF SpellInv

LEMMA NextElementSpelt ==
  ASSUME AllInv, SpellInv, NextElement
  PROVE  SpellInv'
<1>1. /\ pc = "loop" /\ pc' = "value" /\ UNCHANGED <<vars, kind, ret, input, stack>>
      /\ offset' \in AfterBlanks(offset + 1) /\ Top.container = "array"
  BY DEF NextElement
<1>2. PICK T, H, P, W, A : Spelt(T, H, P, W, A)
  BY <1>1 DEF SpellInv
<1>3. Reading(T) /\ AfterBOM <= offset
  BY <1>2 DEF Spelt, Reached
<1>4. AfterBOM <= offset' /\ T[offset'] = T[offset + 1]
  BY <1>1, <1>3, PlaceFacts, BlanksAddNothing
<1>5. stack # <<>> /\ stack \in Seq(Frames)
  BY <1>1 DEF AllInv, OwnInv, PlaceInv
<1>6. Top \in Frames /\ Top.key = None
  <2>1. Top \in Frames /\ KeyedFrame(Top)
    BY <1>5, TopFacts DEF AllInv, NodesInv
  <2> QED BY <1>1, <2>1 DEF KeyedFrame
<1>7. stack' = SetTop(Top)
  <2>1. Len(stack) \in DOMAIN stack /\ Top = stack[Len(stack)]
    BY <1>5, TopFacts
  <2> QED BY <1>1, <1>5, <2>1 DEF SetTop
<1>8. T[offset'] = T[offset + 1] \o Name(Top.key)
  <2>1. T[offset + 1] \in Texts
    <3>1. offset + 1 \in Nat
      BY <1>3, PlaceFacts
    <3>2. T \in [Nat -> Texts]
      BY <1>3 DEF Reading
    <3> QED BY <3>1, <3>2
  <2> QED BY <1>4, <1>6, <2>1, TextAlgebra DEF Name
<1> QED BY <1>1, <1>2, <1>4, <1>6, <1>7, <1>8, AdvanceSpelt

LEMMA NextMemberSpelt ==
  ASSUME AllInv, SpellInv, NextMember
  PROVE  SpellInv'
<1>1. /\ pc = "loop" /\ pc' = "value" /\ UNCHANGED <<vars, kind, ret, input>>
  BY DEF NextMember
<1>2. PICK T, H, P, W, A : Spelt(T, H, P, W, A)
  BY <1>1 DEF SpellInv
<1>3. Reading(T) /\ AfterBOM <= offset
  BY <1>2 DEF Spelt, Reached
<1>4. PICK name \in AfterBlanks(offset + 1) :
        /\ ReadsString(name)
        /\ \E colon \in AfterBlanks(name + 1) :
             Reads(colon, ":") /\ offset' \in AfterBlanks(colon + 1)
        /\ stack' = SetTop([Top EXCEPT !.key = input[name + 1]])
  BY DEF NextMember
<1>5. PICK colon \in AfterBlanks(name + 1) :
        Reads(colon, ":") /\ offset' \in AfterBlanks(colon + 1)
  BY <1>4
<1> DEFINE k == input[name + 1]
           f == [Top EXCEPT !.key = k]
<1>6. name \in Nat /\ offset + 1 <= name /\ T[name] = T[offset + 1] /\ T[name] \in Texts
  <2>1. name \in Nat /\ offset + 1 <= name /\ T[name] = T[offset + 1]
    BY <1>3, PlaceFacts, BlanksAddNothing
  <2> QED BY <1>3, <2>1 DEF Reading
<1>7. k \in Keys /\ T[name + 1] = T[name] \o <<k>>
  <2>1. name < Len(input) /\ k \in Keys
    BY <1>4 DEF ReadsString
  <2>2. AfterBOM <= name
    BY <1>3, <1>6, PlaceFacts
  <2>3. k \notin {Blank, Nul}
    <3> HIDE DEF k
    <3> QED BY <2>1, PrintedTokens
  <2>4. input \in Seq(Tokens)
    BY <1>3, PlaceFacts
  <2> QED BY <1>3, <1>6, <2>1, <2>2, <2>3, <2>4, TokenAddsItself
<1>8. colon \in Nat /\ name + 1 <= colon /\ T[colon] = T[name + 1]
  BY <1>3, <1>6, PlaceFacts, BlanksAddNothing
<1>9. T[colon + 1] = T[colon] \o <<":">>
  <2>1. colon < Len(input) /\ input[colon + 1] = ":" /\ AfterBOM <= colon
    BY <1>3, <1>5, <1>6, <1>8, PlaceFacts DEF Reads
  <2> QED BY <1>3, <1>8, <2>1, PlaceFacts, PrintedTokens, TokenAddsItself
<1>10. AfterBOM <= offset' /\ T[offset'] = T[colon + 1]
  BY <1>3, <1>5, <1>6, <1>8, PlaceFacts, BlanksAddNothing
<1>11. stack # <<>> /\ stack \in Seq(Frames)
  BY <1>1 DEF AllInv, OwnInv, PlaceInv
<1>12. /\ f \in Frames /\ f.container = Top.container /\ f.head = Top.head /\ f.tail = Top.tail
       /\ f.key = k /\ stack' = SetTop(f)
  BY <1>4, <1>7, <1>11, TopFacts DEF Frames
<1>13. T[offset'] = T[offset + 1] \o Name(k)
  <2>1. <<k>> \in Texts /\ <<":">> \in Texts
    BY <1>7, TokensAre, TextAlgebra
  <2>2. Name(k) = <<k>> \o <<":">>
    <3>1. k # None
      BY <1>7, NoneIsNoNode
    <3> HIDE DEF k
    <3> QED BY <3>1 DEF Name
  <2>3. (T[name] \o <<k>>) \o <<":">> = T[name] \o (<<k>> \o <<":">>)
    BY <1>6, <2>1, TextAlgebra
  <2> QED BY <1>6, <1>7, <1>8, <1>9, <1>10, <2>2, <2>3
<1> HIDE DEF f, k
<1> QED BY <1>1, <1>2, <1>10, <1>12, <1>13, AdvanceSpelt

LEMMA ContinueLoopSpelt ==
  ASSUME AllInv, SpellInv, ContinueLoop
  PROVE  SpellInv'
<1>1. /\ pc = "linked" /\ pc' = "loop" /\ UNCHANGED <<vars, kind, ret, input, stack, offset>>
      /\ Reads(offset, ",")
  BY DEF ContinueLoop
<1>2. PICK T, H, P, W, A : Spelt(T, H, P, W, A)
  BY <1>1 DEF SpellInv
<1>3. Reading(T) /\ Reached(T, P, W, A) /\ AfterBOM <= offset /\ P \in [NodeIds -> Texts]
  BY <1>2 DEF Spelt, Reached, Listed
<1>4. offset < Len(input) /\ T[offset + 1] = T[offset] \o <<",">>
  BY <1>1, <1>3, PlaceFacts, PrintedTokens, TokenAddsItself DEF Reads
<1>5. stack # <<>> /\ Top \in Frames /\ Len(stack) - 1 \in Nat
  <2>1. stack # <<>> /\ stack \in Seq(Frames)
    BY <1>1 DEF AllInv, OwnInv, PlaceInv
  <2>2. Top \in Frames /\ Len(stack) \in DOMAIN stack
    BY <2>1, TopFacts
  <2>3. Len(stack) - 1 \in Nat
    BY <1>3, <2>2, PlaceFacts
  <2> QED BY <2>1, <2>2, <2>3
<1>6. T[offset] = A[Len(stack) - 1] \o Opened(P, Top) /\ Comma(Top.tail) = <<",">>
  BY <1>1, <1>3 DEF Reached, Comma
<1>7. T[offset + 1] = A[Len(stack) - 1] \o (Opened(P, Top) \o Comma(Top.tail))
  <2> DEFINE a == A[Len(stack) - 1]
             o == Opened(P, Top)
             c == Comma(Top.tail)
  <2>1. a \in Texts /\ o \in Texts /\ c \in Texts
    BY <1>3, <1>5, FrameTexts DEF Reached
  <2>2. T[offset + 1] = (a \o o) \o c
    BY <1>4, <1>6
  <2> HIDE DEF a, o, c
  <2>3. (a \o o) \o c = a \o (o \o c)
    BY <2>1, TextAlgebra
  <2> QED BY <2>2, <2>3 DEF a, o, c
<1>8. Reached(T, P, W, A)'
  <2>1. Top' = Top
    BY <1>1 DEF Top
  <2>2. Nested(P, A)'
    BY <1>1, <1>3 DEF Reached, Nested
  <2>3. AfterBOM' = AfterBOM
    BY <1>1, <1>3, ReadingStays
  <2> QED BY <1>1, <1>3, <1>4, <1>7, <2>1, <2>2, <2>3 DEF Reached
<1>9. Spelt(T, H, P, W, A)'
  BY <1>1, <1>2, <1>8, IdleSpelt
<1> QED BY <1>9 DEF SpellInv

LEMMA AcceptSpelt ==
  ASSUME AllInv, SpellInv, Accept
  PROVE  SpellInv'
<1>1. /\ pc = "return" /\ pc' = "accepted" /\ stack = <<>>
      /\ UNCHANGED <<vars, kind, ret, input, stack>>
      /\ offset' = offset \/ offset' \in AfterBlanks(offset)
  BY DEF Accept
<1>2. PICK T, H, P, W, A : Spelt(T, H, P, W, A)
  BY <1>1 DEF SpellInv
<1>3. Reading(T) /\ Reached(T, P, W, A) /\ AfterBOM <= offset
  BY <1>2 DEF Spelt, Reached
<1>4. T[offset'] = T[offset] /\ AfterBOM <= offset'
  BY <1>1, <1>3, PlaceFacts, BlanksAddNothing
<1>5. Reached(T, P, W, A)'
  <2>1. Nested(P, A)'
    BY <1>1 DEF Nested
  <2>2. AfterBOM' = AfterBOM
    BY <1>1, <1>3, ReadingStays
  <2> QED BY <1>1, <1>3, <1>4, <2>1, <2>2 DEF Reached
<1>6. Spelt(T, H, P, W, A)'
  BY <1>1, <1>2, <1>5, IdleSpelt
<1> QED BY <1>6 DEF SpellInv

\* The list of the call on top is one that its container may have.
LEMMA TopListed ==
  ASSUME AllInv, NEW H, NEW P, NEW W, Listed(H, P, W), pc = "linked", Top.tail # None
  PROVE  /\ stack # <<>> /\ Top \in Frames /\ Len(stack) \in DOMAIN stack
              /\ Top = stack[Len(stack)]
         /\ ListTo(H, Top.head, Top.tail, Top.container) /\ Top.head \in Live /\ Top.tail \in Link
         /\ Top.container \in Contents /\ Top.container \in Containers
<1>1. stack # <<>> /\ stack \in Seq(Frames)
  BY DEF AllInv, OwnInv, PlaceInv
<1>2. /\ Top \in Frames /\ Len(stack) \in DOMAIN stack /\ Top = stack[Len(stack)]
      /\ FrameInv(Top) /\ KeyedFrame(Top)
  BY <1>1, TopFacts DEF AllInv, HandInv, NodesInv
<1>3. Top.head # None
  BY <1>2 DEF FrameInv
<1>4. Top.tail \in Linked /\ Top.head \in Live /\ H[Top.tail] = Top.head
  <2>1. Top.tail \in Linked
    BY <1>2, <1>3, TailsAreLinked DEF AllInv
  <2>2. H[Top.tail] = Top.head
    BY <1>2, <1>3 DEF Listed, Ending
  <2>3. H[Top.tail] \in Linked
    BY <2>1 DEF Listed, Chained
  <2> QED BY <2>1, <2>2, <2>3 DEF Linked
<1>5. Top.container \in Containers /\ Top.container \in Contents /\ Top.tail \in Link
  BY <1>2 DEF Frames, Contents, Containers
<1>6. key[Top.head] = None <=> Top.container # "object"
  BY <1>2, <1>3 DEF KeyedFrame
<1>7. \A m \in Linked : next[m] = None /\ H[m] = Top.head => m = Top.tail
  BY <1>2, <1>3 DEF Listed, Ending
<1>8. ListTo(H, Top.head, Top.tail, Top.container)
  BY <1>3, <1>6, <1>7 DEF ListTo
<1> QED BY <1>1, <1>2, <1>4, <1>5, <1>8

LEMMA CloseContainerSpelt ==
  ASSUME AllInv, SpellInv, CloseContainer
  PROVE  SpellInv'
<1>1. /\ pc = "linked" /\ Reads(offset, Closing(Top.container)) /\ stack' = Pop
      /\ offset' = offset + 1 /\ Returns(Top.head, Top.container)
  BY DEF CloseContainer
<1>2. PICK T, H, P, W, A : Spelt(T, H, P, W, A)
  BY <1>1 DEF SpellInv
<1>3. /\ Reading(T) /\ Reached(T, P, W, A) /\ AfterBOM <= offset /\ Listed(H, P, W)
      /\ P \in [NodeIds -> Texts] /\ Top.tail # None /\ ret = None
  BY <1>1, <1>2 DEF Spelt, Reached, Listed, AllInv, OwnInv, PlaceInv
<1>4. /\ stack # <<>> /\ Top \in Frames /\ Len(stack) \in DOMAIN stack /\ Top = stack[Len(stack)]
      /\ ListTo(H, Top.head, Top.tail, Top.container) /\ Top.head \in Live /\ Top.tail \in Link
      /\ Top.container \in Contents /\ Top.container \in Containers
  BY <1>1, <1>3, TopListed
<1> DEFINE cl == Closing(Top.container)
           a == A[Len(stack) - 1]
           o == Opened(P, Top)
<1>5. T[offset + 1] = T[offset] \o <<cl>>
  <2>1. offset < Len(input) /\ input[offset + 1] = cl
    BY <1>1 DEF Reads
  <2>2. cl \notin {Blank, Nul}
    BY PrintedTokens DEF Closing
  <2> HIDE DEF cl
  <2>3. offset \in Nat /\ input \in Seq(Tokens)
    BY <1>3, PlaceFacts
  <2> QED BY <1>3, <2>1, <2>2, <2>3, TokenAddsItself
<1>6. T[offset] = a \o o
  BY <1>1, <1>3 DEF Reached
<1>7. a \in Texts /\ o \in Texts /\ <<cl>> \in Texts
  <2>1. <<cl>> \in Texts
    BY TokensAre, TextAlgebra DEF Closing
  <2>2. o \in Texts
    BY <1>3, <1>4, FrameTexts
  <2>3. Len(stack) - 1 \in Nat
    BY <1>3, <1>4, PlaceFacts
  <2> QED BY <1>3, <2>1, <2>2, <2>3 DEF Reached
<1>8. Enclosed(Top.container, Upto(P, Top.tail)) = o \o <<cl>>
  BY <1>4 DEF Enclosed, Opened
<1>9. T[offset + 1] = a \o Enclosed(Top.container, Upto(P, Top.tail))
  <2> HIDE DEF a, o, cl
  <2>1. (a \o o) \o <<cl>> = a \o (o \o <<cl>>)
    BY <1>7, TextAlgebra
  <2> QED BY <1>5, <1>6, <1>8, <2>1
<1>10. /\ Len(stack') = Len(stack) - 1
       /\ \A i \in DOMAIN stack' : i \in DOMAIN stack /\ stack'[i] = stack[i] /\ i # Len(stack)
  <2>1. stack \in Seq(Frames)
    BY <1>3, PlaceFacts
  <2> QED BY <1>1, <1>4, <2>1, PopFacts
<1>11. ReadsValue(T, P, A, Top.tail, Top.container)
  <2>1. AfterBOM <= offset'
    BY <1>1, <1>3, PlaceFacts
  <2>2. \A i \in DOMAIN stack' : A[i] = A[i - 1] \o Begun(P, stack[i])
    BY <1>3, <1>10 DEF Reached, Nested
  <2> QED BY <1>1, <1>9, <1>10, <2>1, <2>2 DEF ReadsValue
<1> QED BY <1>1, <1>2, <1>3, <1>4, <1>11, ReturnsSpelt

LEMMA LinkItemSpelt ==
  ASSUME AllInv, SpellInv, LinkItem
  PROVE  SpellInv'
<1> DEFINE l == Len(stack)
<1>1. /\ pc = "return" /\ pc' = "linked" /\ stack # <<>> /\ UNCHANGED input
      /\ offset' \in AfterBlanks(offset)
  BY DEF LinkItem
<1>2. PICK T, H, P, W, A : Spelt(T, H, P, W, A)
  BY <1>1 DEF SpellInv
<1>3. /\ Reading(T) /\ Reached(T, P, W, A) /\ AfterBOM <= offset /\ Listed(H, P, W)
      /\ P \in [NodeIds -> Texts] /\ W \in [NodeIds -> Texts]
      /\ OwnInv /\ HandInv /\ NodesInv /\ BoundsInv
  BY <1>2 DEF Spelt, Reached, Listed, AllInv
<1>4. PICK H2, P2 : Relisted(H, P, W, H2, P2)
  BY DEF Relisted
<1>6. /\ Listed(H2, P2, W)' /\ \A n \in Linked : P2[n] = P[n]
      /\ P2[ret] = Upto(P, Top.tail) \o ((Comma(Top.tail) \o Name(Top.key)) \o W[ret])
  <2>1. Listed(H2, P2, W)' /\ Appended(P, W, P2)
    BY <1>3, <1>4, LinkListed
  <2> QED BY <2>1 DEF Appended
<1>7. /\ DOMAIN stack' = DOMAIN stack /\ Len(stack') = Len(stack) /\ Len(stack) \in DOMAIN stack
      /\ \A i \in DOMAIN stack : i # Len(stack) => stack'[i] = stack[i]
      /\ Top = stack[Len(stack)] /\ Top \in Frames
      /\ stack'[Len(stack)].tail = ret /\ stack'[Len(stack)].container = Top.container
      /\ ret # None /\ ret \in Live
  BY <1>3, LinkItemFacts, LinkFacts
<1>8. Len(stack) \in Nat /\ Len(stack) - 1 \in Nat /\ DOMAIN stack = 1 .. Len(stack)
      /\ offset \in Nat /\ offset' \in Nat /\ offset <= offset' /\ T[offset'] = T[offset]
      /\ AfterBOM \in Nat
  <2>1. input \in Seq(Tokens) /\ offset \in Nat /\ Len(stack) \in Nat
          /\ DOMAIN stack = 1 .. Len(stack)
        /\ AfterBOM \in Nat
    BY <1>3, PlaceFacts
  <2> QED BY <1>1, <1>3, <1>7, <2>1, BlanksAddNothing
<1>9. Top'.tail = ret /\ Top'.container = Top.container
  BY <1>7 DEF Top
<1>10. T[offset] = (A[Len(stack) - 1] \o Begun(P, Top)) \o W[ret]
  <2>1. T[offset] = A[Len(stack)] \o W[ret]
    BY <1>1, <1>3 DEF Reached
  <2>2. A[Len(stack)] = A[Len(stack) - 1] \o Begun(P, Top)
    BY <1>1, <1>3, <1>7 DEF Reached, Nested
  <2> QED BY <2>1, <2>2
<1>11. T[offset] = A[Len(stack) - 1] \o Opened(P2, Top')
  <2> DEFINE a == A[Len(stack) - 1]
             o == <<Opener(Top.container)>>
             w == W[ret]
             v == Upto(P, Top.tail)
             c == Comma(Top.tail)
             n == Name(Top.key)
  <2>1. /\ v \in Texts /\ c \in Texts /\ n \in Texts /\ o \in Texts
    BY <1>3, <1>7, FrameTexts
  <2>2. a \in Texts /\ w \in Texts
    <3>1. ret \in NodeIds
      BY <1>3, <1>7, LinkFacts
    <3> QED BY <1>3, <1>8, <3>1 DEF Reached
  <2>3. T[offset] = (a \o ((o \o v) \o (c \o n))) \o w
    BY <1>10 DEF Begun, Opened
  <2>4. Opened(P2, Top') = o \o (v \o ((c \o n) \o w))
    BY <1>6, <1>7, <1>9 DEF Opened, Upto
  <2> HIDE DEF a, o, w, v, c, n
  <2> DEFINE m == c \o n
  <2>5. m \in Texts
    BY <2>1, TextAlgebra
  <2>6. T[offset] = (a \o ((o \o v) \o m)) \o w
    BY <2>3
  <2> HIDE DEF m
  <2>7. (o \o v) \o m = o \o (v \o m) /\ v \o m \in Texts
    BY <2>1, <2>5, TextAlgebra
  <2>8. (a \o (o \o (v \o m))) \o w = a \o ((o \o (v \o m)) \o w)
    <3>1. o \o (v \o m) \in Texts
      BY <2>1, <2>7, TextAlgebra
    <3> QED BY <2>2, <3>1, TextAlgebra
  <2>9. (o \o (v \o m)) \o w = o \o ((v \o m) \o w)
    <3>1. o \in Texts /\ v \o m \in Texts /\ w \in Texts
      BY <2>1, <2>2, <2>7
    <3> QED BY ONLY <3>1, TextAlgebra
  <2>10. (v \o m) \o w = v \o (m \o w)
    <3>1. v \in Texts /\ m \in Texts /\ w \in Texts
      BY <2>1, <2>2, <2>5
    <3> QED BY ONLY <3>1, TextAlgebra
  <2>11. Opened(P2, Top') = o \o (v \o (m \o w))
    BY <2>4 DEF m
  <2> QED BY <2>6, <2>7, <2>8, <2>9, <2>10, <2>11 DEF a
<1>12. Nested(P2, A)'
  <2> SUFFICES ASSUME NEW i \in DOMAIN stack, i # Len(stack)
               PROVE  A[i] = A[i - 1] \o Begun(P2, stack[i])
    BY <1>1, <1>7 DEF Nested
  <2>1. Begun(P2, stack[i]) = Begun(P, stack[i])
    BY <1>3, <1>6, FramesStay
  <2> QED BY <1>1, <1>3, <2>1 DEF Reached, Nested
<1>13. Reading(T)' /\ AfterBOM' = AfterBOM
  BY <1>1, <1>3, ReadingStays
<1>14. Reached(T, P2, W, A)'
  <2>1. A \in [Nat -> Texts] /\ A[0] = <<>>
    BY <1>3 DEF Reached
  <2>2. AfterBOM <= offset'
    BY <1>3, <1>8
  <2>3. T[offset'] = A[Len(stack') - 1] \o Opened(P2, Top')
    BY <1>7, <1>8, <1>11
  <2> QED BY <1>1, <1>7, <1>9, <1>12, <1>13, <2>1, <2>2, <2>3 DEF Reached
<1> QED BY <1>6, <1>13, <1>14 DEF SpellInv, Spelt

LEMMA SpellInvInit == ParseInit => SpellInv
BY DEF ParseInit, SpellInv

LEMMA SpellInvStep ==
  ParserInv /\ NodesInv /\ SpellInv /\ [ParseNext]_pvars => SpellInv'
<1> SUFFICES ASSUME ParserInv, NodesInv, SpellInv, [ParseNext]_pvars PROVE SpellInv'
  OBVIOUS
<1>1. AllInv
  BY TextInvIsOwnInv DEF ParserInv, AllInv
<1>2. CASE UNCHANGED pvars
  <2> SUFFICES ASSUME pc' \in {"value", "loop", "linked", "return", "accepted"}
               PROVE  \E T, H, P, W, A : Spelt(T, H, P, W, A)'
    BY DEF SpellInv
  <2>1. PICK T, H, P, W, A : Spelt(T, H, P, W, A)
    BY <1>2 DEF SpellInv, pvars, parser
  <2>2. UNCHANGED <<vars, kind, ret, input, stack, offset, pc>>
    BY <1>2 DEF pvars, parser
  <2>3. Reached(T, P, W, A)'
    <3>1. Reading(T) /\ Reached(T, P, W, A)
      BY <2>1 DEF Spelt
    <3>2. AfterBOM' = AfterBOM /\ Top' = Top /\ Nested(P, A)'
      BY <2>2, <3>1, ReadingStays DEF Reached, Nested, Top
    <3> QED BY <2>2, <3>1, <3>2 DEF Reached
  <2>4. Spelt(T, H, P, W, A)'
    BY <2>1, <2>2, <2>3, IdleSpelt
  <2> QED BY <2>4
<1>3. ASSUME pc' \in {"start", "fail", "rejected"} PROVE SpellInv'
  BY <1>3 DEF SpellInv
<1>4. CASE ParseNothing \/ MalformedMember \/ ExpectedEnd \/ Reject \/ Abandon \/ RejectTrailing
  BY <1>3, <1>4
    DEF ParseNothing, MalformedMember, ExpectedEnd, Reject, Abandon, RejectTrailing, Fails
<1>5. ASSUME NEW container \in Containers,
             \/ TooDeep(container) \/ ParseEmpty(container)
             \/ ParseOpenEnded(container) \/ Enter(container)
      PROVE  SpellInv'
  <2>1. CASE TooDeep(container) \/ ParseOpenEnded(container)
    BY <1>3, <2>1 DEF TooDeep, ParseOpenEnded, Fails
  <2> QED BY <1>1, <1>5, <2>1, ParseEmptySpelt, EnterSpelt
<1> QED
  BY <1>1, <1>2, <1>4, <1>5, BeginSpelt, ParseScalarSpelt, NextElementSpelt, NextMemberSpelt,
     LinkItemSpelt, ContinueLoopSpelt, CloseContainerSpelt, AcceptSpelt DEF ParseNext, Containers

LEMMA SpellInvAlways == ParseSpec => [](ParserInv /\ NodesInv /\ SpellInv)
BY ParserInvInit, NodesInvInit, SpellInvInit, ParserInvStep, NodesInvStep, SpellInvStep, PTL
  DEF ParseSpec

-----------------------------------------------------------------------------
(* The text of a finished tree. *)

\* The list of a node, link by link.
LEMMA KidLinks ==
  ASSUME Finished, NEW p \in Live
  PROVE  /\ p \in NodeIds /\ ret \in Live
         /\ Len(Kids(p)) \in Nat /\ DOMAIN Kids(p) = 1 .. Len(Kids(p))
         /\ Len(Kids(p)) = 0 <=> child[p] = None
         /\ \A j \in 1 .. Len(Kids(p)) :
              /\ Kids(p)[j] \in Linked
              /\ j = 1 => prev[Kids(p)[j]] = None /\ Kids(p)[j] = child[p]
              /\ j > 1 => prev[Kids(p)[j]] = Kids(p)[j - 1] /\ Kids(p)[j - 1] # None
              /\ j = Len(Kids(p)) => next[Kids(p)[j]] = None
<1>1. TreeInv /\ OwnsList(p) /\ p \in NodeIds
  BY FinishedIsATree, InvFacts
<1>2. /\ HandInv /\ ret # None /\ ret \in Hands
  <2>1. OwnInv /\ HandInv /\ ret # None
    BY TextInvIsOwnInv DEF Finished, ParserInv, OwnInv, PlaceInv
  <2> QED BY <2>1, HandsAre
<1>3. /\ KidsOf[p] = Kids(p) /\ Kids(p) \in Seq(NodeIds) /\ Len(Kids(p)) \in Nat
      /\ DOMAIN Kids(p) = 1 .. Len(Kids(p))
      /\ \A i \in 1 .. Len(Kids(p)) : Kids(p)[i] \in Live
  BY <1>1, KidFacts
<1>4. Spells(next, child[p], KidsOf[p])
  <2>1. Spelled(Live, isRef, next, child, KidsOf)
    BY <1>1, InvFacts
  <2> QED BY <1>1, <2>1 DEF Spelled, OwnsList
<1>5. /\ Len(Kids(p)) = 0 <=> child[p] = None
      /\ \A j \in 1 .. Len(Kids(p)) : j = Len(Kids(p)) => next[Kids(p)[j]] = None
  <2>1. child[p] = None <=> Len(KidsOf[p]) = 0
    BY <1>4, SpellsNodes
  <2>2. \A j \in 1 .. Len(KidsOf[p]) : j = Len(KidsOf[p]) => next[KidsOf[p][j]] = None
    BY <1>4 DEF Spells
  <2> QED BY <1>3, <2>1, <2>2
<1>6. \A j \in 1 .. Len(Kids(p)) :
        /\ j = 1 => prev[Kids(p)[j]] = None /\ child[p] = Kids(p)[j]
        /\ j > 1 => /\ prev[Kids(p)[j]] = Kids(p)[j - 1] /\ next[Kids(p)[j - 1]] = Kids(p)[j]
                    /\ j - 1 \in 1 .. Len(Kids(p))
  <2>1. Sound(Live, isRef, next, prev, child) /\ Spelled(Live, isRef, next, child, KidsOf)
    BY <1>1, InvFacts
  <2>2. \A j \in 1 .. Len(KidsOf[p]) :
          /\ j = 1 => prev[KidsOf[p][j]] = None /\ child[p] = KidsOf[p][j]
          /\ j > 1 => /\ prev[KidsOf[p][j]] = KidsOf[p][j - 1]
                      /\ next[KidsOf[p][j - 1]] = KidsOf[p][j]
                      /\ j - 1 \in 1 .. Len(KidsOf[p])
    BY <1>1, <2>1, ListFacts
  <2> QED BY <1>3, <2>2
<1>7. /\ ret \in Live /\ None \notin Live /\ \A m \in Live : next[m] # ret /\ child[m] # ret
  BY <1>2, LinkFacts
<1>8. \A j \in 1 .. Len(Kids(p)) : Kids(p)[j] # ret
  BY <1>3, <1>6, <1>7
<1>9. \A j \in 1 .. Len(Kids(p)) : Kids(p)[j] \in Linked
  BY <1>3, <1>8 DEF Linked
<1> QED BY <1>1, <1>3, <1>5, <1>6, <1>7, <1>9

LEMMA NodeSpelt ==
  ASSUME Finished, NEW H, NEW P, NEW W, Listed(H, P, W), NEW n \in Live
  PROVE  W[n] = Spell(W, n)
<1> DEFINE s == Kids(n)
           l == Len(s)
<1>1. /\ n \in NodeIds /\ l \in Nat /\ DOMAIN s = 1 .. l
      /\ l = 0 <=> child[n] = None
      /\ \A j \in 1 .. l :
              /\ s[j] \in Linked
              /\ j = 1 => prev[s[j]] = None /\ s[j] = child[n]
              /\ j > 1 => prev[s[j]] = s[j - 1] /\ s[j - 1] # None
              /\ j = l => next[s[j]] = None
  BY KidLinks
<1>2. /\ H \in [NodeIds -> NodeIds] /\ P \in [NodeIds -> Texts] /\ W \in [NodeIds -> Texts]
      /\ Chained(H, P, W) /\ Enclosing(H, P, W) /\ Linked \subseteq NodeIds
  BY FinishedIsATree, InvFacts DEF Listed, Linked
<1> HIDE DEF s, l
<1> DEFINE k == kind[n]
           Right(j) == H[s[j]] = child[n] /\ (key[s[j]] = None <=> k # "object")
           Good == {j \in Nat : j \in 1 .. l => Right(j)}
<1>3. \A j \in 1 .. l : Right(j)
  <2>1. 0 \in Good
    OBVIOUS
  <2>2. ASSUME NEW j \in Nat, j \in Good PROVE j + 1 \in Good
    <3> SUFFICES ASSUME j + 1 \in 1 .. l PROVE Right(j + 1)
      OBVIOUS
    <3>1. CASE j = 0
      <4>1. s[1] = child[n] /\ s[1] \in Linked /\ prev[s[1]] = None /\ child[n] # None
        BY <1>1, <3>1
      <4>2. H[s[1]] = s[1] /\ (key[child[n]] = None <=> k # "object")
        BY <1>2, <4>1 DEF Chained, Enclosing
      <4> QED BY <3>1, <4>1, <4>2
    <3>2. CASE j # 0
      <4>1. /\ j \in 1 .. l /\ s[j + 1] \in Linked /\ prev[s[j + 1]] = s[j] /\ s[j] # None
        <5>1. j + 1 > 1 /\ (j + 1) - 1 = j /\ j \in 1 .. l
          <6>1. l \in Nat
            BY <1>1
          <6> QED BY <3>2, <6>1
        <5> QED BY <1>1, <5>1
      <4>2. H[s[j + 1]] = H[s[j]] /\ (key[s[j + 1]] = None <=> key[s[j]] = None)
        BY <1>2, <4>1 DEF Chained
      <4>3. Right(j)
        BY <2>2, <4>1
      <4> QED BY <4>2, <4>3
    <3> QED BY <3>1, <3>2
  <2>3. Nat \subseteq Good
    <3> HIDE DEF Good
    <3> QED BY <2>1, <2>2, SetInduction
  <2> QED BY <1>1, <2>3
<1> HIDE DEF Good
<1> DEFINE seqs == [i \in 1 .. l |-> Item(W, n, i)]
<1>4. PICK at : at = [j \in 0 .. l |-> IF j = 0 THEN <<>> ELSE P[s[j]]]
  OBVIOUS
<1>5. at \in [0 .. l -> Texts] /\ at[0] = <<>> /\ (l # 0 => at[l] = P[s[l]])
  <2>1. \A j \in 1 .. l : P[s[j]] \in Texts
    BY <1>1, <1>2
  <2> QED BY <1>1, <1>4, <2>1, TextAlgebra
<1>6. ASSUME NEW i \in 1 .. l
      PROVE  /\ Item(W, n, i) = Piece(W, s[i]) /\ Item(W, n, i) \in Texts
             /\ at[i] = at[i - 1] \o Item(W, n, i)
  <2>1. s[i] \in Linked /\ s[i] \in NodeIds /\ (key[s[i]] = None <=> k # "object")
    BY <1>1, <1>2, <1>3
  <2>2. i = 1 <=> prev[s[i]] = None
    BY <1>1
  <2>3. Item(W, n, i) = Piece(W, s[i])
    <3> DEFINE m == s[i]
               c == IF i = 1 THEN <<>> ELSE <<",">>
               q == IF kind[n] = "object" THEN <<key[m], ":">> ELSE <<>>
    <3>1. Item(W, n, i) = (c \o q) \o W[m]
      BY DEF Item, s
    <3>2. c = Comma(prev[m]) /\ q = Name(key[m])
      BY <2>1, <2>2 DEF Comma, Name
    <3> HIDE DEF c, q, m
    <3>3. Item(W, n, i) = Piece(W, m)
      BY <3>1, <3>2 DEF Piece
    <3> QED BY <3>3 DEF m
  <2>4. Piece(W, s[i]) \in Texts
    <3>1. key[s[i]] \in Keys \cup {None}
      BY <2>1, FinishedIsATree, InvFacts
    <3>2. Comma(prev[s[i]]) \in Texts /\ Name(key[s[i]]) \in Texts /\ W[s[i]] \in Texts
      BY <1>2, <2>1, <3>1, PartsAreTexts
    <3> QED BY <3>2, TextAlgebra DEF Piece
  <2>5. P[s[i]] = Upto(P, prev[s[i]]) \o Piece(W, s[i])
    BY <1>2, <2>1 DEF Chained
  <2>6. at[i - 1] = Upto(P, prev[s[i]])
    <3>1. CASE i = 1
      BY <1>5, <2>2, <3>1 DEF Upto
    <3>2. CASE i # 1
      <4>1. i - 1 \in 0 .. l /\ i - 1 # 0 /\ prev[s[i]] = s[i - 1]
        BY <1>1, <3>2
      <4>2. prev[s[i]] # None
        BY <2>2, <3>2
      <4> QED BY <1>4, <4>1, <4>2 DEF Upto
    <3> QED BY <3>1, <3>2
  <2>7. at[i] = P[s[i]]
    BY <1>1, <1>4
  <2> QED BY <2>3, <2>4, <2>5, <2>6, <2>7
<1>7. seqs \in Seq(Texts) /\ Len(seqs) = l /\ \A i \in 1 .. l : seqs[i] = Item(W, n, i)
  <2> QED BY <1>1, <1>6
<1> HIDE DEF seqs
<1>8. Joins(seqs, at)
  BY <1>5, <1>6, <1>7 DEF Joins
<1>9. FlattenSeq(seqs) = at[l]
  <2> QED BY <1>5, <1>7, <1>8, FlattenIsLast DEF Texts
<1>10. W[n] = Enclosed(k, at[l])
  <2>1. CASE l = 0
    BY <1>1, <1>2, <1>5, <2>1 DEF Enclosing
  <2>2. CASE l # 0
    <3>1. l \in 1 .. l /\ s[l] \in Linked /\ next[s[l]] = None /\ child[n] # None
      BY <1>1, <2>2
    <3>2. H[s[l]] = child[n]
      BY <1>3, <3>1
    <3>3. W[n] = Enclosed(k, P[s[l]])
      BY <1>2, <3>1, <3>2 DEF Enclosing
    <3> QED BY <1>5, <2>2, <3>3
  <2> QED BY <2>1, <2>2
<1>11. FlattenSeq([i \in 1 .. Len(Kids(n)) |-> Item(W, n, i)]) = at[l]
  BY <1>9 DEF seqs, s, l
<1>12. Spell(W, n) = CASE k = "array"  -> <<"[">> \o at[l] \o <<"]">>
                       [] k = "object" -> <<"{">> \o at[l] \o <<"}">>
                       [] OTHER -> <<k>>
  BY <1>11 DEF Spell
<1> HIDE DEF k
<1> QED BY <1>10, <1>12 DEF Enclosed, Opener, Closing, Containers

LEMMA SpellIsLocal ==
  ASSUME Finished, NEW n \in NodeIds, NEW g, NEW h,
         \A i \in 1 .. Len(Kids(n)) : g[Kids(n)[i]] = h[Kids(n)[i]]
  PROVE  Spell(g, n) = Spell(h, n)
<1>1. \A i \in 1 .. Len(Kids(n)) : Item(g, n, i) = Item(h, n, i)
  BY DEF Item
<1>2. [i \in 1 .. Len(Kids(n)) |-> Item(g, n, i)] = [i \in 1 .. Len(Kids(n)) |-> Item(h, n, i)]
  BY <1>1
<1> QED BY <1>2 DEF Spell

LEMMA SpellingIs ==
  ASSUME Finished, NEW H, NEW P, NEW W, Listed(H, P, W)
  PROVE  \A n \in Live : Spelling[n] = W[n]
<1>1. TreeInv /\ Live \subseteq NodeIds
  BY FinishedIsATree, InvFacts
<1>2. PICK V : V = [n \in NodeIds |-> Spell(W, n)]
  OBVIOUS
<1>3. \A n \in Live : V[n] = W[n]
  BY <1>1, <1>2, NodeSpelt
<1>4. V = [n \in NodeIds |-> Spell(V, n)]
  <2> SUFFICES ASSUME NEW n \in NodeIds PROVE Spell(V, n) = Spell(W, n)
    BY <1>2
  <2>1. \A i \in 1 .. Len(Kids(n)) : V[Kids(n)[i]] = W[Kids(n)[i]]
    BY <1>1, <1>3, KidFacts
  <2> QED BY <2>1, SpellIsLocal
<1>5. Spelling = CHOOSE spell : spell = [n \in NodeIds |-> Spell(spell, n)]
  BY DEF Spelling
<1>6. Spelling = [n \in NodeIds |-> Spell(Spelling, n)]
  BY <1>4, <1>5
<1> DEFINE S == {r \in Nat : \A n \in Live : Height(n) < r => Spelling[n] = W[n]}
<1>7. 0 \in S
  BY <1>1, HeightFalls
<1>8. ASSUME NEW r \in Nat, r \in S PROVE r + 1 \in S
  <2> SUFFICES ASSUME NEW n \in Live, Height(n) < r + 1 PROVE Spelling[n] = W[n]
    OBVIOUS
  <2>1. \A i \in 1 .. Len(Kids(n)) : Kids(n)[i] \in Live /\ Height(Kids(n)[i]) < r
    BY <1>1, HeightFalls, KidFacts
  <2>2. \A i \in 1 .. Len(Kids(n)) : Spelling[Kids(n)[i]] = W[Kids(n)[i]]
    BY <1>8, <2>1
  <2>3. Spell(Spelling, n) = Spell(W, n)
    BY <1>1, <2>2, SpellIsLocal
  <2> QED BY <1>1, <1>6, <2>3, NodeSpelt
<1>9. Nat \subseteq S
  <2> HIDE DEF S
  <2> QED BY <1>7, <1>8, SetInduction
<1> SUFFICES ASSUME NEW n \in Live PROVE Spelling[n] = W[n]
  OBVIOUS
<1>10. Height(n) \in Nat /\ Height(n) + 1 \in Nat /\ Height(n) < Height(n) + 1
  BY <1>1, HeightFalls
<1> HIDE DEF Height
<1> QED BY <1>9, <1>10

\* When a parse is over, the text of the tree is what has been read.
LEMMA ParsedText ==
  ASSUME ParserInv, NodesInv, SpellInv, pc = "accepted"
  PROVE  /\ Finished /\ stack = <<>> /\ ret \in Live /\ ret # None
         /\ \E H, P, W : /\ Listed(H, P, W) /\ W[ret] \in Texts
                         /\ W[ret] = NoBlanks(SubSeq(input, AfterBOM + 1, offset))
<1>1. Finished /\ AllInv
  BY TextInvIsOwnInv DEF Finished, ParserInv, AllInv
<1>2. PICK T, H, P, W, A : Spelt(T, H, P, W, A)
  BY DEF SpellInv
<1>3. Reading(T) /\ Listed(H, P, W) /\ Reached(T, P, W, A) /\ AfterBOM <= offset
  BY <1>2 DEF Spelt, Reached
<1>4. stack = <<>> /\ ret \in Live /\ ret # None
  <2>1. OwnInv /\ HandInv /\ ret # None
    BY <1>1 DEF AllInv, OwnInv, PlaceInv
  <2> QED BY <2>1, LinkFacts DEF OwnInv, PlaceInv
<1>5. W[ret] \in Texts
  <2>1. ret \in NodeIds
    BY <1>1, <1>4, FinishedIsATree, InvFacts
  <2> QED BY <1>3, <2>1 DEF Listed
<1>6. T[offset] = W[ret]
  <2>1. T[offset] = A[Len(stack)] \o W[ret] /\ A[0] = <<>>
    BY <1>3 DEF Reached
  <2>2. Len(stack) = 0
    BY <1>4
  <2> QED BY <1>5, <2>1, <2>2, TextAlgebra
<1>7. offset \in AfterBOM .. Len(input) /\ input \in Seq(Tokens)
  BY <1>1, <1>3, PlaceFacts
<1>8. T[offset] = NoBlanks(SubSeq(input, AfterBOM + 1, offset))
  BY <1>3, <1>7, ReadingMeans
<1> QED BY <1>1, <1>3, <1>4, <1>5, <1>6, <1>8

\* Read back, the tree of a finished parse is the text that was consumed: every element
\* under its own container, in order, duplicates of a key included, every key with its
\* value, and nothing of the text is lost or made up.
THEOREM TreesSpellTheText == ParseSpec => []TreeSpellsTheText
<1>1. ParserInv /\ NodesInv /\ SpellInv => TreeSpellsTheText
  <2> SUFFICES ASSUME ParserInv, NodesInv, SpellInv, pc = "accepted"
               PROVE  Spelling[ret] = NoBlanks(SubSeq(input, AfterBOM + 1, offset))
    BY DEF TreeSpellsTheText
  <2>1. PICK H, P, W : /\ Listed(H, P, W)
                       /\ W[ret] = NoBlanks(SubSeq(input, AfterBOM + 1, offset))
    BY ParsedText
  <2>2. Spelling[ret] = W[ret]
    BY <2>1, ParsedText, SpellingIs
  <2> QED BY <2>1, <2>2
<1> QED BY <1>1, SpellInvAlways, PTL


-----------------------------------------------------------------------------
(* A tree and its copy. *)

\* The children of what is reached from a node are reached from it.
LEMMA KidIsOwned ==
  ASSUME Finished, NEW r, NEW p \in Owned(next, child, r), p \in Live, NEW j \in 1 .. Len(Kids(p))
  PROVE  Kids(p)[j] \in Owned(next, child, r)
<1>1. /\ TreeInv /\ isRef = NoRefs /\ p \in NodeIds /\ Live \cap deleted = {}
           /\ Live \subseteq NodeIds
      /\ \A m \in Live : next[m] \in Live \cup {None} /\ child[m] \in Live \cup {None}
      /\ Spelled(Live, isRef, next, child, KidsOf) /\ Kids(p) = KidsOf[p]
      /\ KidsOf[p] \in Seq(NodeIds)
  BY FinishedIsATree, InvFacts, SoundFacts, KidFacts DEF NoRefs
<1>2. ASSUME NEW S \in SUBSET NodeIds, r \in S \cup deleted,
             \A m \in S : /\ next[m] \in S \cup deleted \cup {None}
                          /\ isRef[m] \/ child[m] \in S \cup deleted \cup {None}
      PROVE  Kids(p)[j] \in S
  <2> DEFINE T == S \cap Live
  <2>1. p \in S
    BY <1>2 DEF Owned
  <2>2. child[p] \in T \cup {None} /\ T \subseteq NodeIds
    BY <1>1, <1>2, <2>1 DEF NoRefs
  <2>3. \A m \in T : next[m] \in T \cup {None}
    BY <1>1, <1>2
  <2>4. Range(KidsOf[p]) \subseteq T
    <3> HIDE DEF T
    <3> QED BY <1>1, <2>2, <2>3, ListInside
  <2> QED BY <1>1, <2>4, RangeOfList
<1>3. Kids(p)[j] \in NodeIds
  BY <1>1
<1> QED BY <1>2, <1>3 DEF Owned

\* If a node matches its copy, so does each of its children: in an array they are
\* compared one by one, and in an object a name leads back to the member that has it.
LEMMA KidsMatchThemselves ==
  ASSUME Finished, NEW cs \in BOOLEAN, NEW p \in Live, SameOf(cs, TRUE)[<<p, p>>],
         \A i, j \in 1 .. Len(Kids(p)) :
           kind[p] = "object" /\ i # j => ~KeyMatches(key[Kids(p)[i]], key[Kids(p)[j]], cs),
         NEW j \in 1 .. Len(Kids(p))
  PROVE  SameOf(cs, TRUE)[<<Kids(p)[j], Kids(p)[j]>>]
<1> DEFINE same == SameOf(cs, TRUE)
<1>1. /\ TreeInv /\ OwnsList(p) /\ p \in NodeIds /\ Kids(p) = KidsOf[p]
      /\ kind[p] \notin Containers => Kids(p) = <<>>
  BY NodesHold, FinishedIsATree, KidFacts
<1>2. NodesMatch(same, p, p, cs, TRUE)
  BY <1>1, SameIs
<1> HIDE DEF same
<1>3. kind[p] \in Containers
  <2>1. Kids(p) # <<>>
    <3> SUFFICES ASSUME Kids(p) = <<>> PROVE FALSE
      OBVIOUS
    <3>1. Len(Kids(p)) = 0
      OBVIOUS
    <3> QED BY <3>1
  <2> QED BY <1>1, <2>1
<1>4. CASE NodeType(p) = "array" /\ ArraysMatch(same, p, p)
  BY <1>4 DEF ArraysMatch, same
<1>5. CASE NodeType(p) = "object" /\ ObjectsMatch(same, p, p, cs)
  <2>1. PICK m \in FindObjectChild(key, p, key[Kids(p)[j]], cs) : same[<<Kids(p)[j], m>>]
    BY <1>5 DEF ObjectsMatch, MembersMatch
  <2>2. PICK l : First(key, p, key[Kids(p)[j]], cs, l) /\ m = KidsOf[p][l]
    BY <1>1, FoundIsFirst
  <2>3. l \in 1 .. Len(Kids(p)) /\ KeyMatches(key[Kids(p)[l]], key[Kids(p)[j]], cs)
    BY <1>1, <2>2 DEF First, Named
  <2>4. kind[p] = "object"
    BY <1>3, <1>5 DEF NodeType, Containers, Scalars, Scalar, Huge
  <2> QED BY <1>1, <2>1, <2>2, <2>3, <2>4 DEF same
<1>6. NodeType(p) \notin {"number", "string"}
  BY <1>3, KeysAssumption DEF NodeType, Containers, Scalars, Scalar, Huge
<1> QED BY <1>2, <1>4, <1>5, <1>6 DEF NodesMatch

\* What is reached from the root of a finished tree is the root and the children of what
\* is reached.
LEMMA ReachedFromRoot ==
  ASSUME Finished, NEW S \in SUBSET Owned(next, child, ret), ret \in S,
         \A p \in S : \A j \in 1 .. Len(Kids(p)) : Kids(p)[j] \in S
  PROVE  /\ ret \in Live /\ Owned(next, child, ret) \subseteq Live
         /\ Owned(next, child, ret) \subseteq S
<1>1. /\ TreeInv /\ isRef = NoRefs /\ Live \subseteq NodeIds /\ Live \cap deleted = {}
      /\ Spelled(Live, isRef, next, child, KidsOf) /\ Sound(Live, isRef, next, prev, child)
  BY FinishedIsATree, InvFacts
<1>2. HandInv /\ ret # None
  BY TextInvIsOwnInv DEF Finished, ParserInv, OwnInv, PlaceInv
<1>3. /\ ret \in Live /\ next[ret] = None /\ None \notin Live
      /\ \A m \in Live : next[m] \in Live \cup {None} /\ child[m] \in Live \cup {None}
  BY <1>2, LinkFacts
<1>4. Owned(next, child, ret) \subseteq Live
  BY <1>1, <1>3 DEF Owned
<1> DEFINE U == {m \in NodeIds : m = ret \/ \E p \in S : \E j \in 1 .. Len(Kids(p)) : m = Kids(p)[j]}
<1>5. ASSUME NEW p \in S, NEW j \in 1 .. Len(Kids(p))
      PROVE  Kids(p)[j] \in U /\ next[Kids(p)[j]] \in U \cup {None}
  <2>1. /\ p \in Live /\ p \in NodeIds /\ Len(Kids(p)) \in Nat /\ Kids(p) = KidsOf[p]
        /\ \A i \in 1 .. Len(Kids(p)) : Kids(p)[i] \in NodeIds
        /\ j = Len(Kids(p)) => next[Kids(p)[j]] = None
    <3>1. p \in Live /\ p \in NodeIds
      BY <1>1, <1>4
    <3> QED BY <1>1, <3>1, KidLinks, KidFacts
  <2>2. CASE j < Len(Kids(p))
    <3>1. j + 1 \in 1 .. Len(Kids(p)) /\ j + 1 > 1 /\ (j + 1) - 1 = j
      BY <2>1, <2>2
    <3>2. next[KidsOf[p][(j + 1) - 1]] = KidsOf[p][j + 1]
      BY <1>1, <2>1, <3>1, ListFacts
    <3> QED BY <2>1, <3>1, <3>2
  <2> QED BY <2>1, <2>2
<1>6. ASSUME NEW m \in U PROVE next[m] \in U \cup {None} /\ child[m] \in U \cup {None}
  <2>1. m \in S /\ m \in Live
    BY <1>4
  <2>2. next[m] \in U \cup {None}
    BY <1>3, <1>5
  <2>3. /\ Len(Kids(m)) \in Nat /\ Len(Kids(m)) = 0 <=> child[m] = None
        /\ \A j \in 1 .. Len(Kids(m)) : j = 1 => Kids(m)[j] = child[m]
    BY <2>1, KidLinks
  <2>4. ASSUME child[m] # None PROVE child[m] \in U
    <3>1. 1 \in 1 .. Len(Kids(m))
      BY <2>3, <2>4
    <3> HIDE DEF U
    <3> QED BY <1>5, <2>1, <2>3, <3>1
  <2> QED BY <2>2, <2>4
<1>7. Owned(next, child, ret) \subseteq U
  <2>1. U \in SUBSET NodeIds /\ ret \in U
    BY <1>1, <1>3
  <2> HIDE DEF U
  <2> QED BY <1>6, <2>1 DEF Owned
<1>8. U \subseteq S
  OBVIOUS
<1> HIDE DEF U
<1> QED BY <1>3, <1>4, <1>7, <1>8

\* A tree that matches its copy, and whose members have names of their own, holds no
\* number that overflowed: the match goes down to every node, and such a number has none.
LEMMA MatchedIsFinite ==
  ASSUME Finished, NEW cs \in BOOLEAN, OwnNames(ret, cs), SameOf(cs, TRUE)[<<ret, ret>>]
  PROVE  Finite(ret)
<1> DEFINE same == SameOf(cs, TRUE)
           D == Owned(next, child, ret)
           S == {m \in D : same[<<m, m>>]}
<1>1. /\ Live \subseteq NodeIds /\ ret \in Live /\ ret \in D /\ D \subseteq Live
  <2>1. /\ Live \subseteq NodeIds /\ Live \cap deleted = {} /\ isRef = NoRefs
    BY FinishedIsATree, InvFacts
  <2>2. HandInv /\ ret # None
    BY TextInvIsOwnInv DEF Finished, ParserInv, OwnInv, PlaceInv
  <2>3. /\ ret \in Live
        /\ \A m \in Live : next[m] \in Live \cup {None} /\ child[m] \in Live \cup {None}
    BY <2>2, LinkFacts
  <2>4. D \subseteq Live
    BY <2>1, <2>3 DEF Owned
  <2>5. ret \in D
    BY <2>1, <2>3 DEF Owned
  <2> QED BY <2>1, <2>3, <2>4, <2>5
<1>2. ASSUME NEW p \in S, NEW j \in 1 .. Len(Kids(p)) PROVE Kids(p)[j] \in S
  <2>1. same[<<Kids(p)[j], Kids(p)[j]>>]
    <3>1. \A h, i \in 1 .. Len(Kids(p)) :
            kind[p] = "object" /\ h # i => ~KeyMatches(key[Kids(p)[h]], key[Kids(p)[i]], cs)
      BY DEF OwnNames
    <3> QED BY <1>1, <3>1, KidsMatchThemselves
  <2>2. Kids(p)[j] \in D
    BY <1>1, KidIsOwned
  <2> QED BY <2>1, <2>2
<1>3. D \subseteq S
  <2>1. S \in SUBSET Owned(next, child, ret) /\ ret \in S
    BY <1>1
  <2> HIDE DEF S
  <2> QED BY <1>2, <2>1, ReachedFromRoot
<1>4. ASSUME NEW m \in D PROVE kind[m] # Huge
  <2>1. m \in NodeIds /\ same[<<m, m>>]
    BY <1>1, <1>3
  <2>2. NodesMatch(same, m, m, cs, TRUE)
    BY <2>1, SameIs
  <2> HIDE DEF same
  <2>3. ASSUME kind[m] = Huge PROVE FALSE
    <3>1. NodeType(m) = "number"
      <4>1. kind[m] \in Scalars /\ Huge \notin Keys
        BY <2>3, KeysAssumption DEF Scalars
      <4> QED BY <2>3, <4>1 DEF NodeType
    <3>2. ~NumbersMatch(m, m)
      BY <2>3 DEF NumbersMatch
    <3> QED BY <2>2, <3>1, <3>2 DEF NodesMatch
  <2> QED BY <2>3
<1> QED BY <1>4 DEF Finite

\* Whatever members repeat their names, Arena::compare finds a finished tree equal to
\* itself; where none does, cJSON_Compare, on copies, does so exactly when no number in
\* it overflowed, at any depth.
THEOREM DiffersOnlyByOverflow == ParseSpec => []OverflowDiffersFromItsCopy
<1>1. ParserInv /\ NodesInv => OverflowDiffersFromItsCopy
  <2> SUFFICES ASSUME Finished, NEW cs \in BOOLEAN
               PROVE  /\ Compare(ret, ret, cs)
                      /\ OwnNames(ret, cs) => (CJSONCompare(ret, ret, cs) <=> Finite(ret))
    BY DEF Finished, OverflowDiffersFromItsCopy
  <2>1. ret \in Live /\ ret \in NodeIds
    <3>1. HandInv /\ ret # None
      BY TextInvIsOwnInv DEF Finished, ParserInv, OwnInv, PlaceInv
    <3> QED BY <3>1, LinkFacts
  <2>2. Compare(ret, ret, cs)
    <3>1. NodesMatch(SameOf(cs, FALSE), ret, ret, cs, FALSE)
      BY DEF NodesMatch
    <3>2. SameOf(cs, FALSE)[<<ret, ret>>]
      BY <2>1, <3>1, SameIs
    <3> QED BY <2>1, <3>2, CompareIsSame DEF Compare
  <2>3. CJSONCompare(ret, ret, cs) = SameOf(cs, TRUE)[<<ret, ret>>]
    BY CompareIsSame DEF CJSONCompare
  <2>4. ASSUME OwnNames(ret, cs), Finite(ret) PROVE SameOf(cs, TRUE)[<<ret, ret>>]
    <3>1. Plain(ret, cs)
      BY <2>4 DEF Plain
    <3> QED BY <2>1, <3>1, SameMeans
  <2>5. ASSUME OwnNames(ret, cs), SameOf(cs, TRUE)[<<ret, ret>>] PROVE Finite(ret)
    BY <2>5, MatchedIsFinite
  <2> QED BY <2>2, <2>3, <2>4, <2>5
<1> QED BY <1>1, NodesInvAlways, PTL

-----------------------------------------------------------------------------
(* What becomes of a text when its blanks are left out, or its overflowed numbers are *)
(* printed.                                                                            *)

Bits(text) == [i \in 1 .. Len(text) |-> Bit(text[i])]

LEMMA BitsAre ==
  ASSUME NEW text \in Texts
  PROVE  /\ NoBlanks(text) = FlattenSeq(Bits(text)) /\ Bits(text) \in Seq(Texts)
         /\ Len(Bits(text)) = Len(text) /\ Len(text) \in Nat
         /\ \A i \in 1 .. Len(text) : Bits(text)[i] = Bit(text[i]) /\ text[i] \in Tokens
<1>1. Len(text) \in Nat /\ \A i \in 1 .. Len(text) : text[i] \in Tokens
  <2> HIDE DEF Tokens
  <2> QED BY ElementOfSeq DEF Texts
<1>2. \A i \in 1 .. Len(text) : Bit(text[i]) \in Texts
  BY <1>1, BitIsText
<1>3. Bits(text) = [i \in 1 .. Len(text) |-> Bit(text[i])]
  BY DEF Bits
<1>4. NoBlanks(text) = FlattenSeq(Bits(text))
  BY DEF NoBlanks, Bits, Bit
<1>5. /\ Bits(text) \in Seq(Texts) /\ Len(Bits(text)) = Len(text)
      /\ \A i \in 1 .. Len(text) : Bits(text)[i] = Bit(text[i])
  BY <1>1, <1>2, <1>3
<1> QED BY <1>1, <1>4, <1>5

LEMMA NoBlanksConcat ==
  ASSUME NEW a \in Texts, NEW b \in Texts
  PROVE  NoBlanks(a \o b) = NoBlanks(a) \o NoBlanks(b)
<1>1. a \o b \in Texts
  BY TextAlgebra
<1>2. /\ Len(a \o b) = Len(a) + Len(b) /\ Len(a) \in Nat /\ Len(b) \in Nat
      /\ \A i \in 1 .. Len(a) + Len(b) : (a \o b)[i] = IF i <= Len(a) THEN a[i] ELSE b[i - Len(a)]
  BY ConcatProperties, BitsAre DEF Texts
<1>3. Bits(a \o b) = Bits(a) \o Bits(b)
  <2> DEFINE x == Bits(a \o b)
             y == Bits(a) \o Bits(b)
             n == Len(a) + Len(b)
  <2>1. /\ x \in Seq(Texts) /\ Len(x) = n
        /\ \A i \in 1 .. n : x[i] = Bit((a \o b)[i])
    BY <1>1, <1>2, BitsAre
  <2>2. /\ y \in Seq(Texts) /\ Len(y) = n
        /\ \A i \in 1 .. n : y[i] = IF i <= Len(a) THEN Bits(a)[i] ELSE Bits(b)[i - Len(a)]
    <3> DEFINE p == Bits(a)
               q == Bits(b)
    <3>1. p \in Seq(Texts) /\ q \in Seq(Texts) /\ Len(p) = Len(a) /\ Len(q) = Len(b)
      BY BitsAre
    <3> HIDE DEF p, q
    <3>2. /\ p \o q \in Seq(Texts) /\ Len(p \o q) = Len(p) + Len(q)
          /\ \A i \in 1 .. Len(p) + Len(q) :
               (p \o q)[i] = IF i <= Len(p) THEN p[i] ELSE q[i - Len(p)]
      BY <3>1, ConcatProperties
    <3> QED BY <3>1, <3>2 DEF p, q
  <2>3. \A i \in 1 .. n : x[i] = y[i]
    <3> SUFFICES ASSUME NEW i \in 1 .. n PROVE x[i] = y[i]
      OBVIOUS
    <3> HIDE DEF x, y
    <3>1. CASE i <= Len(a)
      <4>1. i \in 1 .. Len(a)
        BY <1>2, <3>1
      <4> QED BY <1>2, <2>1, <2>2, <3>1, <4>1, BitsAre
    <3>2. CASE ~(i <= Len(a))
      <4>1. i - Len(a) \in 1 .. Len(b)
        BY <1>2, <3>2
      <4> QED BY <1>2, <2>1, <2>2, <3>2, <4>1, BitsAre
    <3> QED BY <3>1, <3>2
  <2> HIDE DEF x, y, n
  <2>4. x = y
    BY <2>1, <2>2, <2>3, SeqEqual
  <2> QED BY <2>4 DEF x, y
<1>4. FlattenSeq(Bits(a) \o Bits(b)) = FlattenSeq(Bits(a)) \o FlattenSeq(Bits(b))
  BY BitsAre, FlattenConcat DEF Texts
<1> QED BY <1>1, <1>3, <1>4, BitsAre

LEMMA NoBlanksOf ==
  /\ NoBlanks(<<>>) = <<>>
  /\ \A t \in Tokens : NoBlanks(<<t>>) = Bit(t)
  /\ \A text \in Texts : NoBlanks(text) \in Texts
  /\ \A n \in Nat : Tabs(n) \in Texts /\ NoBlanks(Tabs(n)) = <<>>
<1>1. ASSUME NEW text \in Texts PROVE NoBlanks(text) \in Texts
  <2>1. PICK at \in [0 .. Len(Bits(text)) -> Texts] : Joins(Bits(text), at)
    BY BitsAre, JoinsExist DEF Texts
  <2>2. FlattenSeq(Bits(text)) = at[Len(Bits(text))]
    BY <2>1, BitsAre, FlattenIsLast DEF Texts
  <2> QED BY <2>1, <2>2, BitsAre
<1>2. ASSUME NEW n \in Nat PROVE Tabs(n) \in Texts /\ NoBlanks(Tabs(n)) = <<>>
  <2>1. Tabs(n) \in Texts /\ Len(Tabs(n)) = n /\ \A i \in 1 .. n : Tabs(n)[i] = Blank
    <3>1. Blank \in Tokens
      BY DEF Tokens, Marks
    <3> HIDE DEF Tokens
    <3> QED BY <3>1 DEF Tabs, Texts
  <2>2. PICK at : at = [j \in 0 .. n |-> <<>>]
    OBVIOUS
  <2>3. Len(Bits(Tabs(n))) = n /\ \A i \in 1 .. n : Bits(Tabs(n))[i] = <<>>
    BY <2>1, BitsAre DEF Bit
  <2>4. \A i \in 1 .. n : at[i] = at[i - 1] \o Bits(Tabs(n))[i]
    <3> SUFFICES ASSUME NEW i \in 1 .. n PROVE at[i] = at[i - 1] \o Bits(Tabs(n))[i]
      OBVIOUS
    <3>1. at[i] = <<>> /\ at[i - 1] = <<>> /\ Bits(Tabs(n))[i] = <<>>
      BY <2>2, <2>3
    <3> QED BY <3>1, TextAlgebra
  <2>5. Joins(Bits(Tabs(n)), at) /\ at \in [0 .. n -> Texts] /\ at[n] = <<>>
    BY <2>2, <2>3, <2>4, TextAlgebra DEF Joins
  <2>6. FlattenSeq(Bits(Tabs(n))) = at[n]
    <3>1. Bits(Tabs(n)) \in Seq(Texts)
      BY <2>1, BitsAre
    <3> HIDE DEF Texts
    <3>2. Bits(Tabs(n)) \in Seq(Seq(Tokens)) /\ at \in [0 .. Len(Bits(Tabs(n))) -> Seq(Tokens)]
      BY <2>3, <2>5, <3>1 DEF Texts
    <3>3. FlattenSeq(Bits(Tabs(n))) = at[Len(Bits(Tabs(n)))]
      BY <2>5, <3>2, FlattenIsLast
    <3> QED BY <2>3, <3>3
  <2> QED BY <2>1, <2>5, <2>6, BitsAre
<1>3. NoBlanks(<<>>) = <<>>
  <2>1. Tabs(0) = <<>>
    BY DEF Tabs
  <2> QED BY <1>2, <2>1
<1>4. ASSUME NEW t \in Tokens PROVE NoBlanks(<<t>>) = Bit(t)
  <2> DEFINE x == Bits(<<t>>)
  <2>1. <<t>> \in Texts /\ Len(<<t>>) = 1 /\ <<t>>[1] = t
    BY TextAlgebra
  <2>2. x \in Seq(Texts) /\ Len(x) = 1 /\ x[1] = Bit(t) /\ NoBlanks(<<t>>) = FlattenSeq(x)
    <3> DEFINE one == <<t>>
    <3>1. one \in Texts /\ Len(one) = 1 /\ one[1] = t /\ 1 \in 1 .. Len(one)
      BY <2>1
    <3> HIDE DEF one
    <3>2. /\ Bits(one) \in Seq(Texts) /\ Len(Bits(one)) = 1 /\ Bits(one)[1] = Bit(t)
          /\ NoBlanks(one) = FlattenSeq(Bits(one))
      BY <3>1, BitsAre
    <3> QED BY <3>2 DEF one
  <2> HIDE DEF x
  <2>3. PICK at \in [0 .. 1 -> Texts] : Joins(x, at)
    BY <2>2, JoinsExist DEF Texts
  <2>4. FlattenSeq(x) = at[1]
    BY <2>2, <2>3, FlattenIsLast DEF Texts
  <2>5. at[1] = at[0] \o x[1] /\ at[0] = <<>>
    <3>1. 1 \in 1 .. Len(x) /\ 1 - 1 = 0
      BY <2>2
    <3> QED BY <2>3, <3>1 DEF Joins
  <2> QED BY <2>2, <2>4, <2>5, BitIsText, TextAlgebra
<1> QED BY <1>1, <1>2, <1>3, <1>4

\* Printing: an overflowed number is printed as another.
Printed(t) == IF t = Huge THEN Scalar ELSE t
Shown(text) == [i \in 1 .. Len(text) |-> Printed(text[i])]

LEMMA ShownConcat ==
  /\ Shown(<<>>) = <<>>
  /\ \A t \in Tokens : Shown(<<t>>) = <<Printed(t)>>
  /\ \A a \in Texts : Shown(a) \in Texts
  /\ \A a, b \in Texts : Shown(a \o b) = Shown(a) \o Shown(b)
<1>1. \A t \in Tokens : Printed(t) \in Tokens
  BY DEF Printed, Tokens, Scalars
<1>2. ASSUME NEW a \in Texts
      PROVE  /\ Shown(a) \in Texts /\ Len(Shown(a)) = Len(a) /\ Len(a) \in Nat
             /\ \A i \in 1 .. Len(a) : Shown(a)[i] = Printed(a[i])
  <2>1. Len(a) \in Nat /\ \A i \in 1 .. Len(a) : Printed(a[i]) \in Tokens
    BY <1>1, BitsAre
  <2>2. Shown(a) = [i \in 1 .. Len(a) |-> Printed(a[i])]
    BY DEF Shown
  <2> HIDE DEF Tokens
  <2> QED BY <2>1, <2>2 DEF Texts
<1>3. ASSUME NEW a \in Texts, NEW b \in Texts PROVE Shown(a \o b) = Shown(a) \o Shown(b)
  <2> DEFINE x == Shown(a \o b)
             y == Shown(a) \o Shown(b)
             n == Len(a) + Len(b)
  <2>1. a \o b \in Texts
    BY TextAlgebra
  <2>2. /\ Len(a \o b) = n /\ Len(a) \in Nat /\ Len(b) \in Nat
        /\ \A i \in 1 .. n : (a \o b)[i] = IF i <= Len(a) THEN a[i] ELSE b[i - Len(a)]
    BY <1>2, ConcatProperties DEF Texts
  <2>3. x \in Texts /\ Len(x) = n /\ \A i \in 1 .. n : x[i] = Printed((a \o b)[i])
    BY <1>2, <2>1, <2>2
  <2>4. /\ y \in Texts /\ Len(y) = n
        /\ \A i \in 1 .. n : y[i] = IF i <= Len(a) THEN Shown(a)[i] ELSE Shown(b)[i - Len(a)]
    <3> DEFINE p == Shown(a)
               q == Shown(b)
    <3>1. p \in Texts /\ q \in Texts /\ Len(p) = Len(a) /\ Len(q) = Len(b)
      BY <1>2
    <3> HIDE DEF p, q
    <3>2. /\ p \o q \in Texts /\ Len(p \o q) = Len(p) + Len(q)
          /\ \A i \in 1 .. Len(p) + Len(q) :
               (p \o q)[i] = IF i <= Len(p) THEN p[i] ELSE q[i - Len(p)]
      BY <3>1, ConcatProperties DEF Texts
    <3> QED BY <3>1, <3>2 DEF p, q
  <2>5. \A i \in 1 .. n : x[i] = y[i]
    <3> SUFFICES ASSUME NEW i \in 1 .. n PROVE x[i] = y[i]
      OBVIOUS
    <3> HIDE DEF x, y
    <3>1. CASE i <= Len(a)
      <4>1. i \in 1 .. Len(a)
        BY <2>2, <3>1
      <4> QED BY <1>2, <2>2, <2>3, <2>4, <3>1, <4>1
    <3>2. CASE ~(i <= Len(a))
      <4>1. i - Len(a) \in 1 .. Len(b)
        BY <2>2, <3>2
      <4> QED BY <1>2, <2>2, <2>3, <2>4, <3>2, <4>1
    <3> QED BY <3>1, <3>2
  <2> HIDE DEF x, y, n
  <2>6. x = y
    BY <2>3, <2>4, <2>5, SeqEqual DEF Texts
  <2> QED BY <2>6 DEF x, y
<1>4. Shown(<<>>) = <<>> /\ \A t \in Tokens : Shown(<<t>>) = <<Printed(t)>>
  BY DEF Shown
<1> QED BY <1>2, <1>3, <1>4

-----------------------------------------------------------------------------
(* How deep a node may still be nested. *)

\* V is the number of containers that may be open at a node and below it: a container
\* has one at least, and leaves its children one less.
Leveled(V) ==
  /\ V \in [NodeIds -> Int]
  /\ \A n \in Live : kind[n] \in Containers => V[n] >= 1
  /\ \A n \in Live : child[n] # None => V[child[n]] = V[n] - 1
  /\ \A m \in Linked : prev[m] # None => V[m] = V[prev[m]]
  /\ ret # None => V[ret] = NestingLimit - Len(stack)
  /\ \A i \in DOMAIN stack : stack[i].head # None =>
       V[stack[i].head] = NestingLimit - i /\ V[stack[i].tail] = NestingLimit - i

Working == {"value", "loop", "linked", "return", "accepted"}

LevelInv == pc \in Working => \E V : Leveled(V)

LEMMA IdleLeveled ==
  ASSUME LevelInv, pc \in Working, UNCHANGED <<vars, kind, ret>>,
         ret # None => stack' = stack,
         \A i \in DOMAIN stack' :
           \/ stack'[i].head = None
           \/ i \in DOMAIN stack /\ stack'[i].head = stack[i].head
             /\ stack'[i].tail = stack[i].tail
  PROVE  LevelInv'
<1>1. PICK V : Leveled(V)
  BY DEF LevelInv
<1>2. UNCHANGED <<Live, Linked, next, prev, child, kind>>
  BY DEF vars, Live, InBounds, Linked
<1>3. Leveled(V)'
  BY <1>1, <1>2 DEF Leveled
<1> QED BY <1>3 DEF LevelInv

LEMMA BeginLeveled ==
  ASSUME AllInv, Begin
  PROVE  LevelInv'
<1>1. /\ stack = <<>> /\ ret = None /\ UNCHANGED <<vars, stack, ret, kind>>
  BY DEF AllInv, OwnInv, PlaceInv, Begin
<1>2. DOMAIN stack = {}
  BY <1>1
<1>3. Live = {}
  <2>1. Hands = {}
    BY <1>1, <1>2, HandsAre
  <2> QED BY <2>1 DEF AllInv, HandInv, Grown
<1>4. UNCHANGED <<Live, Linked>> /\ Linked = {}
  BY <1>1, <1>3 DEF vars, Live, InBounds, Linked
<1>5. PICK V : V = [n \in NodeIds |-> 0]
  OBVIOUS
<1>6. Leveled(V)'
  BY <1>1, <1>2, <1>3, <1>4, <1>5 DEF Leveled
<1> QED BY <1>6 DEF LevelInv

\* A new node.
LEMMA ReturnsLeveled ==
  ASSUME AllInv, ret = None, NEW V, Leveled(V),
         NEW c \in Live \cup {None}, NEW k \in Contents, Returns(c, k),
         NEW v \in Int, v = NestingLimit - Len(stack'), k \in Containers => v >= 1,
         c # None => V[c] = v - 1,
         \A i \in DOMAIN stack' : i \in DOMAIN stack /\ stack'[i] = stack[i]
  PROVE  LevelInv'
<1>1. PICK U : U = [V EXCEPT ![size] = v]
  OBVIOUS
<1>2. /\ size \in NodeIds \ Live /\ Live' = Live \cup {size}
      /\ next' = next /\ prev' = prev /\ child' = [child EXCEPT ![size] = c]
      /\ kind' = [kind EXCEPT ![size] = k] /\ ret' = size
  <2>1. size \in 0 .. MaxNodes /\ deleted \subseteq InBounds /\ size < MaxNodes
        /\ size' = size + 1 /\ deleted' = deleted
    BY DEF AllInv, BoundsInv, TypeOK, LinksInBounds, Returns, Alloc
  <2> QED BY <2>1, MaxNodesAssumption DEF Live, InBounds, NodeIds, Returns, Alloc
<1>3. /\ Live \subseteq NodeIds /\ None \notin Live
      /\ child \in [NodeIds -> Link] /\ kind \in [NodeIds -> Kinds]
      /\ \A n \in Live : prev[n] \in Live \cup {None} /\ child[n] \in Live \cup {None}
  BY LinkFacts DEF AllInv, OwnInv
<1>4. Linked = Live /\ Linked' = Live
  BY <1>2, <1>3 DEF Linked
<1>5. U \in [NodeIds -> Int] /\ U[size] = v /\ \A n \in Live : U[n] = V[n]
  BY <1>1, <1>2, <1>3 DEF Leveled
<1>6. /\ child'[size] = c /\ kind'[size] = k
      /\ \A n \in Live : child'[n] = child[n] /\ kind'[n] = kind[n]
  BY <1>2, <1>3
<1>7. \A n \in Live' : kind'[n] \in Containers => U[n] >= 1
  BY <1>2, <1>5, <1>6 DEF Leveled
<1>8. \A n \in Live' : child'[n] # None => U[child'[n]] = U[n] - 1
  BY <1>2, <1>3, <1>5, <1>6 DEF Leveled
<1>9. \A m \in Live : prev[m] # None => U[m] = U[prev[m]]
  BY <1>3, <1>4, <1>5 DEF Leveled
<1>10. \A i \in DOMAIN stack' : stack'[i].head # None =>
         U[stack'[i].head] = NestingLimit - i /\ U[stack'[i].tail] = NestingLimit - i
  <2> SUFFICES ASSUME NEW i \in DOMAIN stack', stack[i].head # None
               PROVE  U[stack[i].head] = NestingLimit - i /\ U[stack[i].tail] = NestingLimit - i
    OBVIOUS
  <2>1. i \in DOMAIN stack /\ stack[i].head \in Hands /\ stack[i].tail \in Linked
    BY HandsAre, TailsAreLinked DEF AllInv
  <2>2. stack[i].head \in Live
    BY <2>1, LinkFacts DEF AllInv
  <2> QED BY <1>4, <1>5, <2>1, <2>2 DEF Leveled
<1>11. Leveled(U)'
  BY <1>2, <1>4, <1>5, <1>7, <1>8, <1>9, <1>10 DEF Leveled
<1> QED BY <1>11 DEF LevelInv

LEMMA LinkItemLeveled ==
  ASSUME AllInv, LevelInv, LinkItem
  PROVE  LevelInv'
<1>1. pc = "return" /\ pc' = "linked" /\ ret' = None
  BY DEF LinkItem
<1>2. PICK V : Leveled(V)
  BY <1>1 DEF LevelInv, Working
<1>3. /\ Linked' = Live /\ Live' = Live /\ Live = Linked \cup {ret} /\ ret \notin Linked
      /\ ret # None /\ kind' = kind /\ child' = child
      /\ DOMAIN stack' = DOMAIN stack /\ Len(stack) \in DOMAIN stack
      /\ \A i \in DOMAIN stack : i # Len(stack) => stack'[i] = stack[i]
      /\ Top = stack[Len(stack)] /\ FrameInv(Top)
      /\ stack'[Len(stack)].head = (IF Top.head = None THEN ret ELSE Top.head)
      /\ stack'[Len(stack)].tail = ret
      /\ prev'[ret] = Top.tail /\ \A n \in Linked : prev'[n] = prev[n]
  BY LinkItemFacts DEF AllInv
<1>4. V[ret] = NestingLimit - Len(stack)
  BY <1>2, <1>3 DEF Leveled
<1>5. Top.head # None =>
        V[Top.head] = NestingLimit - Len(stack) /\ V[Top.tail] = NestingLimit - Len(stack)
  BY <1>2, <1>3 DEF Leveled
<1>6. \A m \in Live : prev'[m] # None => V[m] = V[prev'[m]]
  BY <1>2, <1>3, <1>4, <1>5 DEF Leveled, FrameInv
<1>7. \A i \in DOMAIN stack : stack'[i].head # None =>
         V[stack'[i].head] = NestingLimit - i /\ V[stack'[i].tail] = NestingLimit - i
  BY <1>2, <1>3, <1>4, <1>5 DEF Leveled
<1>8. Leveled(V)'
  BY <1>1, <1>2, <1>3, <1>6, <1>7 DEF Leveled
<1> QED BY <1>8 DEF LevelInv

LEMMA LevelInvStep ==
  ParserInv /\ NodesInv /\ SpellInv /\ LevelInv /\ [ParseNext]_pvars => LevelInv'
<1> SUFFICES ASSUME ParserInv, NodesInv, SpellInv, LevelInv, [ParseNext]_pvars PROVE LevelInv'
  OBVIOUS
<1>1. AllInv
  BY TextInvIsOwnInv DEF ParserInv, AllInv
<1>2. /\ input \in Seq(Tokens) /\ stack \in Seq(Frames) /\ Len(stack) = depth /\ depth \in Nat
      /\ NestingLimit \in Nat /\ depth <= NestingLimit
  BY <1>1, NestingLimitAssumption DEF AllInv, OwnInv
<1>3. ASSUME pc' \in {"start", "fail", "rejected"} PROVE LevelInv'
  BY <1>3 DEF LevelInv, Working
<1>4. ASSUME pc \in Working, UNCHANGED <<vars, kind, ret, stack>> PROVE LevelInv'
  BY <1>4, IdleLeveled
<1>5. CASE UNCHANGED pvars
  <2>1. UNCHANGED <<vars, kind, ret, stack, pc>>
    BY <1>5 DEF pvars, parser
  <2> QED BY <1>4, <2>1 DEF LevelInv
<1>6. CASE NextElement \/ ContinueLoop \/ Accept
  BY <1>4, <1>6 DEF NextElement, ContinueLoop, Accept, Working
<1>7. CASE ParseNothing \/ MalformedMember \/ ExpectedEnd \/ Reject \/ Abandon \/ RejectTrailing
  BY <1>3, <1>7
    DEF ParseNothing, MalformedMember, ExpectedEnd, Reject, Abandon, RejectTrailing, Fails
<1>8. ASSUME NEW k \in Contents, Returns(None, k), stack' = stack, pc = "value",
             k \in Containers => depth < NestingLimit
      PROVE  LevelInv'
  <2>1. PICK V : Leveled(V)
    BY <1>8 DEF LevelInv, Working
  <2>2. ret = None
    BY <1>1, <1>8 DEF AllInv, OwnInv, PlaceInv
  <2>3. PICK v \in Int : v = NestingLimit - Len(stack')
    BY <1>2, <1>8
  <2>4. k \in Containers => v >= 1
    BY <1>2, <1>8, <2>3
  <2>5. \A i \in DOMAIN stack' : i \in DOMAIN stack /\ stack'[i] = stack[i]
    BY <1>8
  <2> QED BY <1>1, <1>8, <2>1, <2>2, <2>3, <2>4, <2>5, ReturnsLeveled
<1>9. CASE ParseScalar
  <2>1. /\ pc = "value" /\ Returns(None, input[offset + 1]) /\ stack' = stack
        /\ (ReadsScalar(offset) \/ ReadsString(offset))
    BY <1>9 DEF ParseScalar
  <2>2. input[offset + 1] \in Contents \ Containers
    BY <2>1, KeysAssumption
      DEF ReadsScalar, ReadsString, Contents, Containers, Scalars, Scalar, Huge
  <2> QED BY <1>8, <2>1, <2>2
<1>10. ASSUME NEW container \in Containers,
             \/ TooDeep(container) \/ ParseEmpty(container)
             \/ ParseOpenEnded(container) \/ Enter(container)
      PROVE  LevelInv'
  <2>1. CASE TooDeep(container) \/ ParseOpenEnded(container)
    BY <1>3, <2>1 DEF TooDeep, ParseOpenEnded, Fails
  <2>2. CASE ParseEmpty(container)
    <3>1. pc = "value" /\ stack' = stack /\ Returns(None, container) /\ container \in Contents
          /\ depth < NestingLimit
      BY <2>2, OpensAtAValue DEF ParseEmpty, Contents
    <3> QED BY <1>8, <3>1
  <2>3. CASE Enter(container)
    <3> DEFINE fresh == Frame(container)
    <3>1. pc = "value" /\ stack' = Append(stack, fresh) /\ UNCHANGED <<vars, kind, ret>>
      BY <2>3, OpensAtAValue DEF Enter
    <3>2. ret = None
      BY <1>1, <3>1 DEF AllInv, OwnInv, PlaceInv
    <3>3. fresh \in Frames /\ fresh.head = None
      BY DEF Frame, Frames, Link, Containers
    <3> HIDE DEF fresh
    <3>4. DOMAIN stack' = DOMAIN stack \cup {Len(stack) + 1} /\ stack'[Len(stack) + 1] = fresh
          /\ \A i \in DOMAIN stack : stack'[i] = stack[i]
      BY <1>2, <3>1, <3>3, PushFacts
    <3>5. \A i \in DOMAIN stack' :
            \/ stack'[i].head = None
            \/ i \in DOMAIN stack /\ stack'[i].head = stack[i].head
              /\ stack'[i].tail = stack[i].tail
      BY <3>3, <3>4
    <3> QED BY <3>1, <3>2, <3>5, IdleLeveled DEF Working
  <2> QED BY <1>10, <2>1, <2>2, <2>3
<1>11. CASE NextMember
  <2>1. pc = "loop" /\ UNCHANGED <<vars, kind, ret>>
        /\ \E k \in Keys : stack' = SetTop([Top EXCEPT !.key = k])
    BY <1>11 DEF NextMember, ReadsString
  <2>2. PICK k \in Keys : stack' = SetTop([Top EXCEPT !.key = k])
    BY <2>1
  <2>3. stack # <<>> /\ ret = None
    BY <1>1, <2>1 DEF AllInv, OwnInv, PlaceInv
  <2>4. /\ [Top EXCEPT !.key = k] \in Frames /\ [Top EXCEPT !.key = k].head = Top.head
        /\ [Top EXCEPT !.key = k].tail = Top.tail
    BY <1>2, <2>3, TopFacts DEF Frames
  <2>5. \A i \in DOMAIN stack' :
          i \in DOMAIN stack /\ stack'[i].head = stack[i].head /\ stack'[i].tail = stack[i].tail
    BY <1>2, <2>2, <2>3, <2>4, SetTopFacts, TopFacts
  <2> QED BY <2>1, <2>3, <2>5, IdleLeveled DEF Working
<1>12. CASE CloseContainer
  <2>1. /\ pc = "linked" /\ stack' = Pop /\ Returns(Top.head, Top.container)
    BY <1>12 DEF CloseContainer
  <2>2. PICK T, H, P, W, A : Spelt(T, H, P, W, A)
    BY <2>1 DEF SpellInv
  <2>3. Listed(H, P, W) /\ Top.tail # None /\ ret = None
    BY <1>1, <2>1, <2>2 DEF Spelt, Reached, AllInv, OwnInv, PlaceInv
  <2>4. /\ stack # <<>> /\ Len(stack) \in DOMAIN stack /\ Top = stack[Len(stack)]
        /\ Top.head \in Live /\ Top.container \in Contents
    BY <1>1, <2>1, <2>3, TopListed
  <2>5. PICK V : Leveled(V)
    BY <2>1 DEF LevelInv, Working
  <2>6. /\ Len(stack') = Len(stack) - 1
        /\ \A i \in DOMAIN stack' : i \in DOMAIN stack /\ stack'[i] = stack[i]
    BY <1>2, <2>1, <2>4, PopFacts
  <2>7. PICK v \in Int : v = NestingLimit - Len(stack') /\ v >= 1
    BY <1>2, <2>6
  <2>8. Top.head # None
    BY <1>1, <2>4, LinkFacts DEF AllInv
  <2>9. V[Top.head] = v - 1
    BY <1>2, <2>4, <2>5, <2>6, <2>7, <2>8 DEF Leveled
  <2> QED BY <1>1, <2>1, <2>3, <2>4, <2>5, <2>6, <2>7, <2>9, ReturnsLeveled
<1>13. CASE Begin
  BY <1>1, <1>13, BeginLeveled
<1>14. CASE LinkItem
  BY <1>1, <1>14, LinkItemLeveled
<1> QED
  BY <1>5, <1>6, <1>7, <1>9, <1>10, <1>11, <1>12, <1>13, <1>14 DEF ParseNext, Containers

-----------------------------------------------------------------------------
(* The print of a node, but for what formatting adds. *)

Wash(pretty, text) == IF pretty THEN NoBlanks(text) ELSE text

LEMMA WashIs ==
  ASSUME NEW pretty \in BOOLEAN
  PROVE  /\ Wash(pretty, <<>>) = <<>>
         /\ \A t \in Tokens : t \notin {Blank, Nul} => Wash(pretty, <<t>>) = <<t>>
         /\ \A a \in Texts : Wash(pretty, a) \in Texts
         /\ \A a, b \in Texts : Wash(pretty, a \o b) = Wash(pretty, a) \o Wash(pretty, b)
<1>1. CASE pretty
  <2>1. \A t \in Tokens : t \notin {Blank, Nul} => NoBlanks(<<t>>) = <<t>>
    BY NoBlanksOf DEF Bit
  <2> QED BY <1>1, <2>1, NoBlanksOf, NoBlanksConcat DEF Wash
<1>2. CASE ~pretty
  BY <1>2 DEF Wash
<1> QED BY <1>1, <1>2

LEMMA PairIs == \A s, t \in Tokens : <<s, t>> = <<s>> \o <<t>>
<1> HIDE DEF Tokens
<1> SUFFICES ASSUME NEW s \in Tokens, NEW t \in Tokens PROVE <<s, t>> = <<s>> \o <<t>>
  OBVIOUS
<1> DEFINE a == <<s>>
           b == <<t>>
           c == <<s, t>>
<1>1. /\ a \in Texts /\ Len(a) = 1 /\ a[1] = s /\ b \in Texts /\ Len(b) = 1 /\ b[1] = t
      /\ c \in Texts /\ Len(c) = 2 /\ c[1] = s /\ c[2] = t
  BY DEF Texts
<1> HIDE DEF a, b, c
<1>2. /\ a \o b \in Texts /\ Len(a \o b) = 2
      /\ \A i \in 1 .. 2 : (a \o b)[i] = IF i <= 1 THEN a[i] ELSE b[i - 1]
  BY <1>1, ConcatProperties DEF Texts
<1>3. \A i \in 1 .. 2 : c[i] = (a \o b)[i]
  BY <1>1, <1>2
<1>4. c = a \o b
  BY <1>1, <1>2, <1>3, SeqEqual DEF Texts
<1> QED BY <1>4 DEF a, b, c

\* What stands before the value of a member, and behind that of the i-th of l children.
Label(n, m) == IF kind[n] = "object" THEN <<key[m], ":">> ELSE <<>>
Behind(i, l) == IF i = 0 \/ i = l THEN <<>> ELSE <<",">>

LEMMA WashedParts ==
  ASSUME NEW pretty \in BOOLEAN
  PROVE  /\ Blank \in Tokens /\ <<Blank>> \in Texts /\ NoBlanks(<<Blank>>) = <<>>
         /\ \A t \in {"[", "]", "{", "}", ",", ":"} :
              <<t>> \in Texts /\ Wash(pretty, <<t>>) = <<t>>
         /\ \A t \in Keys : /\ <<t, ":">> = <<t>> \o <<":">> /\ <<t, ":">> \in Texts
                            /\ Wash(pretty, <<t, ":">>) = <<t, ":">>
         /\ \A t \in {"[", "]", "{", "}", ",", ":"} :
              /\ <<t, Blank>> = <<t>> \o <<Blank>> /\ <<t, Blank>> \in Texts
              /\ NoBlanks(<<t, Blank>>) = <<t>>
<1>1. Blank \in Tokens /\ <<Blank>> \in Texts /\ NoBlanks(<<Blank>>) = <<>>
  <2>1. Blank \in Tokens
    BY DEF Tokens, Marks
  <2> QED BY <2>1, NoBlanksOf, TextAlgebra DEF Bit
<1>2. \A t \in {"[", "]", "{", "}", ",", ":"} : t \in Tokens /\ t \notin {Blank, Nul}
  BY TokensAre DEF Blank, Nul
<1>3. \A t \in {"[", "]", "{", "}", ",", ":"} :
        <<t>> \in Texts /\ Wash(pretty, <<t>>) = <<t>> /\ NoBlanks(<<t>>) = <<t>>
  BY <1>2, WashIs, NoBlanksOf, TextAlgebra DEF Bit
<1>4. \A t \in Keys : t \in Tokens /\ t \notin {Blank, Nul}
  BY TokensAre, KeysAssumption DEF Marks
<1>5. ASSUME NEW t \in Keys
      PROVE  /\ <<t, ":">> = <<t>> \o <<":">> /\ <<t, ":">> \in Texts
             /\ Wash(pretty, <<t, ":">>) = <<t, ":">>
  <2>1. <<t, ":">> = <<t>> \o <<":">>
    OBVIOUS
  <2>2. <<t>> \in Texts /\ <<":">> \in Texts /\ <<t>> \o <<":">> \in Texts
    BY <1>3, <1>4, TextAlgebra
  <2>3. Wash(pretty, <<t>>) = <<t>> /\ Wash(pretty, <<":">>) = <<":">>
    BY <1>3, <1>4, WashIs
  <2>4. Wash(pretty, <<t>> \o <<":">>) = <<t>> \o <<":">>
    <3> DEFINE u == <<t>>
               v == <<":">>
    <3>1. u \in Texts /\ v \in Texts /\ Wash(pretty, u) = u /\ Wash(pretty, v) = v
      BY <2>2, <2>3
    <3> HIDE DEF u, v
    <3>2. Wash(pretty, u \o v) = Wash(pretty, u) \o Wash(pretty, v)
      BY <3>1, WashIs
    <3>3. Wash(pretty, u \o v) = u \o v
      BY ONLY <3>1, <3>2
    <3> QED BY <3>3 DEF u, v
  <2> QED BY <2>1, <2>2, <2>4
<1>6. ASSUME NEW t \in {"[", "]", "{", "}", ",", ":"}
      PROVE  /\ <<t, Blank>> = <<t>> \o <<Blank>> /\ <<t, Blank>> \in Texts
             /\ NoBlanks(<<t, Blank>>) = <<t>>
  <2>1. <<t, Blank>> = <<t>> \o <<Blank>>
    BY <1>1, <1>2, PairIs
  <2>2. <<t>> \in Texts /\ <<t>> \o <<Blank>> \in Texts
    BY <1>1, <1>3, TextAlgebra
  <2>3. NoBlanks(<<t>> \o <<Blank>>) = <<t>> \o <<>>
    BY <1>1, <1>3, <2>2, NoBlanksConcat
  <2> QED BY <2>1, <2>2, <2>3, TextAlgebra
<1> QED BY <1>1, <1>3, <1>5, <1>6

LEMMA ItemWashed ==
  ASSUME Finished, NEW n \in Live, kind[n] \in Containers, NEW i \in 1 .. Len(Kids(n)),
         NEW level \in Nat, NEW pretty \in BOOLEAN, NEW value \in Texts
  PROVE  /\ PrintItem(n, i, value, pretty, level) \in Texts
         /\ Wash(pretty, PrintItem(n, i, value, pretty, level))
              = (Label(n, Kids(n)[i]) \o Wash(pretty, value)) \o Behind(i, Len(Kids(n)))
<1> DEFINE p == PrintItem(n, i, value, pretty, level)
           m == Kids(n)[i]
           l == Len(Kids(n))
           w == Wash(pretty, value)
           t == Behind(i, l)
           end == IF pretty THEN <<",", Blank>> ELSE <<",">>
           x == IF i = l THEN <<>> ELSE end
           y == IF i = l THEN <<Blank>> ELSE <<",", Blank>>
           name == <<key[m], ":">>
           a == Tabs(level + 1)
           b == <<Blank>>
<1>1. w \in Texts /\ value \in Texts
  BY WashIs
<1>2. i # 0
  <2>1. Len(Kids(n)) \in Nat
    BY KidLinks
  <2> QED BY <2>1
<1>3. end \in Texts /\ Wash(pretty, end) = <<",">>
  BY WashedParts DEF Wash
<1>4. x \in Texts /\ Wash(pretty, x) = t
  BY <1>2, <1>3, WashIs, TextAlgebra DEF Behind
<1>5. y \in Texts /\ NoBlanks(y) = t
  BY <1>2, WashedParts DEF Behind
<1>6. t \in Texts
  BY <1>4, WashIs
<1>7. CASE kind[n] = "array"
  <2>1. p = value \o x
    BY <1>7 DEF PrintItem
  <2>2. Label(n, m) = <<>>
    BY <1>7 DEF Label
  <2> HIDE DEF p, m, l, w, t, x
  <2>3. p \in Texts /\ Wash(pretty, p) = Wash(pretty, value) \o t
    BY <1>1, <1>4, <2>1, WashIs, TextAlgebra
  <2>4. Wash(pretty, p) = (Label(n, m) \o w) \o t
    BY <1>1, <2>2, <2>3, TextAlgebra DEF w
  <2> QED BY <2>3, <2>4 DEF p, m, w, t, l
<1>8. CASE kind[n] = "object"
  <2>1. name \in Texts /\ Wash(pretty, name) = name /\ Label(n, m) = name
    <3>1. key[m] \in Keys
      BY <1>8, NodesHold
    <3>2. Label(n, m) = name
      BY <1>8 DEF Label
    <3> HIDE DEF m
    <3> QED BY <3>1, <3>2, WashedParts
  <2>2. CASE ~pretty
    <3>1. p = (name \o value) \o x /\ w = value /\ t = x
      <4>1. p = (name \o value) \o (IF i = l THEN <<>> ELSE <<",">>)
        BY <1>8, <2>2 DEF PrintItem
      <4>2. w = value /\ t = x /\ x = IF i = l THEN <<>> ELSE <<",">>
        BY <1>4, <2>2 DEF Wash
      <4> QED BY <4>1, <4>2
    <3>2. Wash(pretty, p) = p
      BY <2>2 DEF Wash
    <3> HIDE DEF p, m, l, w, t, x, name
    <3>3. p \in Texts
      BY <1>1, <1>4, <2>1, <3>1, TextAlgebra
    <3>4. Wash(pretty, p) = (Label(n, m) \o w) \o t
      BY <2>1, <3>1, <3>2
    <3> QED BY <3>3, <3>4 DEF p, m, w, t, l
  <2>3. CASE pretty
    <3>1. p = (((a \o name) \o b) \o value) \o y
      BY <1>8, <2>3 DEF PrintItem
    <3>2. a \in Texts /\ NoBlanks(a) = <<>> /\ b \in Texts /\ NoBlanks(b) = <<>>
      <4>1. level + 1 \in Nat
        OBVIOUS
      <4> QED BY <4>1, NoBlanksOf, WashedParts
    <3>3. NoBlanks(name) = name /\ NoBlanks(value) = w /\ Wash(pretty, p) = NoBlanks(p)
      BY <2>1, <2>3 DEF Wash
    <3> HIDE DEF p, m, l, w, t, y, name, a, b
    <3>4. a \o name \in Texts /\ NoBlanks(a \o name) = name
      <4>1. a \o name \in Texts /\ NoBlanks(a \o name) = NoBlanks(a) \o NoBlanks(name)
        BY <2>1, <3>2, NoBlanksConcat, TextAlgebra
      <4>2. NoBlanks(a) \o NoBlanks(name) = <<>> \o name
        BY ONLY <3>2, <3>3
      <4>3. <<>> \o name = name
        BY ONLY <2>1, TextAlgebra
      <4> QED BY ONLY <4>1, <4>2, <4>3
    <3> DEFINE c == a \o name
    <3>5. c \in Texts /\ NoBlanks(c) = name
      BY <3>4
    <3> HIDE DEF c
    <3>6. c \o b \in Texts /\ NoBlanks(c \o b) = name
      <4>1. c \o b \in Texts /\ NoBlanks(c \o b) = NoBlanks(c) \o NoBlanks(b)
        BY <3>2, <3>5, NoBlanksConcat, TextAlgebra
      <4>2. NoBlanks(c) \o NoBlanks(b) = name \o <<>>
        BY ONLY <3>2, <3>5
      <4>3. name \o <<>> = name
        BY ONLY <2>1, TextAlgebra
      <4> QED BY ONLY <4>1, <4>2, <4>3
    <3> DEFINE d == c \o b
    <3>9. d \in Texts /\ NoBlanks(d) = name
      BY <3>6
    <3> HIDE DEF d
    <3>10. d \o value \in Texts /\ NoBlanks(d \o value) = name \o w
      <4>1. d \o value \in Texts /\ NoBlanks(d \o value) = NoBlanks(d) \o NoBlanks(value)
        BY <1>1, <3>9, NoBlanksConcat, TextAlgebra
      <4> QED BY ONLY <3>3, <3>9, <4>1
    <3> DEFINE e == d \o value
    <3>11. e \in Texts /\ NoBlanks(e) = name \o w
      BY <3>10
    <3> HIDE DEF e
    <3>12. p = e \o y
      BY <3>1 DEF c, d, e
    <3>7. p \in Texts /\ NoBlanks(p) = (name \o w) \o t
      <4>1. e \o y \in Texts /\ NoBlanks(e \o y) = NoBlanks(e) \o NoBlanks(y)
        BY <1>5, <3>11, NoBlanksConcat, TextAlgebra
      <4> QED BY ONLY <1>5, <3>11, <3>12, <4>1
    <3>8. Wash(pretty, p) = (Label(n, m) \o w) \o t
      BY <2>1, <3>3, <3>7
    <3> QED BY <3>7, <3>8 DEF p, m, w, t, l
  <2> QED BY <2>2, <2>3
<1> QED BY <1>7, <1>8 DEF Containers

Regrouped(a, b, c, d, e) == (a \o b) \o ((c \o d) \o e) = (a \o ((b \o c) \o d)) \o e

LEMMA Regroup ==
  ASSUME NEW a \in Texts, NEW b \in Texts, NEW c \in Texts, NEW d \in Texts, NEW e \in Texts
  PROVE  Regrouped(a, b, c, d, e)
<1>1. b \o c \in Texts /\ c \o d \in Texts /\ (b \o c) \o d = b \o (c \o d)
  BY ONLY TextAlgebra
<1>2. (a \o b) \o ((c \o d) \o e) = a \o (b \o ((c \o d) \o e))
  <2>1. (c \o d) \o e \in Texts
    BY ONLY <1>1, TextAlgebra
  <2> DEFINE x == (c \o d) \o e
  <2> HIDE DEF x
  <2>2. x \in Texts
    BY <2>1 DEF x
  <2>3. (a \o b) \o x = a \o (b \o x)
    BY ONLY <2>2, TextAlgebra
  <2> QED BY <2>3 DEF x
<1>3. b \o ((c \o d) \o e) = (b \o (c \o d)) \o e
  <2> DEFINE x == c \o d
  <2>1. x \in Texts
    BY <1>1
  <2> HIDE DEF x
  <2>2. b \o (x \o e) = (b \o x) \o e
    BY ONLY <2>1, TextAlgebra
  <2> QED BY <2>2 DEF x
<1>4. a \o (((b \o c) \o d) \o e) = (a \o ((b \o c) \o d)) \o e
  <2> DEFINE x == (b \o c) \o d
  <2>1. x \in Texts
    <3> DEFINE y == b \o c
    <3>1. y \in Texts
      BY <1>1
    <3> HIDE DEF y
    <3>2. y \o d \in Texts
      BY ONLY <3>1, TextAlgebra
    <3> QED BY <3>2 DEF y
  <2> HIDE DEF x
  <2>2. a \o (x \o e) = (a \o x) \o e
    BY ONLY <2>1, TextAlgebra
  <2> QED BY <2>2 DEF x
<1> QED BY ONLY <1>1, <1>2, <1>3, <1>4 DEF Regrouped

LEMMA ShownParts ==
  /\ \A t \in {"[", "]", "{", "}", ",", ":"} : Shown(<<t>>) = <<t>>
  /\ \A t \in Keys : Shown(<<t, ":">>) = <<t, ":">>
<1>1. \A t \in {"[", "]", "{", "}", ",", ":"} : t \in Tokens /\ Printed(t) = t
  BY TokensAre DEF Printed, Huge
<1>2. \A t \in Keys : t \in Tokens /\ Printed(t) = t
  BY TokensAre, KeysAssumption DEF Printed, Scalars
<1>3. ASSUME NEW t \in Keys PROVE Shown(<<t, ":">>) = <<t, ":">>
  <2> DEFINE u == <<t>>
             v == <<":">>
  <2>1. u \in Texts /\ v \in Texts /\ Shown(u) = u /\ Shown(v) = v
    BY <1>1, <1>2, ShownConcat, TextAlgebra
  <2>2. <<t, ":">> = u \o v
    BY <1>1, <1>2, PairIs
  <2> HIDE DEF u, v
  <2>3. Shown(u \o v) = Shown(u) \o Shown(v)
    BY <2>1, ShownConcat
  <2> QED BY ONLY <2>1, <2>2, <2>3
<1> QED BY <1>1, <1>3, ShownConcat

-----------------------------------------------------------------------------
(* The items of a container, printed and spelt. *)

SpeltItems(W, n) == FlattenSeq([i \in 1 .. Len(Kids(n)) |-> Item(W, n, i)])
PrintedItems(print, n, level, pretty) ==
  FlattenSeq([i \in 1 .. Len(Kids(n)) |->
                PrintItem(n, i, print[<<Kids(n)[i], level + 1>>], pretty, level)])

\* The item of a child, as its text is spelt.
LEMMA ItemShown ==
  ASSUME Finished, NEW n \in Live, kind[n] \in Containers, NEW i \in 1 .. Len(Kids(n)),
         NEW W \in [NodeIds -> Texts], NEW l, l = Len(Kids(n))
  PROVE  /\ Item(W, n, i) \in Texts /\ Label(n, Kids(n)[i]) \in Texts
         /\ Behind(i - 1, l) \in Texts /\ Shown(W[Kids(n)[i]]) \in Texts
         /\ Shown(Item(W, n, i))
              = (Behind(i - 1, l) \o Label(n, Kids(n)[i])) \o Shown(W[Kids(n)[i]])
<1> DEFINE m == Kids(n)[i]
           c == IF i = 1 THEN <<>> ELSE <<",">>
           q == Label(n, m)
           w == W[m]
<1>1. l \in Nat /\ m \in NodeIds /\ i \in 1 .. l
  BY KidLinks, FinishedIsATree, InvFacts DEF Linked
<1>2. Item(W, n, i) = (c \o q) \o w
  BY DEF Item, Label
<1>3. c \in Texts /\ Shown(c) = c
  BY WashedParts, ShownParts, ShownConcat, TextAlgebra
<1>4. c = Behind(i - 1, l)
  <2>1. i = 1 <=> i - 1 = 0
    BY <1>1
  <2>2. i - 1 # l
    BY <1>1
  <2> QED BY <2>1, <2>2 DEF Behind
<1>5. q \in Texts /\ Shown(q) = q
  <2>1. CASE kind[n] = "object"
    <3>1. key[m] \in Keys
      BY <2>1, NodesHold
    <3>2. q = <<key[m], ":">>
      BY <2>1 DEF Label
    <3> HIDE DEF q, m
    <3> QED BY <3>1, <3>2, WashedParts, ShownParts
  <2>2. CASE kind[n] # "object"
    <3>1. q = <<>>
      BY <2>2 DEF Label
    <3> QED BY <3>1, ShownConcat, TextAlgebra
  <2> QED BY <2>1, <2>2
<1>6. w \in Texts /\ Shown(w) \in Texts
  BY <1>1, ShownConcat
<1> HIDE DEF c, q, w, m
<1>7. c \o q \in Texts /\ Shown(c \o q) = c \o q
  <2>1. c \o q \in Texts /\ Shown(c \o q) = Shown(c) \o Shown(q)
    BY <1>3, <1>5, ShownConcat, TextAlgebra
  <2> QED BY ONLY <1>3, <1>5, <2>1
<1> DEFINE x == c \o q
<1>8. x \in Texts /\ Shown(x) = x
  BY <1>7
<1> HIDE DEF x
<1>9. x \o w \in Texts /\ Shown(x \o w) = x \o Shown(w)
  <2>1. x \o w \in Texts /\ Shown(x \o w) = Shown(x) \o Shown(w)
    BY <1>6, <1>8, ShownConcat, TextAlgebra
  <2> QED BY ONLY <1>8, <2>1
<1>10. Item(W, n, i) \in Texts /\ Shown(Item(W, n, i)) = (c \o q) \o Shown(w)
  BY <1>2, <1>9 DEF x
<1> QED BY <1>3, <1>4, <1>5, <1>6, <1>10 DEF m, q, w

\* The values of the children of n, printed, are their texts but for formatting.
KidsPrinted(print, W, n, level, pretty) ==
  \A i \in 1 .. Len(Kids(n)) :
    /\ print[<<Kids(n)[i], level + 1>>] \in Texts
    /\ Wash(pretty, print[<<Kids(n)[i], level + 1>>]) = Shown(W[Kids(n)[i]])

\* The comma that a print has behind an item, a text has in front of the next.
LEMMA ItemsPrinted ==
  ASSUME Finished, NEW n \in Live, kind[n] \in Containers, NEW level \in Nat,
         NEW pretty \in BOOLEAN, NEW W \in [NodeIds -> Texts], NEW print,
         KidsPrinted(print, W, n, level, pretty)
  PROVE  /\ PrintedItems(print, n, level, pretty) \in Texts /\ SpeltItems(W, n) \in Texts
         /\ Wash(pretty, PrintedItems(print, n, level, pretty)) = Shown(SpeltItems(W, n))
<1> DEFINE l == Len(Kids(n))
           S(i) == Item(W, n, i)
           R(i) == PrintItem(n, i, print[<<Kids(n)[i], level + 1>>], pretty, level)
           B(i) == Behind(i, l)
           N(i) == Label(n, Kids(n)[i])
           V(i) == Shown(W[Kids(n)[i]])
           spelt == [i \in 1 .. l |-> S(i)]
           prints == [i \in 1 .. l |-> R(i)]
<1>1. l \in Nat
  BY KidLinks
<1>2. ASSUME NEW i \in 1 .. l
      PROVE  /\ S(i) \in Texts /\ N(i) \in Texts /\ B(i - 1) \in Texts /\ V(i) \in Texts
             /\ Shown(S(i)) = (B(i - 1) \o N(i)) \o V(i)
  BY ItemShown
<1>3. ASSUME NEW i \in 1 .. l
      PROVE  R(i) \in Texts /\ Wash(pretty, R(i)) = (N(i) \o V(i)) \o B(i)
  <2> DEFINE v == print[<<Kids(n)[i], level + 1>>]
  <2>1. v \in Texts /\ Wash(pretty, v) = V(i)
    BY DEF KidsPrinted
  <2> HIDE DEF v
  <2>2. /\ PrintItem(n, i, v, pretty, level) \in Texts
        /\ Wash(pretty, PrintItem(n, i, v, pretty, level)) = (N(i) \o Wash(pretty, v)) \o B(i)
    BY <2>1, ItemWashed
  <2> QED BY <2>1, <2>2 DEF v
<1>4. \A i \in 0 .. l : B(i) \in Texts
  BY WashedParts, TextAlgebra DEF Behind
<1>5. B(0) = <<>> /\ B(l) = <<>>
  BY DEF Behind
<1> HIDE DEF S, R, B, N, V, l
<1>6. spelt \in Seq(Texts) /\ Len(spelt) = l /\ \A i \in 1 .. l : spelt[i] = S(i)
  BY <1>1, <1>2
<1>7. prints \in Seq(Texts) /\ Len(prints) = l /\ \A i \in 1 .. l : prints[i] = R(i)
  BY <1>1, <1>3
<1> HIDE DEF spelt, prints
<1>8. PICK at \in [0 .. l -> Texts] : Joins(spelt, at)
  BY <1>6, JoinsExist DEF Texts
<1>9. PICK out \in [0 .. l -> Texts] : Joins(prints, out)
  BY <1>7, JoinsExist DEF Texts
<1>10. FlattenSeq(spelt) = at[l] /\ FlattenSeq(prints) = out[l]
  BY <1>6, <1>7, <1>8, <1>9, FlattenIsLast DEF Texts
<1>11. /\ at[0] = <<>> /\ out[0] = <<>>
       /\ \A i \in 1 .. l : at[i] = at[i - 1] \o S(i) /\ out[i] = out[i - 1] \o R(i)
  BY <1>6, <1>7, <1>8, <1>9 DEF Joins
<1> DEFINE Same(j) == Wash(pretty, out[j]) = Shown(at[j]) \o B(j)
           Good == {j \in Nat : j <= l => Same(j)}
<1>12. 0 \in Good
  <2>1. Wash(pretty, <<>>) = <<>> /\ Shown(<<>>) = <<>> /\ <<>> \o <<>> = <<>>
    BY WashIs, ShownConcat, TextAlgebra
  <2> QED BY <1>5, <1>11, <2>1
<1>13. ASSUME NEW j \in Nat, j \in Good PROVE j + 1 \in Good
  <2> SUFFICES ASSUME j + 1 <= l PROVE Same(j + 1)
    OBVIOUS
  <2> DEFINE i == j + 1
             a == Shown(at[j])
  <2>1. i \in 1 .. l /\ i - 1 = j /\ j \in 0 .. l /\ j <= l
    BY <1>1
  <2>2. at[i] = at[j] \o S(i) /\ out[i] = out[j] \o R(i) /\ at[j] \in Texts /\ out[j] \in Texts
    <3> HIDE DEF i
    <3> QED BY <1>11, <2>1
  <2>3. Wash(pretty, out[j]) = a \o B(j)
    BY <1>13, <2>1
  <2> HIDE DEF i
  <2>4. /\ S(i) \in Texts /\ N(i) \in Texts /\ B(j) \in Texts /\ V(i) \in Texts /\ B(i) \in Texts
        /\ Shown(S(i)) = (B(j) \o N(i)) \o V(i)
        /\ R(i) \in Texts /\ Wash(pretty, R(i)) = (N(i) \o V(i)) \o B(i)
    <3>1. i \in 0 .. l
      BY <2>1
    <3> QED BY <1>2, <1>3, <1>4, <2>1, <3>1
  <2>5. a \in Texts
    BY <2>2, ShownConcat
  <2>6. Wash(pretty, out[i]) = (a \o B(j)) \o ((N(i) \o V(i)) \o B(i))
    <3>1. Wash(pretty, out[j] \o R(i)) = Wash(pretty, out[j]) \o Wash(pretty, R(i))
      BY <2>2, <2>4, WashIs
    <3> QED BY ONLY <2>2, <2>3, <2>4, <3>1
  <2>7. Shown(at[i]) = a \o ((B(j) \o N(i)) \o V(i))
    <3>1. Shown(at[j] \o S(i)) = Shown(at[j]) \o Shown(S(i))
      BY <2>2, <2>4, ShownConcat
    <3> QED BY ONLY <2>2, <2>4, <3>1 DEF a
  <2> HIDE DEF a
  <2>8. (a \o B(j)) \o ((N(i) \o V(i)) \o B(i)) = (a \o ((B(j) \o N(i)) \o V(i))) \o B(i)
    <3> DEFINE b == B(j)
               c == N(i)
               d == V(i)
               e == B(i)
    <3>1. a \in Texts /\ b \in Texts /\ c \in Texts /\ d \in Texts /\ e \in Texts
      BY <2>4, <2>5
    <3> HIDE DEF b, c, d, e
    <3>2. Regrouped(a, b, c, d, e)
      BY ONLY <3>1, Regroup
    <3> QED BY <3>2 DEF Regrouped, b, c, d, e
  <2>9. Wash(pretty, out[i]) = Shown(at[i]) \o B(i)
    BY ONLY <2>6, <2>7, <2>8
  <2> QED BY <2>9 DEF i
<1>14. Nat \subseteq Good
  <2> HIDE DEF Good
  <2> QED BY <1>12, <1>13, SetInduction
<1>15. Same(l)
  BY <1>1, <1>14
<1>16. Wash(pretty, out[l]) = Shown(at[l]) /\ at[l] \in Texts /\ out[l] \in Texts
  <2>1. at[l] \in Texts /\ out[l] \in Texts
    BY <1>1
  <2>2. Shown(at[l]) \o <<>> = Shown(at[l])
    BY <2>1, ShownConcat, TextAlgebra
  <2> QED BY <1>5, <1>15, <2>1, <2>2
<1>17. PrintedItems(print, n, level, pretty) = FlattenSeq(prints)
  BY DEF PrintedItems, prints, R, l
<1>18. SpeltItems(W, n) = FlattenSeq(spelt)
  BY DEF SpeltItems, spelt, S, l
<1> QED BY <1>10, <1>16, <1>17, <1>18

-----------------------------------------------------------------------------
(* A node printed, when its children are. *)

LEMMA NotEmpty ==
  ASSUME NEW a \in Texts, NEW t \in Tokens
  PROVE  a \o <<t>> # <<>>
<1> DEFINE b == <<t>>
<1>1. b \in Texts /\ Len(b) = 1
  BY TextAlgebra
<1> HIDE DEF b
<1>2. Len(a \o b) = Len(a) + Len(b) /\ Len(a) \in Nat
  BY <1>1, ConcatProperties DEF Texts
<1>3. Len(a \o b) # 0
  BY <1>1, <1>2
<1>4. Len(<<>>) = 0
  OBVIOUS
<1>5. a \o b # <<>>
  BY ONLY <1>3, <1>4
<1> QED BY <1>5 DEF b

Brackets == {"[", "]", "{", "}", ",", ":"}

Framed(o, x, c) == (<<o>> \o x) \o <<c>>

LEMMA FramePrinted ==
  ASSUME NEW pretty \in BOOLEAN, NEW o \in Brackets, NEW c \in Brackets,
         NEW x \in Texts, NEW y \in Texts, Wash(pretty, x) = Shown(y)
  PROVE  /\ Framed(o, x, c) \in Texts /\ Framed(o, x, c) # <<>>
         /\ Wash(pretty, Framed(o, x, c)) = Shown(Framed(o, y, c))
<1> DEFINE a == <<o>>
           b == <<c>>
<1>1. /\ a \in Texts /\ b \in Texts /\ Wash(pretty, a) = a /\ Wash(pretty, b) = b
      /\ Shown(a) = a /\ Shown(b) = b
  BY WashedParts, ShownParts DEF Brackets
<1>2. c \in Tokens
  BY TokensAre DEF Brackets
<1> HIDE DEF a
<1>3. a \o x \in Texts /\ (a \o x) \o b # <<>>
  BY <1>1, <1>2, NotEmpty, TextAlgebra
<1> HIDE DEF b
<1>4. a \o x \in Texts /\ Wash(pretty, a \o x) = a \o Shown(y)
  <2>1. Wash(pretty, a \o x) = Wash(pretty, a) \o Wash(pretty, x)
    BY ONLY <1>1, WashIs, pretty \in BOOLEAN, x \in Texts
  <2> QED BY ONLY <1>1, <1>3, <2>1, Wash(pretty, x) = Shown(y)
<1>5. a \o y \in Texts /\ Shown(a \o y) = a \o Shown(y)
  <2>1. a \o y \in Texts /\ Shown(a \o y) = Shown(a) \o Shown(y)
    BY <1>1, ShownConcat, TextAlgebra
  <2> QED BY ONLY <1>1, <2>1
<1> DEFINE u == a \o x
           v == a \o y
<1>6. u \in Texts /\ v \in Texts /\ Wash(pretty, u) = Shown(v)
  BY <1>4, <1>5
<1> HIDE DEF u, v
<1>7. u \o b \in Texts /\ Wash(pretty, u \o b) = Wash(pretty, u) \o Wash(pretty, b)
  <2>1. u \o b \in Texts
    BY ONLY <1>1, <1>6, TextAlgebra
  <2>2. Wash(pretty, u \o b) = Wash(pretty, u) \o Wash(pretty, b)
    BY ONLY <1>1, <1>6, WashIs, pretty \in BOOLEAN
  <2> QED BY <2>1, <2>2
<1>8. Shown(v \o b) = Shown(v) \o Shown(b)
  BY <1>1, <1>6, ShownConcat
<1>9. Wash(pretty, u \o b) = Shown(v \o b)
  BY ONLY <1>1, <1>6, <1>7, <1>8
<1> QED BY <1>3, <1>7, <1>9 DEF u, v, a, b, Framed

\* Formatting puts blanks behind the opening bracket and before the closing one.
LEMMA FormattedFrame ==
  ASSUME NEW level \in Nat, NEW x \in Texts, NEW y \in Texts, NoBlanks(x) = Shown(y)
  PROVE  /\ ((<<"{", Blank>> \o x) \o Tabs(level)) \o <<"}">> \in Texts
         /\ ((<<"{", Blank>> \o x) \o Tabs(level)) \o <<"}">> # <<>>
         /\ NoBlanks(((<<"{", Blank>> \o x) \o Tabs(level)) \o <<"}">>)
              = Shown((<<"{">> \o y) \o <<"}">>)
<1> DEFINE o == <<"{", Blank>>
           a == <<"{">>
           c == <<"}">>
           t == Tabs(level)
           w == Shown(y)
<1>1. /\ o \in Texts /\ NoBlanks(o) = a /\ a \in Texts /\ c \in Texts
      /\ NoBlanks(c) = c /\ Shown(a) = a /\ Shown(c) = c
  <2>1. /\ o \in Texts /\ NoBlanks(o) = a /\ a \in Texts /\ c \in Texts
        /\ Wash(TRUE, c) = c /\ Shown(a) = a /\ Shown(c) = c
    BY WashedParts, ShownParts
  <2> QED BY <2>1 DEF Wash
<1>2. t \in Texts /\ NoBlanks(t) = <<>> /\ w \in Texts
  BY NoBlanksOf, ShownConcat
<1>3. "}" \in Tokens
  BY TokensAre
<1> HIDE DEF o, a, t, w
<1>4. o \o x \in Texts /\ NoBlanks(o \o x) = a \o w
  <2>1. o \o x \in Texts /\ NoBlanks(o \o x) = NoBlanks(o) \o NoBlanks(x)
    BY <1>1, NoBlanksConcat, TextAlgebra
  <2>2. NoBlanks(x) = w
    BY DEF w
  <2> QED BY ONLY <1>1, <2>1, <2>2
<1> DEFINE u == o \o x
           v == a \o w
<1>5. u \in Texts /\ v \in Texts /\ NoBlanks(u) = v
  BY <1>1, <1>2, <1>4, TextAlgebra
<1> HIDE DEF u, v
<1>6. u \o t \in Texts /\ NoBlanks(u \o t) = v
  <2>1. u \o t \in Texts /\ NoBlanks(u \o t) = NoBlanks(u) \o NoBlanks(t)
    BY <1>2, <1>5, NoBlanksConcat, TextAlgebra
  <2>2. NoBlanks(u) \o NoBlanks(t) = v \o <<>>
    BY ONLY <1>2, <1>5
  <2>3. v \o <<>> = v
    BY ONLY <1>5, TextAlgebra
  <2> QED BY ONLY <2>1, <2>2, <2>3
<1> DEFINE z == u \o t
<1>7. z \in Texts /\ NoBlanks(z) = v
  BY <1>6
<1> HIDE DEF z
<1>8. z \o c # <<>>
  BY <1>3, <1>7, NotEmpty
<1> HIDE DEF c
<1>9. z \o c \in Texts /\ NoBlanks(z \o c) = v \o c
  <2>1. z \o c \in Texts /\ NoBlanks(z \o c) = NoBlanks(z) \o NoBlanks(c)
    BY <1>1, <1>7, NoBlanksConcat, TextAlgebra
  <2> QED BY ONLY <1>1, <1>7, <2>1
<1>10. Shown((a \o y) \o c) = v \o c
  <2>1. a \o y \in Texts /\ Shown(a \o y) = Shown(a) \o Shown(y)
    BY <1>1, ShownConcat, TextAlgebra
  <2> DEFINE s == a \o y
  <2>2. s \in Texts /\ Shown(s) = Shown(a) \o Shown(y)
    BY <2>1
  <2> HIDE DEF s
  <2>3. Shown(s) = v
    BY ONLY <1>1, <2>2 DEF v, w
  <2>4. Shown(s \o c) = Shown(s) \o Shown(c)
    BY <1>1, <2>2, ShownConcat
  <2>5. Shown(s \o c) = v \o c
    BY ONLY <1>1, <2>3, <2>4
  <2> QED BY <2>5 DEF s
<1> QED BY <1>8, <1>9, <1>10 DEF z, u, o, a, t, c

\* Every child of n has a print.
KidsPrint(print, n, level) ==
  \A i \in 1 .. Len(Kids(n)) : print[<<Kids(n)[i], level + 1>>] # Nothing

LEMMA NodePrinted ==
  ASSUME Finished, NEW n \in Live, NEW level \in Nat, NEW pretty \in BOOLEAN,
         NEW W \in [NodeIds -> Texts], NEW print,
         kind[n] \in Containers => level < NestingLimit,
         KidsPrinted(print, W, n, level, pretty), KidsPrint(print, n, level)
  PROVE  /\ PrintNode(print, n, level, pretty) \in Texts
         /\ PrintNode(print, n, level, pretty) # Nothing
         /\ Wash(pretty, PrintNode(print, n, level, pretty)) = Shown(Spell(W, n))
<1> DEFINE p == PrintNode(print, n, level, pretty)
           items == PrintedItems(print, n, level, pretty)
           spelt == SpeltItems(W, n)
<1>1. CASE kind[n] \notin Containers
  <2>1. kind[n] \in Scalars \cup Keys
    BY <1>1, NodesHold DEF Contents
  <2>2. p = <<Printed(kind[n])>> /\ Spell(W, n) = <<kind[n]>>
    <3>1. kind[n] # "array" /\ kind[n] # "object"
      BY <1>1 DEF Containers
    <3> QED BY <3>1 DEF PrintNode, PrintScalar, Printed, Spell
  <2> DEFINE k == kind[n]
             t == Printed(k)
  <2>3. k \in Tokens /\ t \in Tokens /\ t \notin {Blank, Nul}
    <3>1. k \in Tokens
      BY <2>1, TokensAre
    <3>2. \A x \in Scalars \cup Keys : x \notin {Blank, Nul}
      BY KeysAssumption DEF Marks, Scalars, Blank, Nul, Scalar, Huge
    <3>3. Scalar \in Scalars
      BY DEF Scalars
    <3>4. t \in Scalars \cup Keys
      BY <2>1, <3>3 DEF Printed
    <3> QED BY <3>1, <3>2, <3>4, TokensAre
  <2> HIDE DEF k, t
  <2>4. <<t>> \in Texts /\ Wash(pretty, <<t>>) = <<t>> /\ Shown(<<k>>) = <<t>>
    BY <2>3, WashIs, ShownConcat, TextAlgebra DEF t
  <2>5. p = <<t>> /\ Spell(W, n) = <<k>>
    BY <2>2 DEF k, t
  <2>6. <<t>> # <<>>
    OBVIOUS
  <2> QED BY <2>4, <2>5, <2>6 DEF Nothing
<1>2. CASE kind[n] \in Containers
  <2>1. items \in Texts /\ spelt \in Texts /\ Wash(pretty, items) = Shown(spelt)
    BY <1>2, ItemsPrinted
  <2>2. PrintsDeeper(level)
    BY <1>2 DEF PrintsDeeper
  <2>3. CASE kind[n] = "array"
    <3>1. p = Framed("[", items, "]")
      BY <2>2, <2>3 DEF PrintNode, PrintedItems, KidsPrint, Framed
    <3>2. Spell(W, n) = Framed("[", spelt, "]")
      BY <2>3 DEF Spell, SpeltItems, Framed
    <3> HIDE DEF p, items, spelt
    <3>3. "[" \in Brackets /\ "]" \in Brackets
      BY DEF Brackets
    <3>4. /\ Framed("[", items, "]") \in Texts /\ Framed("[", items, "]") # <<>>
          /\ Wash(pretty, Framed("[", items, "]")) = Shown(Framed("[", spelt, "]"))
      BY ONLY <2>1, <3>3, FramePrinted, pretty \in BOOLEAN
    <3>5. p \in Texts /\ p # Nothing /\ Wash(pretty, p) = Shown(Spell(W, n))
      BY <3>1, <3>2, <3>4 DEF Nothing
    <3> QED BY <3>5 DEF p
  <2>4. CASE kind[n] = "object" /\ ~pretty
    <3>1. p = Framed("{", items, "}")
      BY <2>2, <2>4 DEF PrintNode, PrintedItems, KidsPrint, Framed
    <3>2. Spell(W, n) = Framed("{", spelt, "}")
      BY <2>4 DEF Spell, SpeltItems, Framed
    <3> HIDE DEF p, items, spelt
    <3> DEFINE o == "{"
               c == "}"
    <3>3. o \in Brackets /\ c \in Brackets
      BY DEF Brackets
    <3> HIDE DEF o, c
    <3>6. /\ Framed(o, items, c) \in Texts /\ Framed(o, items, c) # <<>>
          /\ Wash(pretty, Framed(o, items, c)) = Shown(Framed(o, spelt, c))
      BY ONLY <2>1, <3>3, FramePrinted, pretty \in BOOLEAN
    <3>4. /\ Framed("{", items, "}") \in Texts /\ Framed("{", items, "}") # <<>>
          /\ Wash(pretty, Framed("{", items, "}")) = Shown(Framed("{", spelt, "}"))
      BY ONLY <3>6 DEF o, c
    <3>5. p \in Texts /\ p # Nothing /\ Wash(pretty, p) = Shown(Spell(W, n))
      BY <3>1, <3>2, <3>4 DEF Nothing
    <3> QED BY <3>5 DEF p
  <2>5. CASE kind[n] = "object" /\ pretty
    <3>1. p = ((<<"{", Blank>> \o items) \o Tabs(level)) \o <<"}">>
      BY <2>2, <2>5 DEF PrintNode, PrintedItems, KidsPrint
    <3>2. Spell(W, n) = (<<"{">> \o spelt) \o <<"}">>
      BY <2>5 DEF Spell, SpeltItems
    <3>3. NoBlanks(items) = Shown(spelt) /\ Wash(pretty, p) = NoBlanks(p)
      BY <2>1, <2>5 DEF Wash
    <3> HIDE DEF p, items, spelt
    <3>4. /\ ((<<"{", Blank>> \o items) \o Tabs(level)) \o <<"}">> \in Texts
          /\ ((<<"{", Blank>> \o items) \o Tabs(level)) \o <<"}">> # <<>>
          /\ NoBlanks(((<<"{", Blank>> \o items) \o Tabs(level)) \o <<"}">>)
               = Shown((<<"{">> \o spelt) \o <<"}">>)
      BY <2>1, <3>3, FormattedFrame
    <3>5. p \in Texts /\ p # Nothing /\ Wash(pretty, p) = Shown(Spell(W, n))
      BY <3>1, <3>2, <3>3, <3>4 DEF Nothing
    <3> QED BY <3>5 DEF p
  <2> QED BY <1>2, <2>3, <2>4, <2>5 DEF Containers
<1> QED BY <1>1, <1>2

\* A print depends on the prints of the children.
LEMMA PrintIsLocal ==
  ASSUME NEW n, NEW level, NEW pretty, NEW g, NEW h,
         \A i \in 1 .. Len(Kids(n)) : g[<<Kids(n)[i], level + 1>>] = h[<<Kids(n)[i], level + 1>>]
  PROVE  PrintNode(g, n, level, pretty) = PrintNode(h, n, level, pretty)
<1> DEFINE l == Len(Kids(n))
           R(f, i) == PrintItem(n, i, f[<<Kids(n)[i], level + 1>>], pretty, level)
<1>1. \A i \in 1 .. l : R(g, i) = R(h, i)
  OBVIOUS
<1>2. [i \in 1 .. l |-> R(g, i)] = [i \in 1 .. l |-> R(h, i)]
  <2> HIDE DEF R, l
  <2> QED BY <1>1
<1>3. PrintedItems(g, n, level, pretty) = PrintedItems(h, n, level, pretty)
  BY <1>2 DEF PrintedItems
<1>4. (\E i \in 1 .. l : g[<<Kids(n)[i], level + 1>>] = Nothing)
        <=> (\E i \in 1 .. l : h[<<Kids(n)[i], level + 1>>] = Nothing)
  OBVIOUS
<1> DEFINE Out(empty, items) ==
             IF n \notin Live THEN Nothing
             ELSE IF kind[n] \notin {"array", "object"} THEN PrintScalar(n)
             ELSE IF ~PrintsDeeper(level) \/ empty THEN Nothing
             ELSE IF kind[n] = "array" THEN <<"[">> \o items \o <<"]">>
             ELSE IF pretty THEN <<"{", Blank>> \o items \o Tabs(level) \o <<"}">>
             ELSE <<"{">> \o items \o <<"}">>
<1>5. ASSUME NEW f
      PROVE PrintNode(f, n, level, pretty) =
              Out(\E i \in 1 .. l : f[<<Kids(n)[i], level + 1>>] = Nothing,
                  PrintedItems(f, n, level, pretty))
  BY DEF PrintNode, PrintedItems
<1> QED BY <1>3, <1>4, <1>5

-----------------------------------------------------------------------------
(* The prints of a finished tree. *)

PrintOf(pretty) ==
  CHOOSE print : print = [at \in NodeIds \X Nat |-> PrintNode(print, at[1], at[2], pretty)]

LEMMA PrintIsPrintOf == \A n, pretty : PrintValue(n, pretty) = PrintOf(pretty)[<<n, 0>>]
BY DEF PrintValue, PrintOf

LEMMA PrintExists ==
  ASSUME Finished, NEW pretty
  PROVE  \E print : print = [at \in NodeIds \X Nat |-> PrintNode(print, at[1], at[2], pretty)]
<1> DEFINE Prints(g) == [at \in NodeIds \X Nat |-> PrintNode(g, at[1], at[2], pretty)]
           Right(g, r) == \A n \in NodeIds, level \in Nat :
                            Height(n) < r => g[<<n, level>>] = Prints(g)[<<n, level>>]
           S == {r \in Nat : \E g : Right(g, r)}
<1>0. \A n \in NodeIds :
        /\ Height(n) \in Nat /\ Height(n) < MaxNodes + 1
        /\ \A i \in 1 .. Len(Kids(n)) : Kids(n)[i] \in NodeIds /\ Height(Kids(n)[i]) \in Nat
             /\ Height(Kids(n)[i]) < Height(n)
  <2> SUFFICES ASSUME NEW n \in NodeIds
               PROVE  /\ Height(n) \in Nat /\ Height(n) < MaxNodes + 1
                      /\ \A i \in 1 .. Len(Kids(n)) : Kids(n)[i] \in NodeIds
                           /\ Height(Kids(n)[i]) \in Nat /\ Height(Kids(n)[i]) < Height(n)
    OBVIOUS
  <2>1. TreeInv
    BY FinishedIsATree
  <2>2. Rank(n, n) <= MaxNodes + MaxNodes
    BY RankFalls
  <2>3. /\ Height(n) \in Nat
        /\ \A i \in 1 .. Len(Kids(n)) : Kids(n)[i] \in NodeIds /\ Height(Kids(n)[i]) \in Nat
             /\ Height(Kids(n)[i]) < Height(n)
    BY <2>1, HeightFalls, KidFacts, InvFacts
  <2> HIDE DEF Height
  <2> QED BY <2>2, <2>3, MaxNodesAssumption DEF Rank
<1> HIDE DEF Height
<1>9. \A g : \A n \in NodeIds, level \in Nat :
        Prints(g)[<<n, level>>] = PrintNode(g, n, level, pretty)
  OBVIOUS
<1>1. 0 \in S
  <2>1. Right(NodeIds, 0)
    BY <1>0
  <2> QED BY <2>1
<1>2. ASSUME NEW r \in Nat, r \in S PROVE r + 1 \in S
  <2>1. PICK g : Right(g, r)
    BY <1>2
  <2> DEFINE h == Prints(g)
  <2>2. ASSUME NEW n \in NodeIds, NEW level \in Nat, Height(n) < r + 1
        PROVE  h[<<n, level>>] = Prints(h)[<<n, level>>]
    <3>1. \A i \in 1 .. Len(Kids(n)) : Kids(n)[i] \in NodeIds /\ Height(Kids(n)[i]) < r
      BY <1>0, <2>2
    <3>2. \A i \in 1 .. Len(Kids(n)) :
            g[<<Kids(n)[i], level + 1>>] = h[<<Kids(n)[i], level + 1>>]
      <4>1. level + 1 \in Nat
        OBVIOUS
      <4> HIDE DEF Prints
      <4> QED BY <2>1, <3>1, <4>1
    <3>3. PrintNode(g, n, level, pretty) = PrintNode(h, n, level, pretty)
      <4> HIDE DEF h
      <4> QED BY <3>2, PrintIsLocal
    <3> HIDE DEF Prints
    <3>4. h[<<n, level>>] = PrintNode(g, n, level, pretty)
      BY <1>9
    <3>5. Prints(h)[<<n, level>>] = PrintNode(h, n, level, pretty)
      BY <1>9
    <3> QED BY ONLY <3>3, <3>4, <3>5
  <2>3. Right(h, r + 1)
    BY <2>2
  <2> HIDE DEF Right
  <2> QED BY <2>3
<1>3. MaxNodes + 1 \in S
  <2> HIDE DEF S
  <2>1. Nat \subseteq S
    BY <1>1, <1>2, SetInduction
  <2> QED BY <2>1, MaxNodesAssumption
<1>4. PICK g : Right(g, MaxNodes + 1)
  BY <1>3
<1>5. \A n \in NodeIds, level \in Nat : g[<<n, level>>] = Prints(g)[<<n, level>>]
  <2> HIDE DEF Prints
  <2> QED BY <1>0, <1>4
<1> DEFINE h == Prints(g)
<1>6. ASSUME NEW at \in NodeIds \X Nat
      PROVE  PrintNode(h, at[1], at[2], pretty) = PrintNode(g, at[1], at[2], pretty)
  <2>1. PICK n \in NodeIds, level \in Nat : at = <<n, level>>
    OBVIOUS
  <2>2. \A i \in 1 .. Len(Kids(n)) :
          g[<<Kids(n)[i], level + 1>>] = h[<<Kids(n)[i], level + 1>>]
    <3>1. level + 1 \in Nat
      OBVIOUS
    <3> HIDE DEF Prints
    <3> QED BY <1>0, <1>5, <3>1
  <2> HIDE DEF h
  <2>3. PrintNode(g, n, level, pretty) = PrintNode(h, n, level, pretty)
    BY <2>2, PrintIsLocal
  <2> QED BY <2>1, <2>3
<1>7. h = [at \in NodeIds \X Nat |-> PrintNode(h, at[1], at[2], pretty)]
  BY <1>6
<1> QED BY <1>7

LEMMA PrintIs ==
  ASSUME Finished, NEW pretty, NEW n \in NodeIds, NEW level \in Nat
  PROVE  PrintOf(pretty)[<<n, level>>] = PrintNode(PrintOf(pretty), n, level, pretty)
<1> DEFINE print == PrintOf(pretty)
<1>1. print = [at \in NodeIds \X Nat |-> PrintNode(print, at[1], at[2], pretty)]
  BY PrintExists DEF PrintOf
<1> HIDE DEF print
<1>2. print[<<n, level>>] = PrintNode(print, n, level, pretty)
  BY <1>1
<1> QED BY <1>2 DEF print

\* A level of nesting for every level of the tree.
LEMMA KidLevels ==
  ASSUME Finished, NEW V, Leveled(V), NEW n \in Live
  PROVE  \A j \in 1 .. Len(Kids(n)) : V[Kids(n)[j]] = V[n] - 1
<1> DEFINE s == Kids(n)
           l == Len(s)
<1>1. /\ l \in Nat
      /\ \A j \in 1 .. l :
              /\ s[j] \in Linked
              /\ j = 1 => s[j] = child[n] /\ child[n] # None
              /\ j > 1 => prev[s[j]] = s[j - 1] /\ s[j - 1] # None
  <2>1. /\ l \in Nat
        /\ l = 0 <=> child[n] = None
        /\ \A j \in 1 .. l :
              /\ s[j] \in Linked
              /\ j = 1 => s[j] = child[n]
              /\ j > 1 => prev[s[j]] = s[j - 1] /\ s[j - 1] # None
    BY KidLinks
  <2> HIDE DEF s, l
  <2>2. \A j \in 1 .. l : child[n] # None
    BY <2>1
  <2> QED BY <2>1, <2>2
<1> HIDE DEF s, l
<1> DEFINE Good == {j \in Nat : j \in 1 .. l => V[s[j]] = V[n] - 1}
<1>2. 0 \in Good
  OBVIOUS
<1>3. ASSUME NEW j \in Nat, j \in Good PROVE j + 1 \in Good
  <2> SUFFICES ASSUME j + 1 \in 1 .. l PROVE V[s[j + 1]] = V[n] - 1
    OBVIOUS
  <2>1. CASE j = 0
    <3>1. s[j + 1] = child[n] /\ child[n] # None
      BY <1>1, <2>1
    <3> QED BY <3>1 DEF Leveled
  <2>2. CASE j # 0
    <3>1. j \in 1 .. l /\ j + 1 > 1 /\ (j + 1) - 1 = j
      BY <1>1, <2>2
    <3>2. s[j + 1] \in Linked /\ prev[s[j + 1]] = s[j] /\ s[j] # None
      BY <1>1, <3>1
    <3>3. V[s[j + 1]] = V[s[j]]
      BY <3>2 DEF Leveled
    <3> QED BY <1>3, <3>1, <3>3
  <2> QED BY <2>1, <2>2
<1>4. Nat \subseteq Good
  <2> HIDE DEF Good
  <2> QED BY <1>2, <1>3, SetInduction
<1>5. \A j \in 1 .. l : V[s[j]] = V[n] - 1
  BY <1>1, <1>4
<1> QED BY <1>5 DEF s, l

LEMMA LevelInvInit == ParseInit => LevelInv
BY DEF ParseInit, LevelInv, Working

LEMMA LevelInvAlways == ParseSpec => [](ParserInv /\ NodesInv /\ SpellInv /\ LevelInv)
BY ParserInvInit, NodesInvInit, SpellInvInit, LevelInvInit,
   ParserInvStep, NodesInvStep, SpellInvStep, LevelInvStep, PTL DEF ParseSpec

\* What has been printed of a node is its text, but for formatting.
Printing(print, W, n, level, pretty) ==
  /\ print[<<n, level>>] \in Texts /\ print[<<n, level>>] # Nothing
  /\ Wash(pretty, print[<<n, level>>]) = Shown(W[n])

LEMMA PrintsAre ==
  ASSUME Finished, NEW H, NEW P, NEW W, Listed(H, P, W), NEW V, Leveled(V),
         NEW pretty \in BOOLEAN
  PROVE  \A n \in Live, level \in Nat :
           level = NestingLimit - V[n] => Printing(PrintOf(pretty), W, n, level, pretty)
<1> DEFINE print == PrintOf(pretty)
           Right(n) == \A level \in Nat :
                         level = NestingLimit - V[n] => Printing(print, W, n, level, pretty)
           S == {r \in Nat : \A n \in Live : Height(n) < r => Right(n)}
<1>1. TreeInv /\ Live \subseteq NodeIds /\ W \in [NodeIds -> Texts] /\ V \in [NodeIds -> Int]
  BY FinishedIsATree, InvFacts DEF Listed, Leveled
<1>2. 0 \in S
  BY <1>1, HeightFalls
<1>3. ASSUME NEW r \in Nat, r \in S PROVE r + 1 \in S
  <2> SUFFICES ASSUME NEW n \in Live, Height(n) < r + 1, NEW level \in Nat,
                      level = NestingLimit - V[n]
               PROVE  Printing(print, W, n, level, pretty)
    OBVIOUS
  <2>1. n \in NodeIds /\ V[n] \in Int /\ level + 1 \in Nat
    BY <1>1
  <2>2. ASSUME NEW i \in 1 .. Len(Kids(n))
        PROVE  Printing(print, W, Kids(n)[i], level + 1, pretty)
    <3> DEFINE m == Kids(n)[i]
    <3>1. m \in Live /\ Height(m) < r
      <4>1. m \in Live /\ Height(m) \in Nat /\ Height(m) < Height(n) /\ Height(n) \in Nat
        BY <1>1, <2>1, HeightFalls, KidFacts
      <4> HIDE DEF Height, m
      <4> QED BY <4>1
    <3>2. level + 1 = NestingLimit - V[m]
      <4>1. V[m] = V[n] - 1
        BY KidLevels
      <4> HIDE DEF m
      <4> QED BY <2>1, <4>1, NestingLimitAssumption
    <3> HIDE DEF m
    <3>3. Right(m)
      BY <1>3, <3>1
    <3>4. Printing(print, W, m, level + 1, pretty)
      BY <2>1, <3>2, <3>3
    <3> QED BY <3>4 DEF m
  <2>3. KidsPrinted(print, W, n, level, pretty) /\ KidsPrint(print, n, level)
    BY <2>2 DEF KidsPrinted, KidsPrint, Printing
  <2>4. kind[n] \in Containers => level < NestingLimit
    <3>1. kind[n] \in Containers => V[n] >= 1
      BY DEF Leveled
    <3> QED BY <2>1, <3>1, NestingLimitAssumption
  <2>5. W[n] = Spell(W, n)
    BY NodeSpelt
  <2> HIDE DEF print
  <2>6. /\ PrintNode(print, n, level, pretty) \in Texts
        /\ PrintNode(print, n, level, pretty) # Nothing
        /\ Wash(pretty, PrintNode(print, n, level, pretty)) = Shown(Spell(W, n))
    BY <1>1, <2>3, <2>4, NodePrinted
  <2>7. print[<<n, level>>] = PrintNode(print, n, level, pretty)
    BY <2>1, PrintIs DEF print
  <2> QED BY ONLY <2>5, <2>6, <2>7 DEF Printing
<1>4. Nat \subseteq S
  <2> HIDE DEF S
  <2> QED BY <1>2, <1>3, SetInduction
<1> SUFFICES ASSUME NEW n \in Live PROVE Right(n)
  OBVIOUS
<1>5. Height(n) \in Nat /\ Height(n) + 1 \in Nat /\ Height(n) < Height(n) + 1
  BY <1>1, HeightFalls
<1> HIDE DEF Height, Right
<1> QED BY <1>4, <1>5

\* Every tree that parsing built can be printed -- the printer allows the nesting the
\* parser allows -- and the print is the text that was parsed, but for blanks and for
\* numbers that overflowed; formatted, it differs only in blanks.
THEOREM ParsedTextsAreReprinted == ParseSpec => []PrintsWhatItParsed
<1>1. ParserInv /\ NodesInv /\ SpellInv /\ LevelInv => PrintsWhatItParsed
  <2> SUFFICES ASSUME ParserInv, NodesInv, SpellInv, LevelInv, pc = "accepted"
               PROVE  PrintsWhatItParsed
    BY DEF PrintsWhatItParsed
  <2> DEFINE consumed == NoBlanks(SubSeq(input, AfterBOM + 1, offset))
  <2>1. PICK H, P, W : Listed(H, P, W) /\ W[ret] = consumed
    BY ParsedText
  <2>2. Finished /\ stack = <<>> /\ ret \in Live /\ ret # None
    BY ParsedText
  <2>3. PICK V : Leveled(V)
    BY DEF LevelInv, Working
  <2>4. 0 = NestingLimit - V[ret]
    <3>1. V[ret] = NestingLimit - Len(stack) /\ Len(stack) = 0
      BY <2>2, <2>3 DEF Leveled
    <3> QED BY <3>1, NestingLimitAssumption
  <2>5. \A pretty \in BOOLEAN : Wash(pretty, PrintValue(ret, pretty)) = Shown(W[ret])
    <3> SUFFICES ASSUME NEW pretty \in BOOLEAN
                 PROVE  Wash(pretty, PrintValue(ret, pretty)) = Shown(W[ret])
      OBVIOUS
    <3>1. Printing(PrintOf(pretty), W, ret, 0, pretty)
      BY <2>1, <2>2, <2>3, <2>4, PrintsAre
    <3>2. PrintValue(ret, pretty) = PrintOf(pretty)[<<ret, 0>>]
      BY PrintIsPrintOf
    <3> QED BY ONLY <3>1, <3>2 DEF Printing
  <2>6. PrintValue(ret, FALSE) = Shown(W[ret]) /\ NoBlanks(PrintValue(ret, TRUE)) = Shown(W[ret])
    BY <2>5 DEF Wash
  <2>7. Shown(consumed)
           = [i \in 1 .. Len(consumed) |-> IF consumed[i] = Huge THEN Scalar ELSE consumed[i]]
    BY DEF Shown, Printed
  <2> HIDE DEF consumed
  <2>8. /\ PrintValue(ret, FALSE) =
              [i \in 1 .. Len(consumed) |-> IF consumed[i] = Huge THEN Scalar ELSE consumed[i]]
         /\ NoBlanks(PrintValue(ret, TRUE)) = PrintValue(ret, FALSE)
    BY ONLY <2>1, <2>6, <2>7
  <2> QED BY <2>8 DEF PrintsWhatItParsed, consumed
<1> QED BY <1>1, LevelInvAlways, PTL
==============================================================================
