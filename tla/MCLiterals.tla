----------------------------- MODULE MCLiterals -----------------------------
(***************************************************************************)
(* Texts for the scanners: strings and sources put together from pieces    *)
(* whose meaning is known, and all short texts over the bytes that steer   *)
(* each scanner.                                                           *)
(***************************************************************************)
EXTENDS Literals

Written(spelled, means) == [spelled |-> spelled, means |-> means, fails |-> FALSE]
Malformed(spelled) == [spelled |-> spelled, means |-> <<>>, fails |-> TRUE]

UpTo(S, n) == UNION {[1 .. l -> S] : l \in 0 .. n}

Known(pieces, before, after) ==
  [text |-> before \o Spelled(pieces) \o after, pieces |-> pieces]
Unknown(bytes) == [text |-> bytes, pieces |-> <<>>]

-----------------------------------------------------------------------------
(* Strings. *)

Hex4(u) == LET d == <<u \div 4096, (u \div 256) % 16, (u \div 16) % 16, u % 16>>
           IN  <<Backslash, 117>> \o [i \in 1 .. 4 |-> LowerHex(d[i])]

LetterX == 120
UpperHex == <<Backslash, 117, 48, 48, 69, 57>>
ShortPieces == {
  Written(<<LetterX>>, <<LetterX>>), Written(<<195>>, <<195>>), Written(<<0>>, <<0>>),
  Written(<<Backslash, 110>>, <<Newline>>), Written(<<Backslash, 98>>, <<8>>),
  Written(<<Backslash, Quote>>, <<Quote>>), Written(<<Backslash, Backslash>>, <<Backslash>>),
  Malformed(<<Backslash, LetterX>>), Malformed(Hex4(55296)) }

UnitPieces == {
  Written(<<Backslash, 102>>, <<12>>), Written(<<Backslash, 114>>, <<Return>>),
  Written(<<Backslash, 116>>, <<Tab>>), Written(<<Backslash, Slash>>, <<Slash>>),
  Written(Hex4(0), <<0>>), Written(Hex4(31), <<31>>), Written(Hex4(127), <<127>>),
  Written(Hex4(128), <<194, 128>>), Written(UpperHex, <<195, 169>>),
  Written(Hex4(2047), <<223, 191>>), Written(Hex4(2048), <<224, 160, 128>>),
  Written(Hex4(55295), <<237, 159, 191>>), Written(Hex4(57344), <<238, 128, 128>>),
  Written(Hex4(65535), <<239, 191, 191>>),
  Written(<<Backslash, 117, 48, 103, 48, 48>>, <<0>>),
  Written(Hex4(55296) \o Hex4(56320), <<240, 144, 128, 128>>),
  Written(Hex4(56319) \o Hex4(57343), <<244, 143, 191, 191>>),
  Malformed(Hex4(56320)), Malformed(Hex4(56319)) }

\* Two pieces that read as one pair are not two pieces.
NoAccidentalPair(pieces) ==
  \A i \in 1 .. Len(pieces) - 1 :
    ~(pieces[i].spelled \in {Hex4(55296), Hex4(56319)} /\ pieces[i + 1].spelled = Hex4(56320))

StringsOfPieces ==
  {Known(p, <<Quote>>, <<Quote, LetterX>>) :
     p \in {q \in UpTo(ShortPieces, 3) \cup UpTo(ShortPieces \cup UnitPieces, 2) :
              NoAccidentalPair(q)}}

\* Quotes, backslashes, u and digits in any order.
ShortStrings ==
  {Unknown(<<Quote>> \o bytes) : bytes \in UpTo({Quote, Backslash, 117, 48}, 6)}
  \cup {Unknown(<<Quote, Backslash, 117>> \o bytes) : bytes \in UpTo({Quote, Backslash, 97}, 7)}
  \cup {Unknown(<<>>), Unknown(<<LetterX>>)}

Strings == StringsOfPieces \cup ShortStrings

-----------------------------------------------------------------------------
(* Numbers: what parse_value hands to parse_number begins with - or a digit. *)

Numbers ==
  {Unknown(<<first>> \o bytes) :
     first \in {Minus, 49}, bytes \in UpTo({49, Plus, Minus, Dot, 101, LetterX}, 5)}

-----------------------------------------------------------------------------
(* Sources for minify. *)

Kept(bytes) == Written(bytes, bytes)
Dropped(bytes) == Written(bytes, <<>>)
Quoted(bytes) == <<Quote>> \o bytes \o <<Quote>>
Line(bytes) == <<Slash, Slash>> \o bytes \o <<Newline>>
Block(bytes) == <<Slash, Star>> \o bytes \o <<Star, Slash>>

SourcePieces == {
  Kept(<<LetterX>>), Kept(<<Star>>), Kept(<<Slash>>),
  Kept(Quoted(<<>>)), Kept(Quoted(<<Space, Slash, Slash>>)), Kept(Quoted(<<Slash, Star>>)),
  Kept(Quoted(<<Backslash, Quote>>)), Kept(Quoted(<<Backslash, Backslash>>)),
  Dropped(<<Space>>), Dropped(<<Newline>>),
  Dropped(Line(<<>>)), Dropped(Line(<<Quote, Slash, Star>>)),
  Dropped(Block(<<>>)), Dropped(Block(<<Star>>)), Dropped(Block(<<Slash>>)),
  Dropped(Block(<<Quote, Newline, Slash, Slash>>)) }

\* What may only stand last: strings and comments the text ends in.
LastPieces == {
  Kept(<<Quote>>), Kept(<<Quote, Space>>), Kept(<<Quote, Backslash>>),
  Kept(<<Quote, Backslash, Quote>>), Dropped(<<Slash, Slash>>),
  Dropped(<<Slash, Slash, Quote>>), Dropped(<<Slash, Star>>),
  Dropped(<<Slash, Star, Slash>>), Dropped(<<Slash, Star, Star, Quote, Star>>) }

\* A slash and what may make it a comment are not two pieces.
NoAccidentalComment(pieces) ==
  \A i \in 1 .. Len(pieces) - 1 :
    pieces[i].spelled = <<Slash>> => pieces[i + 1].spelled[1] \notin {Slash, Star}

Sources ==
  {Known(p, <<>>, <<>>) :
     p \in {q \in UpTo(SourcePieces, 3)
                    \cup {Append(p, last) : p \in UpTo(SourcePieces, 2), last \in LastPieces} :
              NoAccidentalComment(q)}}
=============================================================================
