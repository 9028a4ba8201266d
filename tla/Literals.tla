------------------------------ MODULE Literals ------------------------------
(***************************************************************************)
(* One call of a byte scanner: parse_string and, of the string it found,   *)
(* escape_json_bytes and parse_string again; parse_number; or minify.      *)
(* What they promise is stated against texts put together from pieces      *)
(* whose meaning is known.                                                 *)
(***************************************************************************)
EXTENDS StringLiteral, Minify, SequencesExt

CONSTANTS
  StringCalls,   \* what parse_string, parse_number and minify are given: a text
  NumberCalls,   \* and, where it is known, the pieces the text is made of
  MinifyCalls

VARIABLES
  made,      \* the pieces of the text, in order
  printed    \* the string escape_json_bytes was given, in a sequence of its own

lvars == <<text, pc, index, output, literal, made, printed>>

Piece == [spelled : Seq(Byte), means : Seq(Byte), fails : BOOLEAN]
Calls == [text : Seq(Byte), pieces : Seq(Piece)]

ASSUME CallsAssumption ==
  StringCalls \subseteq Calls /\ NumberCalls \subseteq Calls /\ MinifyCalls \subseteq Calls

\* What a sequence of pieces spells, and what it means.
Spelled(pieces) == FlattenSeq([i \in 1 .. Len(pieces) |-> pieces[i].spelled])
Means(pieces)   == FlattenSeq([i \in 1 .. Len(pieces) |-> pieces[i].means])

-----------------------------------------------------------------------------
(* The pieces of a string, read without a parser. *)

\* A \u in s at k, with four bytes that the first pass takes for nothing else.
UnitAt(s, k) ==
  /\ s[k] = Backslash /\ s[k + 1] = UnicodeLetter
  /\ \A j \in k + 2 .. k + 5 : s[j] \notin {Quote, Backslash}

\* The number it stands for: 0 unless all four are digits.
UnitValue(s, k) ==
  IF \A j \in k + 2 .. k + 5 : IsHex(s[j])
    THEN 4096 * HexValue(s[k + 2]) + 256 * HexValue(s[k + 3])
           + 16 * HexValue(s[k + 4]) + HexValue(s[k + 5])
    ELSE 0

\* A byte; one of the short escapes, or a byte that is none; a code unit; or two
\* that are one character.  Half of such a pair is an error.
ByteItself(p) ==
  Len(p.spelled) = 1 /\ p.spelled[1] \notin {Quote, Backslash} /\ ~p.fails /\ p.means = p.spelled
Escaped(p) ==
  /\ Len(p.spelled) = 2 /\ p.spelled[1] = Backslash /\ p.spelled[2] # UnicodeLetter
  /\ p.fails <=> p.spelled[2] \notin DOMAIN ShortEscapes
  /\ ~p.fails => p.means = <<ShortEscapes[p.spelled[2]]>>
OneUnit(p) ==
  /\ Len(p.spelled) = 6 /\ UnitAt(p.spelled, 1)
  /\ p.fails <=> UnitValue(p.spelled, 1) \in HighHalves \cup LowHalves
  /\ ~p.fails => p.means = Utf8(UnitValue(p.spelled, 1))
TwoUnits(p) ==
  /\ Len(p.spelled) = 12 /\ UnitAt(p.spelled, 1) /\ UnitAt(p.spelled, 7)
  /\ UnitValue(p.spelled, 1) \in HighHalves /\ UnitValue(p.spelled, 7) \in LowHalves
  /\ ~p.fails
  /\ p.means = Utf8(65536 + 1024 * (UnitValue(p.spelled, 1) - 55296)
                          + (UnitValue(p.spelled, 7) - 56320))

\* The text is a string of these pieces and what may follow it, and no two of the
\* pieces are the halves of a third.
SpellsString(string, pieces) ==
  /\ \A i \in 1 .. Len(pieces) :
       ByteItself(pieces[i]) \/ Escaped(pieces[i]) \/ OneUnit(pieces[i]) \/ TwoUnits(pieces[i])
  /\ \A i \in 1 .. Len(pieces) - 1 :
       OneUnit(pieces[i]) /\ OneUnit(pieces[i + 1]) =>
         ~(/\ UnitValue(pieces[i].spelled, 1) \in HighHalves
           /\ UnitValue(pieces[i + 1].spelled, 1) \in LowHalves)
  /\ IsPrefix(<<Quote>> \o Spelled(pieces) \o <<Quote>>, string)

ASSUME StringPiecesAssumption ==
  \A call \in StringCalls : call.pieces # <<>> => SpellsString(call.text, call.pieces)

-----------------------------------------------------------------------------
(* The pieces of a source, found without a scanner. *)

\* Places in s count from 0, like those in the text.
ByteAt(s, i) == s[i + 1]

\* The quote at i is not escaped: an even number of backslashes stands before it.
BareQuote(s, i) ==
  /\ i >= 1 /\ ByteAt(s, i) = Quote
  /\ \E back \in 0 .. i - 1 :
       /\ back % 2 = 0
       /\ \A k \in 1 .. back : ByteAt(s, i - k) = Backslash
       /\ ByteAt(s, i - back - 1) # Backslash

\* What may end a string, a line comment and a block comment that s begins with.
QuotesIn(s)   == {i \in 1 .. Len(s) - 1 : BareQuote(s, i)}
NewlinesIn(s) == {i \in 2 .. Len(s) - 1 : ByteAt(s, i) = Newline}
StarsIn(s)    == {i \in 2 .. Len(s) - 2 : ByteAt(s, i) = Star /\ ByteAt(s, i + 1) = Slash}

\* A byte that is kept, or is a blank; a string; a comment.
KeptByte(p) ==
  Len(p.spelled) = 1 /\ p.spelled[1] \notin Blanks \cup {Quote} /\ p.means = p.spelled
BlankByte(p) == Len(p.spelled) = 1 /\ p.spelled[1] \in Blanks /\ p.means = <<>>
QuotedText(p) == Len(p.spelled) >= 1 /\ p.spelled[1] = Quote /\ p.means = p.spelled
Comment(p, second) ==
  Len(p.spelled) >= 2 /\ p.spelled[1] = Slash /\ p.spelled[2] = second /\ p.means = <<>>

\* It ends with what first may end it; or the text ends before that.
WholePiece(p) ==
  \/ KeptByte(p) \/ BlankByte(p)
  \/ QuotedText(p) /\ QuotesIn(p.spelled) = {Len(p.spelled) - 1}
  \/ Comment(p, Slash) /\ NewlinesIn(p.spelled) = {Len(p.spelled) - 1}
  \/ Comment(p, Star) /\ StarsIn(p.spelled) = {Len(p.spelled) - 2}
CutOffPiece(p) ==
  \/ QuotedText(p) /\ QuotesIn(p.spelled) = {}
  \/ Comment(p, Slash) /\ NewlinesIn(p.spelled) = {}
  \/ Comment(p, Star) /\ StarsIn(p.spelled) = {}

\* The source is made of these pieces, and no two of them open a comment.
SpellsSource(source, pieces) ==
  /\ \A i \in 1 .. Len(pieces) :
       WholePiece(pieces[i]) \/ (i = Len(pieces) /\ CutOffPiece(pieces[i]))
  /\ \A i \in 1 .. Len(pieces) - 1 :
       pieces[i].spelled = <<Slash>> => pieces[i + 1].spelled[1] \notin {Slash, Star}
  /\ source = Spelled(pieces)

ASSUME SourcePiecesAssumption ==
  \A call \in MinifyCalls : call.pieces # <<>> => SpellsSource(call.text, call.pieces)

-----------------------------------------------------------------------------
(* Printing a string. *)

LowerHex(d) == IF d < 10 THEN 48 + d ELSE 87 + d
EscapedByte(c) ==
  CASE c \in {Quote, Backslash} -> <<Backslash, c>>
    [] c = 8 -> <<Backslash, 98>>
    [] c = 12 -> <<Backslash, 102>>
    [] c = Newline -> <<Backslash, 110>>
    [] c = Return -> <<Backslash, 114>>
    [] c = Tab -> <<Backslash, 116>>
    [] c < 32 /\ c \notin {8, 12, Newline, Return, Tab} ->
         <<Backslash, UnicodeLetter, 48, 48, LowerHex(c \div 16), LowerHex(c % 16)>>
    [] OTHER -> <<c>>

\* Mutant: a backslash needs no escape.
EscapeOnlyQuotes(s) ==
  <<Quote>> \o FlattenSeq([i \in 1 .. Len(s) |->
                 IF s[i] = Backslash THEN <<s[i]>> ELSE EscapedByte(s[i])]) \o <<Quote>>

EscapeJsonBytes(s) ==
  <<Quote>> \o FlattenSeq([i \in 1 .. Len(s) |-> EscapedByte(s[i])]) \o <<Quote>>

\* The string just parsed is printed, and the print parsed.
PrintAndParse ==
  /\ pc = "parsed" /\ printed = <<>>
  /\ printed' = <<output>>
  /\ text' = EscapeJsonBytes(output)
  /\ made' = <<>>
  /\ pc' = "string"
  /\ index' = 0 /\ output' = <<>>
  /\ quoteAt' = 0 /\ skipped' = {} /\ offset' = 0

-----------------------------------------------------------------------------
(* Numbers. *)

Signs == {Plus, Minus}
ExponentMarks == {69, 101}
NumberBytes == Digits \cup Signs \cup ExponentMarks \cup {Dot}

Has(s, i, bytes) == i < Len(s) /\ s[i + 1] \in bytes

\* Where the run of such bytes from i on ends.
RunEnd(s, i, bytes) == Min({j \in i .. Len(s) : ~Has(s, j, bytes)})

\* A sign, digits, and a dot that has a digit on either side; 0 without a digit.
MantissaEnd(s) ==
  LET whole    == IF Has(s, 0, Signs) THEN 1 ELSE 0
      dot      == RunEnd(s, whole, Digits)
      fraction == IF Has(s, dot, {Dot}) THEN RunEnd(s, dot + 1, Digits) ELSE dot
  IN  IF dot = whole /\ fraction <= dot + 1 THEN 0 ELSE fraction

\* Mutant: the mark counts without its digits.
ExponentEndBare(s, mark) ==
  LET digits == IF Has(s, mark + 1, Signs) THEN mark + 2 ELSE mark + 1
  IN  IF Has(s, mark, ExponentMarks) THEN RunEnd(s, digits, Digits) ELSE mark

\* An exponent mark counts if a digit follows it, or its sign.
ExponentEnd(s, mark) ==
  LET digits == IF Has(s, mark + 1, Signs) THEN mark + 2 ELSE mark + 1
  IN  IF Has(s, mark, ExponentMarks) /\ Has(s, digits, Digits)
        THEN RunEnd(s, digits, Digits) ELSE mark

StrtodPrefixLen(s) == IF MantissaEnd(s) = 0 THEN 0 ELSE ExponentEnd(s, MantissaEnd(s))

\* strtod_prefix_len of the run of bytes a number may hold.
ParseNumber ==
  LET candidate == SubSeq(text, 1, RunEnd(text, 0, NumberBytes))
      consumed  == StrtodPrefixLen(candidate)
  IN  /\ pc = "number"
      /\ offset' = offset + consumed
      /\ pc' = IF consumed = 0 THEN "no_number" ELSE "number_read"
      /\ UNCHANGED <<text, index, output, quoteAt, skipped, made, printed>>

-----------------------------------------------------------------------------

LiteralsInit ==
  /\ quoteAt = 0 /\ skipped = {} /\ offset = 0 /\ printed = <<>>
  /\ \/ /\ \E call \in StringCalls : text = call.text /\ made = call.pieces
        /\ StringInit
     \/ /\ \E call \in NumberCalls : text = call.text /\ made = call.pieces
        /\ pc = "number" /\ index = 0 /\ output = <<>>
     \/ /\ \E call \in MinifyCalls : text = call.text /\ made = call.pieces
        /\ MinifyInit

LiteralsNext ==
  \/ StringNext /\ UNCHANGED <<made, printed>>
  \/ PrintAndParse
  \/ ParseNumber
  \/ MinifyNext /\ UNCHANGED <<literal, made, printed>>

LiteralsSpec == LiteralsInit /\ [][LiteralsNext]_lvars

-----------------------------------------------------------------------------
(* Properties. *)

Finished == {"no_string", "parsed", "no_number", "number_read", "minified"}

\* Every variable within its range; the parser never leaves the text.
LiteralsTypeOK ==
  /\ text \in Seq(Byte)
  /\ pc \in Finished \cup {"string", "first_pass", "second_pass", "number", "minify",
                           "in_string", "escaped", "line_comment", "block_comment"}
  /\ index \in 0 .. Len(text)
  /\ output \in Seq(Byte)
  /\ quoteAt \in 0 .. Len(text)
  /\ skipped \subseteq 0 .. Len(text)
  /\ offset \in 0 .. Len(text)

\* A string ends at the first quote that is not escaped, whatever the escapes
\* before it turn out to mean when they are decoded; without one there is no
\* string, and the parser stands at the end of the text or at its last backslash.
EndsAtTheFirstBareQuote ==
  LET quotes == QuotesIn(text)
      first  == CHOOSE i \in quotes : \A j \in quotes : i <= j
  IN  /\ pc = "parsed" => quotes # {} /\ offset = first + 1
      /\ pc = "no_string" /\ quotes = {} /\ text # <<>> /\ At(0) = Quote =>
           offset = Len(text) \/ (offset = Len(text) - 1 /\ At(offset) = Backslash)

\* A string of known pieces decodes to what they mean, one after the other, up to
\* the first that is an error: there the parser stops.
DecodesWhatIsWritten ==
  LET bad    == {i \in DOMAIN made : made[i].fails}
      before == {i \in DOMAIN made : \A j \in bad : i < j}
      good   == SubSeq(made, 1, Cardinality(before))
      length == Len(Spelled(good))
  IN  made # <<>> /\ pc \in {"parsed", "no_string"} =>
        IF bad = {} THEN /\ pc = "parsed" /\ offset = length + 2
                         /\ output = Means(made)
                    ELSE pc = "no_string" /\ offset = length + 1

\* Whatever bytes a parsed string holds, printed and parsed again it is the same.
EscapedComesBack ==
  printed # <<>> => /\ pc # "no_string"
                    /\ pc = "parsed" => output = printed[1]

\* The ends of the prefixes of the text that are numbers, read off the grammar
\* [+-]? ( digit+ ('.' digit*)? | '.' digit+ ) ( [eE] [+-]? digit+ )?
NumberEnds ==
  LET One(from, bytes) == {i + 1 : i \in {j \in from : Has(text, j, bytes)}}
      Some(from, bytes) == {j \in 1 .. Len(text) :
                              \E i \in from : i < j /\ \A k \in i .. j - 1 : Has(text, k, bytes)}
      Optional(from, bytes) == from \cup One(from, bytes)
      signed   == Optional({0}, Signs)
      whole    == Some(signed, Digits)
      pointed  == One(whole, {Dot})
      mantissa == whole \cup pointed \cup Some(pointed \cup One(signed, {Dot}), Digits)
  IN  mantissa \cup Some(Optional(One(mantissa, ExponentMarks), Signs), Digits)

\* The parser moves on by the longest prefix that is a number, and fails without
\* moving when there is none.
NumberIsLongestPrefix ==
  pc \in {"number_read", "no_number"} =>
    LET ends == NumberEnds
    IN  IF ends = {} THEN pc = "no_number" /\ offset = 0
                     ELSE pc = "number_read" /\ offset = Max(ends)

\* minify keeps every string and every byte that is no blank, byte for byte and
\* in order, and drops blanks and comments, also those that look like the other;
\* and it never has more to write than it has read, so that cJSON_Minify can
\* write the result over the text.
MinifyKeepsTheTokens ==
  /\ pc \in {"minify", "in_string", "escaped", "line_comment", "block_comment"} =>
       Len(output) <= index
  /\ pc = "minified" /\ made # <<>> =>
       output = Means(made)
=============================================================================
