--------------------------- MODULE LiteralsProofs ---------------------------
(***************************************************************************)
(* For every text: what the scanners read, write and decode.               *)
(*                                                                         *)
(* The two passes of parse_string may disagree on which backslashes are    *)
(* escaped, so that the output fits is not proved by following them byte   *)
(* by byte but by counting: of any two bytes in a row the first pass       *)
(* skipped at most one, and every escape writes at most half of the bytes  *)
(* it is read from.  Over a string of known pieces they do agree, and are  *)
(* followed from one piece to the next; the print of a string is one, with *)
(* a piece for each byte.  So is minify over a source of known pieces.     *)
(***************************************************************************)
EXTENDS Literals, NaturalLemmas, FiniteSetTheorems, SequenceTheorems, TLAPS

-----------------------------------------------------------------------------
(* The output of parse_string fits. *)

\* The skipped backslashes before the place n.
Before(n) == skipped \cap 0 .. n - 1

\* The first pass skips the byte behind a backslash as well.
Spaced ==
  /\ skipped \subseteq Nat /\ IsFiniteSet(skipped)
  /\ \A q \in skipped : q >= ContentStart /\ At(q) = Backslash
  /\ \A p, q \in skipped : p < q => p + 2 <= q

Reached(n) == \A q \in skipped : q + 2 <= n

StringTypeOK ==
  /\ text \in Seq(Byte)
  /\ pc \in {"string", "first_pass", "second_pass", "parsed", "no_string"}
  /\ index \in Nat
  /\ quoteAt \in Nat
  /\ output \in Seq(Int)

FirstPassInv ==
  pc = "first_pass" => index >= ContentStart /\ Reached(index) /\ output = <<>>

\* The bytes written are paid for by the bytes read, up to the quote.
ReadTo(i) == IF i <= quoteAt THEN i ELSE quoteAt
Paid(i) == Len(output) + Cardinality(Before(i)) <= ReadTo(i) - ContentStart

SecondPassInv ==
  pc \in {"second_pass", "parsed"} =>
    /\ index >= ContentStart /\ index <= quoteAt + 1
    /\ quoteAt < Len(text) /\ At(quoteAt) = Quote
    /\ Reached(quoteAt)
    /\ Paid(index)

StartInv == pc = "string" => skipped = {} /\ output = <<>>

StringInv == StringTypeOK /\ Spaced /\ StartInv /\ FirstPassInv /\ SecondPassInv

-----------------------------------------------------------------------------
(* Counting. *)

LEMMA BeforeIsFinite ==
  ASSUME Spaced, NEW n \in Nat
  PROVE  IsFiniteSet(Before(n)) /\ Cardinality(Before(n)) \in Nat
<1>1. Before(n) \in SUBSET skipped
  BY DEF Before
<1> QED BY <1>1, FS_Subset, FS_CardinalityType DEF Spaced

\* A byte that was not skipped does not count.
LEMMA OneByte ==
  ASSUME Spaced, NEW n \in Nat, n \notin skipped
  PROVE  Before(n + 1) = Before(n)
BY DEF Before, Spaced

\* Of two bytes in a row at most one counts.
LEMMA TwoBytes ==
  ASSUME Spaced, NEW n \in Nat
  PROVE  Cardinality(Before(n + 2)) <= Cardinality(Before(n)) + 1
<1>1. CASE \E x \in skipped : x \in {n, n + 1}
  <2>1. PICK x \in skipped : x \in {n, n + 1}
    BY <1>1
  <2>2. Before(n + 2) = Before(n) \cup {x} /\ x \notin Before(n)
    BY <2>1 DEF Before, Spaced
  <2> QED BY <2>2, BeforeIsFinite, FS_AddElement
<1>2. CASE ~\E x \in skipped : x \in {n, n + 1}
  <2>1. Before(n + 2) = Before(n)
    BY <1>2 DEF Before, Spaced
  <2> QED BY <2>1, BeforeIsFinite
<1> QED BY <1>1, <1>2

LEMMA SixBytes ==
  ASSUME Spaced, NEW n \in Nat
  PROVE  Cardinality(Before(n + 6)) <= Cardinality(Before(n)) + 3
<1>1. n + 2 \in Nat /\ n + 4 \in Nat /\ n + 6 \in Nat
  OBVIOUS
<1>2. Cardinality(Before(n + 4)) <= Cardinality(Before(n + 2)) + 1
  BY <1>1, TwoBytes, (n + 2) + 2 = n + 4
<1>3. Cardinality(Before(n + 6)) <= Cardinality(Before(n + 4)) + 1
  BY <1>1, TwoBytes, (n + 4) + 2 = n + 6
<1> QED BY <1>1, <1>2, <1>3, TwoBytes, BeforeIsFinite

\* What was skipped from n on fits between n and the quote.
LEMMA RestFits ==
  ASSUME Spaced, NEW n \in Nat, NEW quote \in Nat, n <= quote, Reached(quote)
  PROVE  Cardinality(skipped) <= Cardinality(Before(n)) + (quote - n)
<1> DEFINE rest == skipped \ Before(n)
<1>1. rest \subseteq n .. quote - 1
  BY DEF Before, Spaced, Reached
<1>2. IsFiniteSet(rest) /\ Cardinality(rest) <= quote - n
  <2>1. IsFiniteSet(n .. quote - 1) /\ Cardinality(n .. quote - 1) = quote - n
    <3>1. n \in Int /\ quote - 1 \in Int
      OBVIOUS
    <3>2. IsFiniteSet(n .. quote - 1)
      BY <3>1, FS_Interval
    <3>3. Cardinality(n .. quote - 1) = IF n > quote - 1 THEN 0 ELSE (quote - 1) - n + 1
      BY <3>1, FS_Interval, Zenon
    <3> QED BY <3>2, <3>3
  <2>2. rest \in SUBSET (n .. quote - 1)
    BY <1>1
  <2> QED BY <2>1, <2>2, FS_Subset
<1>3. skipped = Before(n) \cup rest /\ Before(n) \cap rest = {}
  BY DEF Before
<1>4. IsFiniteSet(Before(n)) /\ Cardinality(Before(n)) \in Nat
  BY BeforeIsFinite
<1>5. Cardinality(rest) \in Nat
  BY <1>2, FS_CardinalityType
<1>6. Cardinality(skipped) = Cardinality(Before(n)) + Cardinality(rest)
  <2>1. Cardinality(Before(n) \cup rest)
           = Cardinality(Before(n)) + Cardinality(rest) - Cardinality(Before(n) \cap rest)
    BY <1>2, <1>4, FS_Union
  <2>2. Cardinality(Before(n) \cap rest) = 0
    BY <1>3, FS_EmptySet
  <2> HIDE DEF rest
  <2> QED BY <1>3, <1>4, <1>5, <2>1, <2>2
<1> QED BY <1>2, <1>4, <1>5, <1>6

-----------------------------------------------------------------------------
(* What an escape writes. *)

LEMMA BytesInText ==
  ASSUME text \in Seq(Byte), NEW i \in Nat, i < Len(text)
  PROVE  At(i) \in Byte
BY DEF At

LEMMA HexValueRange ==
  ASSUME NEW c \in Byte, IsHex(c)
  PROVE  HexValue(c) \in Nat /\ HexValue(c) <= 15
BY DEF Byte, IsHex, HexValue, Digits

Unit(c) == c \in Nat /\ c < 65536

Number(a, b, c, d) == 4096 * a + 256 * b + 16 * c + d

LEMMA FourDigits ==
  ASSUME NEW a \in Nat, NEW b \in Nat, NEW c \in Nat, NEW d \in Nat,
         a <= 15, b <= 15, c <= 15, d <= 15
  PROVE  Unit(Number(a, b, c, d))
BY SMT DEF Unit, Number

LEMMA ParseHex4Range ==
  ASSUME text \in Seq(Byte), NEW i \in Nat, i + 3 < Len(text)
  PROVE  Unit(ParseHex4(i))
<1>1. CASE \A k \in i .. i + 3 : IsHex(At(k))
  <2>1. \A k \in i .. i + 3 : At(k) \in Byte /\ IsHex(At(k))
    BY <1>1, BytesInText
  <2> DEFINE digit(k) == HexValue(At(i + k))
  <2>2. \A k \in 0 .. 3 : digit(k) \in Nat /\ digit(k) <= 15
    BY <2>1, HexValueRange
  <2>3. ParseHex4(i) = Number(digit(0), digit(1), digit(2), digit(3))
    BY <1>1, i + 0 = i, SMT DEF ParseHex4, Number
  <2> HIDE DEF digit
  <2>4. /\ digit(0) \in Nat /\ digit(0) <= 15 /\ digit(1) \in Nat /\ digit(1) <= 15
        /\ digit(2) \in Nat /\ digit(2) <= 15 /\ digit(3) \in Nat /\ digit(3) <= 15
    BY <2>2
  <2> QED BY <2>3, <2>4, FourDigits
<1>2. CASE ~\A k \in i .. i + 3 : IsHex(At(k))
  <2>1. ParseHex4(i) = 0
    BY <1>2, SMT DEF ParseHex4
  <2> QED BY <2>1, SMT DEF Unit
<1> QED BY <1>1, <1>2

\* A unit takes at most three bytes of UTF-8, a pair at most four.
LEMMA Utf8Length ==
  ASSUME NEW c \in Nat
  PROVE  /\ Utf8(c) \in Seq(Int)
         /\ Len(Utf8(c)) <= 4
         /\ Unit(c) => Len(Utf8(c)) <= 3
BY SMT DEF Utf8, Unit

LEMMA CodePointOfPairRange ==
  ASSUME text \in Seq(Byte), NEW i \in Nat, i + 12 <= Len(text)
  PROVE  CodePointOfPair(i) \in Nat
<1>1. /\ i + 2 \in Nat /\ (i + 2) + 3 < Len(text)
      /\ i + 8 \in Nat /\ (i + 8) + 3 < Len(text)
  OBVIOUS
<1>2. Unit(ParseHex4(i + 2)) /\ Unit(ParseHex4(i + 8))
  BY <1>1, ParseHex4Range
<1> QED BY <1>2, SMT DEF CodePointOfPair, Unit

-----------------------------------------------------------------------------
(* The steps. *)

\* A call that fails, wherever it stood, keeps what it had.
LEMMA FailureStep ==
  ASSUME StringInv, NEW o, FailsAt(o)
  PROVE  StringInv'
<1>1. /\ UNCHANGED <<text, index, output, quoteAt, skipped>>
      /\ pc' = "no_string"
  BY DEF FailsAt
<1>2. StringTypeOK'
  BY <1>1 DEF StringInv, StringTypeOK
<1>3. Spaced'
  BY <1>1 DEF StringInv, Spaced, At
<1> QED BY <1>1, <1>2, <1>3 DEF StringInv, StartInv, FirstPassInv, SecondPassInv

LEMMA OpenStringStep ==
  ASSUME StringInv, OpenString
  PROVE  StringInv'
<1>1. /\ UNCHANGED <<text, output, quoteAt, skipped>>
      /\ pc' = "first_pass" /\ index' = 1 /\ skipped = {} /\ output = <<>>
  BY DEF OpenString, literal, StringInv, StartInv, ContentStart
<1>2. StringTypeOK'
  BY <1>1 DEF StringInv, StringTypeOK
<1>3. Spaced'
  BY <1>1 DEF StringInv, Spaced, At
<1> QED BY <1>1, <1>2, <1>3 DEF StringInv, StartInv, FirstPassInv, SecondPassInv, Reached,
                 ContentStart

LEMMA PassByteStep ==
  ASSUME StringInv, PassByte
  PROVE  StringInv'
<1>1. /\ UNCHANGED <<text, pc, output, quoteAt, skipped>>
      /\ pc = "first_pass" /\ index' = index + 1 /\ index \in Nat
  BY DEF PassByte, literal, StringInv, StringTypeOK
<1>2. StringTypeOK'
  BY <1>1 DEF StringInv, StringTypeOK
<1>3. Spaced'
  BY <1>1 DEF StringInv, Spaced, At
<1>4. FirstPassInv'
  BY <1>1 DEF StringInv, Spaced, FirstPassInv, Reached, ContentStart
<1> QED BY <1>1, <1>2, <1>3, <1>4 DEF StringInv, StartInv, SecondPassInv

LEMMA PassEscapeStep ==
  ASSUME StringInv, PassEscape
  PROVE  StringInv'
<1>1. /\ UNCHANGED <<text, pc, output, quoteAt>>
      /\ pc = "first_pass" /\ index' = index + 2 /\ skipped' = skipped \cup {index}
      /\ index \in Nat /\ index >= ContentStart /\ At(index) = Backslash
      /\ Reached(index) /\ output = <<>>
  BY DEF PassEscape, StringInv, StringTypeOK, FirstPassInv
<1>2. StringTypeOK'
  BY <1>1 DEF StringInv, StringTypeOK
<1>3. Spaced'
  <2>1. IsFiniteSet(skipped')
    BY <1>1, FS_AddElement DEF StringInv, Spaced
  <2>2. skipped' \subseteq Nat
    BY <1>1 DEF StringInv, Spaced
  <2>3. \A q \in skipped' : q >= ContentStart /\ (At(q) = Backslash)'
    BY <1>1 DEF StringInv, Spaced, At
  <2>4. \A p, q \in skipped' : p < q => p + 2 <= q
    BY <1>1 DEF StringInv, Spaced, Reached
  <2> QED BY <2>1, <2>2, <2>3, <2>4 DEF Spaced
<1>4. FirstPassInv'
  BY <1>1 DEF StringInv, Spaced, FirstPassInv, Reached, ContentStart
<1> QED BY <1>1, <1>2, <1>3, <1>4 DEF StringInv, StartInv, SecondPassInv

\* The second pass starts with nothing read, nothing skipped and nothing written.
LEMMA FindQuoteStep ==
  ASSUME StringInv, FindQuote
  PROVE  StringInv'
<1>1. /\ UNCHANGED <<text, output, skipped>>
      /\ pc' = "second_pass" /\ index' = 1 /\ quoteAt' = index /\ output = <<>>
      /\ index >= 1 /\ index \in Nat /\ index < Len(text) /\ At(index) = Quote
      /\ Reached(index)
  BY DEF StringInv, StringTypeOK, FirstPassInv, FindQuote, InText, ContentStart
<1>2. StringTypeOK'
  BY <1>1 DEF StringInv, StringTypeOK
<1>3. Spaced'
  BY <1>1 DEF StringInv, Spaced, At
<1>4. SecondPassInv'
  <2>1. Before(1)' = {}
    BY <1>1 DEF StringInv, Spaced, Before, ContentStart
  <2>2. Cardinality(Before(1)') = 0
    BY <2>1, FS_EmptySet
  <2>3. ReadTo(1)' = 1
    BY <1>1 DEF ReadTo
  <2>4. Len(output') = 0
    BY <1>1
  <2>5. Paid(index)'
    BY <1>1, <2>2, <2>3, <2>4 DEF Paid, ContentStart
  <2> QED BY <1>1, <2>5 DEF SecondPassInv, Reached, At, ContentStart
<1> QED BY <1>1, <1>2, <1>3, <1>4 DEF StringInv, StartInv, FirstPassInv

\* One turn of the second pass keeps the account, when it writes no more than it
\* reads less what the first pass skipped there, and stops at the quote at most one
\* byte late.
LEMMA DecodeStep ==
  ASSUME StringInv, Decoding, NEW bytes \in Seq(Int), NEW length \in Nat,
         Decodes(bytes, length), index + length <= quoteAt + 1,
         Len(bytes) + Cardinality(Before(index + length))
           <= (ReadTo(index + length) - index) + Cardinality(Before(index))
  PROVE  StringInv'
<1>1. /\ UNCHANGED <<text, pc, quoteAt, skipped>>
      /\ pc = "second_pass" /\ index' = index + length /\ output' = output \o bytes
      /\ index \in Nat /\ quoteAt \in Nat /\ index < quoteAt /\ index + length \in Nat
      /\ output \in Seq(Int)
  BY DEF Decodes, Decoding, literal, StringInv, StringTypeOK
<1>2. output' \in Seq(Int) /\ Len(output') = Len(output) + Len(bytes)
  BY <1>1
<1>3. StringTypeOK'
  BY <1>1, <1>2 DEF StringInv, StringTypeOK
<1>4. Spaced' /\ Spaced
  BY <1>1 DEF StringInv, Spaced, At
<1>5. SecondPassInv'
  <2>1. /\ Cardinality(Before(index)) \in Nat
        /\ Cardinality(Before(index + length)) \in Nat
    BY <1>1, <1>4, BeforeIsFinite
  <2>2. Paid(index) /\ ReadTo(index) = index
    BY <1>1 DEF StringInv, SecondPassInv, ReadTo
  <2>3. ReadTo(index + length) \in Nat /\ Len(output) \in Nat /\ Len(bytes) \in Nat
    BY <1>1 DEF ReadTo
  <2>4. Len(output') + Cardinality(Before(index + length))
          <= ReadTo(index + length) - ContentStart
    BY <1>1, <1>2, <2>1, <2>2, <2>3 DEF Paid, ContentStart
  <2>5. Before(index + length) = Before(index)' /\ ReadTo(index + length) = ReadTo(index)'
    BY <1>1 DEF Before, ReadTo
  <2>6. Paid(index)'
    BY <2>4, <2>5 DEF Paid, ContentStart
  <2> QED BY <1>1, <2>6 DEF StringInv, SecondPassInv, Reached, At, ContentStart
<1> QED BY <1>1, <1>3, <1>4, <1>5 DEF StringInv, StartInv, FirstPassInv

\* In the second pass the place is inside the text, before the quote.
LEMMA DecodingFacts ==
  ASSUME StringInv, Decoding
  PROVE  /\ Spaced /\ Reached(quoteAt) /\ text \in Seq(Byte)
         /\ index \in Nat /\ quoteAt \in Nat /\ index < quoteAt /\ quoteAt < Len(text)
         /\ Cardinality(Before(index)) \in Nat
<1>1. /\ Spaced /\ Reached(quoteAt) /\ text \in Seq(Byte)
      /\ index \in Nat /\ quoteAt \in Nat /\ index < quoteAt /\ quoteAt < Len(text)
  BY DEF StringInv, StringTypeOK, SecondPassInv, Decoding
<1> QED BY <1>1, BeforeIsFinite

LEMMA CopyByteStep ==
  ASSUME StringInv, CopyByte
  PROVE  StringInv'
<1>1. Decoding /\ At(index) # Backslash /\ Decodes(<<At(index)>>, 1)
  BY DEF CopyByte
<1>2. /\ Spaced /\ Reached(quoteAt) /\ text \in Seq(Byte)
      /\ index \in Nat /\ quoteAt \in Nat /\ index < quoteAt /\ quoteAt < Len(text)
      /\ Cardinality(Before(index)) \in Nat
  BY <1>1, DecodingFacts
<1>3. At(index) \in Int
  <2>1. index < Len(text)
    BY <1>2
  <2>2. At(index) \in Byte
    BY <1>2, <2>1, BytesInText
  <2> QED BY <2>2 DEF Byte
<1>4. <<At(index)>> \in Seq(Int) /\ Len(<<At(index)>>) = 1
  BY <1>3
<1>5. index \notin skipped
  BY <1>1, <1>2 DEF Spaced
<1>6. Before(index + 1) = Before(index)
  BY <1>2, <1>5, OneByte
<1>7. ReadTo(index + 1) = index + 1
  BY <1>2 DEF ReadTo
<1>8. /\ 1 + Cardinality(Before(index + 1))
           <= (ReadTo(index + 1) - index) + Cardinality(Before(index))
      /\ index + 1 <= quoteAt + 1
  BY <1>2, <1>6, <1>7
<1> QED BY <1>1, <1>4, <1>8, DecodeStep

\* The quote may stand right behind the backslash: then this one was not skipped.
LEMMA ShortEscapeStep ==
  ASSUME StringInv, ShortEscape
  PROVE  StringInv'
<1>1. PICK c \in DOMAIN ShortEscapes : Escape(c) /\ Decodes(<<ShortEscapes[c]>>, 2)
  BY DEF ShortEscape
<1>2. Decoding
  BY <1>1 DEF Escape
<1>3. /\ Spaced /\ Reached(quoteAt) /\ text \in Seq(Byte)
      /\ index \in Nat /\ quoteAt \in Nat /\ index < quoteAt /\ quoteAt < Len(text)
      /\ Cardinality(Before(index)) \in Nat
  BY <1>2, DecodingFacts
<1>4. ShortEscapes[c] \in Int
  BY DEF ShortEscapes, Newline, Return, Tab, Quote, Backslash, Slash
<1>5. <<ShortEscapes[c]>> \in Seq(Int) /\ Len(<<ShortEscapes[c]>>) = 1
  BY <1>4
<1>6. 1 + Cardinality(Before(index + 2)) <= (ReadTo(index + 2) - index) + Cardinality(Before(index))
  <2>1. CASE index + 2 <= quoteAt
    <3>1. ReadTo(index + 2) = index + 2
      BY <2>1 DEF ReadTo
    <3>2. Cardinality(Before(index + 2)) <= Cardinality(Before(index)) + 1
      BY <1>3, TwoBytes
    <3>3. Cardinality(Before(index + 2)) \in Nat
      <4>1. index + 2 \in Nat
        BY <1>3
      <4> QED BY <1>3, <4>1, BeforeIsFinite
    <3> QED BY <1>3, <3>1, <3>2, <3>3
  <2>2. CASE index + 2 > quoteAt
    <3>1. ReadTo(index + 2) = index + 1
      BY <1>3, <2>2 DEF ReadTo
    <3>2. Before(index + 2) = Before(index)
      BY <1>3, <2>2 DEF Before, Reached, Spaced
    <3> QED BY <1>3, <3>1, <3>2
  <2> QED BY <1>3, <2>1, <2>2
<1>7. index + 2 <= quoteAt + 1
  BY <1>3
<1> QED BY <1>1, <1>2, <1>5, <1>6, <1>7, DecodeStep

\* An escape that is read up to the quote at most, and writes no more than half.
LEMMA LongEscapeStep ==
  ASSUME StringInv, Decoding, NEW bytes \in Seq(Int), NEW n \in {6, 12},
         Decodes(bytes, n), index + n <= quoteAt, 2 * Len(bytes) <= n
  PROVE  StringInv'
<1>1. /\ Spaced /\ Reached(quoteAt) /\ text \in Seq(Byte)
      /\ index \in Nat /\ quoteAt \in Nat /\ index < quoteAt /\ quoteAt < Len(text)
      /\ Cardinality(Before(index)) \in Nat
  BY DecodingFacts
<1>2. /\ index + 6 \in Nat /\ index + 12 \in Nat /\ index + n \in Nat
      /\ (index + 6) + 6 = index + 12 /\ n \in Nat
  BY <1>1
<1>3. /\ Cardinality(Before(index + 6)) \in Nat /\ Cardinality(Before(index + 12)) \in Nat
      /\ Cardinality(Before(index + n)) \in Nat
  BY <1>1, <1>2, BeforeIsFinite
<1>4. 2 * Cardinality(Before(index + n)) <= 2 * Cardinality(Before(index)) + n
  <2>1. Cardinality(Before(index + 6)) <= Cardinality(Before(index)) + 3
    BY <1>1, SixBytes
  <2>2. Cardinality(Before((index + 6) + 6)) <= Cardinality(Before(index + 6)) + 3
    BY <1>1, <1>2, SixBytes
  <2> DEFINE c(k) == Cardinality(Before(k))
  <2>3. c(index) \in Nat /\ c(index + 6) \in Nat /\ c(index + 12) \in Nat
    BY <1>1, <1>3
  <2>4. c(index + 6) <= c(index) + 3 /\ c(index + 12) <= c(index + 6) + 3
    BY <1>2, <2>1, <2>2
  <2> HIDE DEF c
  <2>5. 2 * c(index + 6) <= 2 * c(index) + 6 /\ 2 * c(index + 12) <= 2 * c(index) + 12
    BY ONLY <2>3, <2>4
  <2>6. 2 * c(index + n) <= 2 * c(index) + n
    <3>1. CASE n = 6
      BY <2>5, <3>1
    <3>2. CASE n = 12
      BY <2>5, <3>2
    <3> QED BY <3>1, <3>2
  <2> QED BY ONLY <2>6 DEF c
<1>5. ReadTo(index + n) = index + n
  BY DEF ReadTo
<1>6. Len(bytes) + Cardinality(Before(index + n))
        <= (ReadTo(index + n) - index) + Cardinality(Before(index))
  <2> DEFINE b == Len(bytes)
             c == Cardinality(Before(index + n))
             d == Cardinality(Before(index))
  <2>1. b \in Nat
    OBVIOUS
  <2>2. c \in Nat /\ d \in Nat /\ index \in Nat /\ n \in Nat
    BY <1>1, <1>2, <1>3
  <2>3. 2 * b <= n /\ 2 * c <= 2 * d + n
    BY <1>4
  <2> HIDE DEF b, c, d
  <2>4. b + c <= n + d
    BY ONLY <2>1, <2>2, <2>3
  <2>5. (index + n) - index = n
    BY ONLY <2>2
  <2>6. b + c <= (ReadTo(index + n) - index) + d
    BY ONLY <1>5, <2>4, <2>5
  <2> QED BY ONLY <2>6 DEF b, c, d
<1>7. index + n <= quoteAt + 1
  BY <1>1, <1>2
<1> QED BY <1>2, <1>6, <1>7, DecodeStep

LEMMA UnicodeEscapeStep ==
  ASSUME StringInv, UnicodeEscape
  PROVE  StringInv'
<1> DEFINE bytes == Utf8(ParseHex4(index + 2))
<1>1. Decoding /\ quoteAt - index >= 6 /\ Decodes(bytes, 6)
  BY DEF UnicodeEscape, Escape, LoneUnit
<1>2. /\ Spaced /\ Reached(quoteAt) /\ text \in Seq(Byte)
      /\ index \in Nat /\ quoteAt \in Nat /\ index < quoteAt /\ quoteAt < Len(text)
      /\ Cardinality(Before(index)) \in Nat
  BY <1>1, DecodingFacts
<1>3. Unit(ParseHex4(index + 2))
  <2>1. index + 2 \in Nat /\ (index + 2) + 3 < Len(text)
    BY <1>1, <1>2
  <2> QED BY <1>2, <2>1, ParseHex4Range
<1>4. bytes \in Seq(Int) /\ Len(bytes) <= 3
  BY <1>3, Utf8Length DEF Unit
<1> HIDE DEF bytes
<1>5. index + 6 <= quoteAt /\ 2 * Len(bytes) <= 6 /\ 6 \in {6, 12}
  BY <1>1, <1>2, <1>4
<1> QED BY <1>1, <1>4, <1>5, LongEscapeStep

LEMMA SurrogatePairStep ==
  ASSUME StringInv, SurrogatePair
  PROVE  StringInv'
<1> DEFINE bytes == Utf8(CodePointOfPair(index))
<1>1. Decoding /\ quoteAt - index >= 12 /\ Decodes(bytes, 12)
  BY DEF SurrogatePair, Escape, Pair
<1>2. /\ Spaced /\ Reached(quoteAt) /\ text \in Seq(Byte)
      /\ index \in Nat /\ quoteAt \in Nat /\ index < quoteAt /\ quoteAt < Len(text)
      /\ Cardinality(Before(index)) \in Nat
  BY <1>1, DecodingFacts
<1>3. CodePointOfPair(index) \in Nat
  <2>1. index + 12 <= Len(text)
    BY <1>1, <1>2
  <2> QED BY <1>2, <2>1, CodePointOfPairRange
<1>4. bytes \in Seq(Int) /\ Len(bytes) <= 4
  BY <1>3, Utf8Length
<1> HIDE DEF bytes
<1>5. index + 12 <= quoteAt /\ 2 * Len(bytes) <= 12 /\ 12 \in {6, 12}
  BY <1>1, <1>2, <1>4
<1> QED BY <1>1, <1>4, <1>5, LongEscapeStep

LEMMA CloseStringStep ==
  ASSUME StringInv, CloseString
  PROVE  StringInv'
<1>1. /\ UNCHANGED <<text, index, output, quoteAt, skipped>>
      /\ pc = "second_pass" /\ pc' = "parsed"
  BY DEF CloseString
<1>2. StringTypeOK'
  BY <1>1 DEF StringInv, StringTypeOK
<1>3. Spaced'
  BY <1>1 DEF StringInv, Spaced, At
<1>4. SecondPassInv'
  BY <1>1 DEF StringInv, SecondPassInv, Reached, At, Paid, ReadTo, Before
<1> QED BY <1>1, <1>2, <1>3, <1>4 DEF StringInv, StartInv, FirstPassInv

LEMMA StringStep ==
  ASSUME StringInv, [StringNext]_svars
  PROVE  StringInv'
<1>1. CASE NotAString
  BY <1>1, FailureStep DEF NotAString
<1>2. CASE OpenString
  BY <1>2, OpenStringStep
<1>3. CASE PassByte
  BY <1>3, PassByteStep
<1>4. CASE PassEscape
  BY <1>4, PassEscapeStep
<1>5. CASE Unterminated
  BY <1>5, FailureStep DEF Unterminated
<1>6. CASE FindQuote
  BY <1>6, FindQuoteStep
<1>7. CASE CopyByte
  BY <1>7, CopyByteStep
<1>8. CASE ShortEscape
  BY <1>8, ShortEscapeStep
<1>9. CASE UnicodeEscape
  BY <1>9, UnicodeEscapeStep
<1>10. CASE SurrogatePair
  BY <1>10, SurrogatePairStep
<1>11. CASE BadEscape
  BY <1>11, FailureStep DEF BadEscape
<1>12. CASE CloseString
  BY <1>12, CloseStringStep
<1>13. CASE UNCHANGED svars
  <2>1. UNCHANGED <<text, pc, index, output, quoteAt, skipped>>
    BY <1>13 DEF svars, literal
  <2>2. StringTypeOK' /\ StartInv'
    BY <2>1 DEF StringInv, StringTypeOK, StartInv
  <2>3. Spaced'
    BY <2>1 DEF StringInv, Spaced, At
  <2>4. FirstPassInv' /\ SecondPassInv'
    BY <2>1 DEF StringInv, FirstPassInv, SecondPassInv, Reached, At, Paid, ReadTo, Before
  <2> QED BY <2>2, <2>3, <2>4 DEF StringInv
<1> QED BY <1>1, <1>2, <1>3, <1>4, <1>5, <1>6, <1>7, <1>8, <1>9, <1>10, <1>11, <1>12, <1>13
        DEF StringNext

LEMMA InvHoldsAtFirst ==
  ASSUME text \in Seq(Byte), StringInit
  PROVE  StringInv
<1>1. skipped = {} /\ output = <<>> /\ pc = "string" /\ index = 0 /\ quoteAt = 0
  BY DEF StringInit
<1>2. Spaced
  BY <1>1, FS_EmptySet DEF Spaced
<1> QED BY <1>1, <1>2 DEF StringInv, StringTypeOK, StartInv, FirstPassInv, SecondPassInv

LEMMA InvMeansFit ==
  ASSUME StringInv
  PROVE  OutputFits
<1> SUFFICES ASSUME pc \in {"second_pass", "parsed"}
             PROVE  Len(output) <= AllocationLength /\ index <= quoteAt + 1
  BY DEF OutputFits
<1>1. /\ Spaced /\ Reached(quoteAt) /\ Paid(index) /\ index <= quoteAt + 1
      /\ index \in Nat /\ quoteAt \in Nat /\ Len(output) \in Nat
  BY DEF StringInv, StringTypeOK, SecondPassInv
<1>2. Cardinality(skipped) \in Nat /\ Cardinality(Before(index)) \in Nat
  BY <1>1, BeforeIsFinite, FS_CardinalityType DEF Spaced
<1>3. Cardinality(skipped) <= Cardinality(Before(index)) + (quoteAt - ReadTo(index))
  <2>1. CASE index <= quoteAt
    <3>1. ReadTo(index) = index
      BY <2>1 DEF ReadTo
    <3> QED BY <1>1, <2>1, <3>1, RestFits
  <2>2. CASE index > quoteAt
    <3>1. ReadTo(index) = quoteAt
      BY <1>1, <2>2 DEF ReadTo
    <3>2. Before(index) = skipped
      <4>1. \A q \in skipped : q \in Nat /\ q + 2 <= quoteAt
        BY <1>1 DEF Spaced, Reached
      <4>2. skipped \subseteq 0 .. index - 1
        BY <1>1, <2>2, <4>1
      <4> QED BY <4>2 DEF Before
    <3> QED BY <1>1, <1>2, <3>1, <3>2
  <2> QED BY <1>1, <2>1, <2>2
<1>4. ReadTo(index) \in Nat
  BY <1>1 DEF ReadTo
<1> QED BY <1>1, <1>2, <1>3, <1>4 DEF Paid, AllocationLength, ContentStart

\* Whatever bytes parse_string is given: the second pass never writes more than the
\* first pass allowed for, and never passes the closing quote by more than the one
\* byte it stops at, also where the two passes disagree on what is escaped.
THEOREM OutputAlwaysFits == StringSpec => []OutputFits
<1>1. text \in Seq(Byte) /\ StringInit => StringInv
  BY InvHoldsAtFirst
<1>2. StringInv /\ [StringNext]_svars => StringInv'
  BY StringStep
<1>3. StringInv => OutputFits
  BY InvMeansFit
<1> QED BY <1>1, <1>2, <1>3, PTL DEF StringSpec

-----------------------------------------------------------------------------
(* minify writes over its own input. *)

Fits == Len(output) <= index /\ index <= Len(text)

MinifyInv ==
  /\ text \in Seq(Byte)
  /\ output \in Seq(Byte)
  /\ index \in Nat
  /\ Fits

\* A byte kept is a byte read.
LEMMA KeepFits ==
  ASSUME MinifyInv, InText(index), Keep, UNCHANGED text
  PROVE  MinifyInv'
<1>1. At(index) \in Byte
  BY DEF MinifyInv, InText, At
<1>2. output' = Append(output, At(index)) /\ index' = index + 1
  BY DEF Keep
<1>3. output' \in Seq(Byte) /\ Len(output') = Len(output) + 1
  BY <1>1, <1>2 DEF MinifyInv
<1> QED BY <1>2, <1>3 DEF MinifyInv, Fits, InText

\* What is dropped is in the text.
LEMMA DropFits ==
  ASSUME MinifyInv, NEW n \in Nat, index + n <= Len(text), Drop(n), UNCHANGED text
  PROVE  MinifyInv'
BY DEF MinifyInv, Fits, Drop

LEMMA MinifyStep ==
  ASSUME MinifyInv, [MinifyNext]_mvars
  PROVE  MinifyInv'
<1>1. CASE UNCHANGED mvars
  BY <1>1 DEF mvars, MinifyInv, Fits
<1>2. CASE MinifyNext
  <2>1. UNCHANGED text
    BY <1>2 DEF MinifyNext
  <2>2. CASE OpenKeptString
    BY <2>1, <2>2, KeepFits DEF OpenKeptString
  <2>3. CASE InString
    BY <2>1, <2>3, KeepFits DEF InString
  <2>4. CASE KeepByte
    BY <2>1, <2>4, KeepFits DEF KeepByte
  <2>5. CASE SkipBlank
    <3>1. Drop(1) /\ index + 1 <= Len(text)
      BY <2>5 DEF SkipBlank, InText, MinifyInv
    <3> QED BY <2>1, <3>1, DropFits
  <2>6. CASE OpenLineComment \/ OpenBlockComment
    <3>1. Drop(2) /\ index + 2 <= Len(text)
      BY <2>6 DEF OpenLineComment, OpenBlockComment, OpensComment, InText, MinifyInv
    <3> QED BY <2>1, <3>1, DropFits
  <2>7. CASE InLineComment
    <3>1. CASE InText(index)
      <4>1. Drop(1) /\ index + 1 <= Len(text)
        BY <2>7, <3>1 DEF InLineComment, InText, MinifyInv
      <4> QED BY <2>1, <4>1, DropFits
    <3>2. CASE ~InText(index)
      <4>1. Drop(0) /\ index + 0 <= Len(text)
        BY <2>7, <3>2 DEF InLineComment, MinifyInv, Fits
      <4> QED BY <2>1, <4>1, DropFits
    <3> QED BY <3>1, <3>2
  <2>8. CASE InBlockComment
    <3>1. CASE InText(index + 1)
      <4>1. (Drop(1) \/ Drop(2)) /\ index + 1 <= Len(text) /\ index + 2 <= Len(text)
        BY <2>8, <3>1 DEF InBlockComment, InText, MinifyInv
      <4> QED BY <2>1, <4>1, DropFits
    <3>2. CASE ~InText(index + 1)
      <4> DEFINE rest == Len(text) - index
      <4>1. Drop(rest)
        BY <2>8, <3>2 DEF InBlockComment
      <4>2. rest \in Nat /\ index + rest <= Len(text)
        BY DEF MinifyInv, Fits
      <4> HIDE DEF rest
      <4> QED BY <2>1, <4>1, <4>2, DropFits
    <3> QED BY <3>1, <3>2
  <2>9. CASE FinishMinify
    BY <2>1, <2>9 DEF FinishMinify, MinifyInv, Fits
  <2> QED BY <1>2, <2>2, <2>3, <2>4, <2>5, <2>6, <2>7, <2>8, <2>9 DEF MinifyNext
<1> QED BY <1>1, <1>2

\* Whatever text minify is given, what it has written is never longer than what it
\* has read (facade.rs: "result is always <= input length").
THEOREM NeverWritesAhead == MinifySpec => []Fits
<1>1. text \in Seq(Byte) /\ MinifyInit => MinifyInv
  BY DEF MinifyInit, MinifyInv, Fits
<1>2. MinifyInv /\ [MinifyNext]_mvars => MinifyInv'
  BY MinifyStep
<1>3. MinifyInv => Fits
  BY DEF MinifyInv
<1> QED BY <1>1, <1>2, <1>3, PTL DEF MinifySpec

-----------------------------------------------------------------------------
(* Sequences put together from pieces. *)

\* What has been joined stays where it is.
Joining(S, seqs, at) ==
  seqs \in Seq(Seq(S)) /\ at \in [0 .. Len(seqs) -> Seq(S)] /\ Joins(seqs, at)

Extended(s, t) == Len(s) <= Len(t) /\ \A k \in 1 .. Len(s) : t[k] = s[k]

LEMMA JoinedStays ==
  ASSUME NEW S, NEW seqs, NEW at, Joining(S, seqs, at),
         NEW i \in 0 .. Len(seqs), NEW j \in i .. Len(seqs)
  PROVE  Extended(at[i], at[j])
<1> USE DEF Joining
<1> DEFINE n == Len(seqs)
           Kept(m) == Len(at[i]) <= Len(at[m]) /\ \A k \in 1 .. Len(at[i]) : at[m][k] = at[i][k]
           Good == {m \in Nat : i + m <= n => Kept(i + m)}
<1>1. n \in Nat /\ \A l \in 1 .. n : seqs[l] \in Seq(S)
  BY ElementOfSeq
<1>2. 0 \in Good
  <2>1. i + 0 = i /\ Len(at[i]) \in Nat
    OBVIOUS
  <2> QED BY <2>1
<1>3. ASSUME NEW m \in Nat, m \in Good PROVE m + 1 \in Good
  <2>1. SUFFICES ASSUME i + (m + 1) <= n PROVE Kept(i + (m + 1))
    OBVIOUS
  <2>2. PICK l : l = i + (m + 1)
    OBVIOUS
  <2>3. l \in 1 .. n /\ l - 1 = i + m /\ i + m <= n /\ l - 1 \in 0 .. n
    BY <1>1, <2>1, <2>2
  <2>4. Kept(l - 1)
    BY <1>3, <2>3
  <2>5. at[l] = at[l - 1] \o seqs[l] /\ at[l - 1] \in Seq(S) /\ seqs[l] \in Seq(S) /\ at[i] \in Seq(S)
    BY <1>1, <2>3 DEF Joins
  <2>6. PICK s1, s2 : s1 = at[l - 1] /\ s2 = seqs[l]
    OBVIOUS
  <2>7. s1 \in Seq(S) /\ s2 \in Seq(S) /\ at[l] = s1 \o s2
    BY <2>5, <2>6
  <2>8. Len(at[l]) = Len(s1) + Len(s2) /\ \A k \in 1 .. Len(s1) : at[l][k] = s1[k]
    BY <2>7, ConcatProperties
  <2>9. Len(at[i]) \in Nat /\ Len(s1) \in Nat /\ Len(s2) \in Nat /\ Len(at[i]) <= Len(s1)
    BY <2>4, <2>5, <2>6, <2>7
  <2>10. ASSUME NEW k \in 1 .. Len(at[i]) PROVE at[l][k] = at[i][k]
    <3>1. k \in 1 .. Len(s1) /\ at[l - 1][k] = at[i][k]
      BY <2>4, <2>9
    <3> QED BY <2>6, <2>8, <3>1
  <2>11. Kept(l)
    BY <2>8, <2>9, <2>10
  <2> QED BY <2>2, <2>11
<1>4. Nat \subseteq Good
  <2> HIDE DEF Good
  <2> QED BY <1>2, <1>3, SetInduction
<1>5. j - i \in Nat /\ i + (j - i) = j /\ j <= n
  BY <1>1
<1>6. j - i \in Good
  BY <1>4, <1>5
<1>7. i + (j - i) <= n => Kept(i + (j - i))
  <2> HIDE DEF Kept
  <2> QED BY <1>6
<1>8. Kept(j)
  <2> HIDE DEF Kept
  <2> QED BY <1>5, <1>7
<1> QED BY <1>8 DEF Extended

\* Where each piece begins, and that it stands there.
Starts(seqs, start) ==
  /\ start[0] = 0
  /\ \A i \in 1 .. Len(seqs) :
       /\ start[i] = start[i - 1] + Len(seqs[i])
       /\ start[i] <= Len(FlattenSeq(seqs))
       /\ \A k \in 1 .. Len(seqs[i]) : FlattenSeq(seqs)[start[i - 1] + k] = seqs[i][k]
  /\ Len(FlattenSeq(seqs)) = start[Len(seqs)]

LEMMA Flattening ==
  ASSUME NEW S, NEW seqs, seqs \in Seq(Seq(S))
  PROVE  /\ FlattenSeq(seqs) \in Seq(S)
         /\ \E start \in [0 .. Len(seqs) -> Nat] : Starts(seqs, start)
<1>1. PICK at \in [0 .. Len(seqs) -> Seq(S)] : Joins(seqs, at)
  BY JoinsExist
<1>2. FlattenSeq(seqs) = at[Len(seqs)]
  BY <1>1, FlattenIsLast
<1>3. Len(seqs) \in 0 .. Len(seqs) /\ Len(seqs) \in Nat /\ \A i \in 1 .. Len(seqs) : seqs[i] \in Seq(S)
  BY ElementOfSeq
<1>4. FlattenSeq(seqs) \in Seq(S)
  BY <1>2, <1>3
<1>5. PICK start : start = [i \in 0 .. Len(seqs) |-> Len(at[i])]
  OBVIOUS
<1>6. start \in [0 .. Len(seqs) -> Nat]
  BY <1>5
<1>7. start[0] = 0
  BY <1>1, <1>3, <1>5 DEF Joins
<1>8. ASSUME NEW i \in 1 .. Len(seqs)
      PROVE  /\ start[i] = start[i - 1] + Len(seqs[i])
             /\ start[i] <= Len(FlattenSeq(seqs))
             /\ \A k \in 1 .. Len(seqs[i]) : FlattenSeq(seqs)[start[i - 1] + k] = seqs[i][k]
  <2>1. i - 1 \in 0 .. Len(seqs) /\ i \in 0 .. Len(seqs) /\ Len(seqs) \in i .. Len(seqs)
    BY <1>3
  <2>2. PICK s1, s2 : s1 = at[i - 1] /\ s2 = seqs[i]
    OBVIOUS
  <2>3. s1 \in Seq(S) /\ s2 \in Seq(S) /\ at[i] = s1 \o s2
    BY <1>1, <1>3, <2>1, <2>2 DEF Joins
  <2>4. /\ Len(at[i]) = Len(s1) + Len(s2)
        /\ \A k \in 1 .. Len(s2) : at[i][Len(s1) + k] = s2[k]
    BY <2>3
  <2>5. /\ Len(at[i]) <= Len(at[Len(seqs)])
        /\ \A k \in 1 .. Len(at[i]) : at[Len(seqs)][k] = at[i][k]
    <3>1. Joining(S, seqs, at)
      BY <1>1 DEF Joining
    <3>2. Extended(at[i], at[Len(seqs)])
      BY <2>1, <3>1, JoinedStays
    <3> QED BY <3>2 DEF Extended
  <2>6. start[i] = Len(at[i]) /\ start[i - 1] = Len(s1)
    BY <1>5, <2>1, <2>2
  <2>7. ASSUME NEW k \in 1 .. Len(s2) PROVE FlattenSeq(seqs)[Len(s1) + k] = s2[k]
    <3>1. Len(s1) + k \in 1 .. Len(at[i])
      BY <2>3, <2>4
    <3> QED BY <1>2, <2>4, <2>5, <3>1
  <2>8. start[i] <= Len(FlattenSeq(seqs))
    BY <1>2, <2>5, <2>6
  <2> QED BY <2>2, <2>4, <2>6, <2>7, <2>8
<1>9. Len(FlattenSeq(seqs)) = start[Len(seqs)]
  BY <1>2, <1>3, <1>5
<1> QED BY <1>4, <1>6, <1>7, <1>8, <1>9 DEF Starts

-----------------------------------------------------------------------------
(* Every variable keeps its type. *)

\* What is decoded are bytes again.
LEMMA Utf8Bytes ==
  ASSUME NEW c \in Nat, c < 1114112
  PROVE  Utf8(c) \in Seq(Byte)
<1>1. ASSUME NEW d \in Nat PROVE 128 + (d % 64) \in Byte
  BY DEF Byte
<1>2. /\ c < 128 => c \in Byte
      /\ c < 2048 => 192 + (c \div 64) \in Byte
      /\ c < 65536 => 224 + (c \div 4096) \in Byte
      /\ 240 + (c \div 262144) \in Byte
  BY SMT DEF Byte
<1>3. /\ c \div 1 \in Nat /\ c \div 64 \in Nat /\ c \div 4096 \in Nat
  BY SMT
<1> DEFINE More(shift) == 128 + ((c \div shift) % 64)
<1>4. More(1) \in Byte /\ More(64) \in Byte /\ More(4096) \in Byte
  BY <1>1, <1>3
<1>5. Utf8(c) = IF c < 128 THEN <<c>>
                ELSE IF c < 2048 THEN <<192 + (c \div 64), More(1)>>
                ELSE IF c < 65536 THEN <<224 + (c \div 4096), More(64), More(1)>>
                ELSE <<240 + (c \div 262144), More(4096), More(64), More(1)>>
  BY DEF Utf8
<1> HIDE DEF More
<1>6. CASE c < 128
  <2>1. Utf8(c) = <<c>>
    BY <1>5, <1>6
  <2> QED BY <1>2, <1>6, <2>1
<1>7. CASE ~(c < 128) /\ c < 2048
  <2>1. Utf8(c) = <<192 + (c \div 64), More(1)>>
    BY <1>5, <1>7
  <2> QED BY <1>2, <1>4, <1>7, <2>1
<1>8. CASE ~(c < 128) /\ ~(c < 2048) /\ c < 65536
  <2>1. Utf8(c) = <<224 + (c \div 4096), More(64), More(1)>>
    BY <1>5, <1>8
  <2> QED BY <1>2, <1>4, <1>8, <2>1
<1>9. CASE ~(c < 128) /\ ~(c < 2048) /\ ~(c < 65536)
  <2>1. Utf8(c) = <<240 + (c \div 262144), More(4096), More(64), More(1)>>
    BY <1>5, <1>9
  <2> QED BY <1>2, <1>4, <2>1
<1> QED BY <1>6, <1>7, <1>8, <1>9

LEMMA PairIsACodePoint ==
  ASSUME text \in Seq(Byte), NEW i \in Nat, i + 12 <= Len(text)
  PROVE  CodePointOfPair(i) \in Nat /\ CodePointOfPair(i) < 1114112
<1>1. /\ i + 2 \in Nat /\ (i + 2) + 3 < Len(text)
      /\ i + 8 \in Nat /\ (i + 8) + 3 < Len(text)
  OBVIOUS
<1>2. Unit(ParseHex4(i + 2)) /\ Unit(ParseHex4(i + 8))
  BY <1>1, ParseHex4Range
<1>3. PICK a, b : a = ParseHex4(i + 2) /\ b = ParseHex4(i + 8)
  OBVIOUS
<1>4. a \in Nat /\ b \in Nat
  BY <1>2, <1>3 DEF Unit
<1>5. a % 1024 \in 0 .. 1023 /\ b % 1024 \in 0 .. 1023
  BY <1>4
<1>6. CodePointOfPair(i) = 65536 + 1024 * (a % 1024) + (b % 1024)
  BY <1>3 DEF CodePointOfPair
<1>7. PICK x, y : x = a % 1024 /\ y = b % 1024
  OBVIOUS
<1>8. x \in 0 .. 1023 /\ y \in 0 .. 1023 /\ CodePointOfPair(i) = 65536 + 1024 * x + y
  BY <1>5, <1>6, <1>7
<1> QED BY ONLY <1>8

LEMMA ShortEscapesAreBytes ==
  ASSUME NEW c \in DOMAIN ShortEscapes
  PROVE  ShortEscapes[c] \in Byte
BY DEF ShortEscapes, Byte, Newline, Return, Tab, Quote, Backslash, Slash

\* What printing writes for a byte.
ShortControls == {8, 12, Newline, Return, Tab}
UnicodeOf(c) == <<Backslash, UnicodeLetter, 48, 48, LowerHex(c \div 16), LowerHex(c % 16)>>

LEMMA EscapedByteIs ==
  ASSUME NEW c \in Byte
  PROVE  /\ c \in {Quote, Backslash} => EscapedByte(c) = <<Backslash, c>>
         /\ c = 8 => EscapedByte(c) = <<Backslash, 98>>
         /\ c = 12 => EscapedByte(c) = <<Backslash, 102>>
         /\ c = Newline => EscapedByte(c) = <<Backslash, 110>>
         /\ c = Return => EscapedByte(c) = <<Backslash, 114>>
         /\ c = Tab => EscapedByte(c) = <<Backslash, 116>>
         /\ c < 32 /\ c \notin ShortControls => EscapedByte(c) = UnicodeOf(c)
         /\ c >= 32 /\ c \notin {Quote, Backslash} => EscapedByte(c) = <<c>>
BY DEF EscapedByte, UnicodeOf, ShortControls, Byte, Newline, Return, Tab, Quote, Backslash

LEMMA HexDigits ==
  ASSUME NEW d \in 0 .. 15
  PROVE  LowerHex(d) \in Byte /\ IsHex(LowerHex(d)) /\ HexValue(LowerHex(d)) = d
BY DEF LowerHex, Byte, IsHex, HexValue, Digits

LEMMA EscapedByteType ==
  ASSUME NEW c \in Byte
  PROVE  EscapedByte(c) \in Seq(Byte)
<1>1. c \in {Quote, Backslash} \/ c = 8 \/ c = 12 \/ c = Newline \/ c = Return \/ c = Tab
        \/ (c < 32 /\ c \notin ShortControls) \/ (c >= 32 /\ c \notin {Quote, Backslash})
  BY DEF ShortControls, Byte
<1>2. /\ Quote \in Byte /\ Backslash \in Byte /\ UnicodeLetter \in Byte
      /\ 98 \in Byte /\ 102 \in Byte /\ 110 \in Byte /\ 114 \in Byte /\ 116 \in Byte /\ 48 \in Byte
  BY DEF Byte, Quote, Backslash, UnicodeLetter
<1>3. c < 32 => LowerHex(c \div 16) \in Byte /\ LowerHex(c % 16) \in Byte
  <2>1. c < 32 => c \div 16 \in 0 .. 15 /\ c % 16 \in 0 .. 15
    BY DEF Byte
  <2> QED BY <2>1, HexDigits
<1>4. c < 32 => UnicodeOf(c) \in Seq(Byte)
  BY <1>2, <1>3 DEF UnicodeOf
<1>5. CASE c \in {Quote, Backslash}
  <2>1. EscapedByte(c) = <<Backslash, c>>
    BY <1>5, EscapedByteIs
  <2> QED BY <1>2, <2>1
<1>6. CASE c < 32 /\ c \notin ShortControls
  <2>1. EscapedByte(c) = UnicodeOf(c)
    BY <1>6, EscapedByteIs
  <2> QED BY <1>4, <1>6, <2>1
<1>7. CASE c >= 32 /\ c \notin {Quote, Backslash}
  <2>1. EscapedByte(c) = <<c>>
    BY <1>7, EscapedByteIs
  <2> QED BY <2>1
<1>8. CASE c \in {8, 12, Newline, Return, Tab}
  <2>1. \E d \in {98, 102, 110, 114, 116} : EscapedByte(c) = <<Backslash, d>>
    BY <1>8, EscapedByteIs
  <2> QED BY <1>2, <2>1
<1> QED BY <1>1, <1>5, <1>6, <1>7, <1>8

LEMMA EscapeJsonBytesType ==
  ASSUME NEW s, s \in Seq(Byte)
  PROVE  EscapeJsonBytes(s) \in Seq(Byte)
<1>1. PICK seqs : seqs = [i \in 1 .. Len(s) |-> EscapedByte(s[i])]
  OBVIOUS
<1>2. seqs \in Seq(Seq(Byte))
  <2>1. \A i \in 1 .. Len(s) : EscapedByte(s[i]) \in Seq(Byte)
    BY EscapedByteType, ElementOfSeq
  <2> QED BY <1>1, <2>1
<1>3. FlattenSeq(seqs) \in Seq(Byte)
  BY ONLY <1>2, Flattening
<1>4. <<Quote>> \in Seq(Byte)
  BY DEF Quote, Byte
<1> QED BY <1>1, <1>3, <1>4, ConcatProperties DEF EscapeJsonBytes

-----------------------------------------------------------------------------
(* Numbers. *)

\* A run ends at the first byte that is none of these, or with the text.
LEMMA RunEndIs ==
  ASSUME NEW s, s \in Seq(Byte), NEW i \in 0 .. Len(s), NEW bytes
  PROVE  /\ RunEnd(s, i, bytes) \in i .. Len(s)
         /\ \A k \in i .. RunEnd(s, i, bytes) - 1 : Has(s, k, bytes)
         /\ ~Has(s, RunEnd(s, i, bytes), bytes)
<1> DEFINE stops == {j \in i .. Len(s) : ~Has(s, j, bytes)}
<1>1. Len(s) \in Nat
  OBVIOUS
<1>2. Len(s) \in stops
  BY <1>1 DEF Has
<1>3. stops \subseteq Nat
  BY <1>1
<1>4. \E x \in stops : \A y \in stops : x <= y
  BY <1>2, <1>3, LeastNatural
<1>5. RunEnd(s, i, bytes) = CHOOSE x \in stops : \A y \in stops : x <= y
  BY DEF RunEnd, Min
<1>6. RunEnd(s, i, bytes) \in stops /\ \A y \in stops : RunEnd(s, i, bytes) <= y
  BY <1>4, <1>5
<1>7. ASSUME NEW k \in i .. RunEnd(s, i, bytes) - 1 PROVE Has(s, k, bytes)
  <2>1. k \in i .. Len(s) /\ ~(RunEnd(s, i, bytes) <= k)
    BY <1>1, <1>6
  <2> QED BY <1>6, <2>1
<1> QED BY <1>6, <1>7

\* The places a run of such bytes leads to.
LEMMA RunLeadsTo ==
  ASSUME NEW s, s \in Seq(Byte), NEW i \in 0 .. Len(s), NEW bytes,
         NEW j \in 1 .. Len(s)
  PROVE  (i < j /\ \A k \in i .. j - 1 : Has(s, k, bytes)) <=> j \in i + 1 .. RunEnd(s, i, bytes)
<1>1. PICK e : e = RunEnd(s, i, bytes)
  OBVIOUS
<1>2. e \in i .. Len(s) /\ (\A k \in i .. e - 1 : Has(s, k, bytes)) /\ ~Has(s, e, bytes)
  BY <1>1, RunEndIs
<1>3. ASSUME i < j, \A k \in i .. j - 1 : Has(s, k, bytes) PROVE j \in i + 1 .. e
  <2>1. ~(e \in i .. j - 1)
    BY <1>2, <1>3
  <2> QED BY <1>2, <1>3, <2>1
<1>4. ASSUME j \in i + 1 .. e PROVE i < j /\ \A k \in i .. j - 1 : Has(s, k, bytes)
  BY <1>2, <1>4
<1> QED BY <1>1, <1>3, <1>4

\* No byte is two of these.
LEMMA NumberBytesDiffer ==
  \A b : /\ b \in Digits => b \notin Signs /\ b \notin {Dot} /\ b \notin ExponentMarks
         /\ b \in Signs => b \notin {Dot} /\ b \notin ExponentMarks
         /\ b \in {Dot} => b \notin ExponentMarks
BY DEF Digits, Signs, Dot, ExponentMarks, Plus, Minus

LEMMA HasOne ==
  ASSUME NEW s, NEW i
  PROVE  /\ Has(s, i, Digits) => ~Has(s, i, Signs) /\ ~Has(s, i, {Dot}) /\ ~Has(s, i, ExponentMarks)
         /\ Has(s, i, Signs) => ~Has(s, i, {Dot}) /\ ~Has(s, i, ExponentMarks)
         /\ Has(s, i, {Dot}) => ~Has(s, i, ExponentMarks)
BY NumberBytesDiffer DEF Has

\* NumberEnds of any text.
OneMore(s, from, bytes) == {i + 1 : i \in {j \in from : Has(s, j, bytes)}}
SomeMore(s, from, bytes) ==
  {j \in 1 .. Len(s) : \E i \in from : i < j /\ \A k \in i .. j - 1 : Has(s, k, bytes)}
SignedOf(s) == {0} \cup OneMore(s, {0}, Signs)
WholeOf(s) == SomeMore(s, SignedOf(s), Digits)
PointedOf(s) == OneMore(s, WholeOf(s), {Dot})
FractionOf(s) == SomeMore(s, PointedOf(s) \cup OneMore(s, SignedOf(s), {Dot}), Digits)
MantissaOf(s) == WholeOf(s) \cup PointedOf(s) \cup FractionOf(s)
MarkedOf(s) == OneMore(s, MantissaOf(s), ExponentMarks)
ExponentOf(s) == SomeMore(s, MarkedOf(s) \cup OneMore(s, MarkedOf(s), Signs), Digits)

LEMMA NumberEndsIs == NumberEnds = MantissaOf(text) \cup ExponentOf(text)
BY DEF NumberEnds, MantissaOf, ExponentOf, OneMore, SomeMore, SignedOf, WholeOf, PointedOf,
       FractionOf, MarkedOf

\* Where the digits, the point and the fraction of MantissaEnd stand.
WholeAt(s) == IF Has(s, 0, Signs) THEN 1 ELSE 0
DotAt(s) == RunEnd(s, WholeAt(s), Digits)
FractionEnd(s) == IF Has(s, DotAt(s), {Dot}) THEN RunEnd(s, DotAt(s) + 1, Digits) ELSE DotAt(s)

LEMMA MantissaEndIs ==
  ASSUME NEW s
  PROVE  MantissaEnd(s) = IF DotAt(s) = WholeAt(s) /\ FractionEnd(s) <= DotAt(s) + 1
                            THEN 0 ELSE FractionEnd(s)
BY DEF MantissaEnd, WholeAt, DotAt, FractionEnd

\* Each place stands where the run before it ends.
Placed(s) ==
  /\ Len(s) \in Nat
  /\ WholeAt(s) \in 0 .. Len(s)
  /\ DotAt(s) \in WholeAt(s) .. Len(s)
  /\ \A k \in WholeAt(s) .. DotAt(s) - 1 : Has(s, k, Digits)
  /\ ~Has(s, DotAt(s), Digits)
  /\ FractionEnd(s) \in DotAt(s) .. Len(s)
  /\ Has(s, DotAt(s), {Dot}) =>
       /\ DotAt(s) + 1 \in 0 .. Len(s) /\ FractionEnd(s) >= DotAt(s) + 1
       /\ \A k \in DotAt(s) + 1 .. FractionEnd(s) - 1 : Has(s, k, Digits)
  /\ ~Has(s, DotAt(s), {Dot}) => FractionEnd(s) = DotAt(s)
  /\ ~Has(s, FractionEnd(s), Digits)

LEMMA MantissaPlaces ==
  ASSUME NEW s, s \in Seq(Byte)
  PROVE  Placed(s)
<1>1. Len(s) \in Nat
  OBVIOUS
<1>2. WholeAt(s) \in 0 .. Len(s)
  BY <1>1 DEF WholeAt, Has
<1>3. /\ DotAt(s) \in WholeAt(s) .. Len(s)
      /\ \A k \in WholeAt(s) .. DotAt(s) - 1 : Has(s, k, Digits)
      /\ ~Has(s, DotAt(s), Digits)
  BY <1>2, RunEndIs DEF DotAt
<1>4. CASE Has(s, DotAt(s), {Dot})
  <2>1. DotAt(s) + 1 \in 0 .. Len(s)
    BY <1>1, <1>2, <1>3, <1>4 DEF Has
  <2>2. FractionEnd(s) = RunEnd(s, DotAt(s) + 1, Digits)
    BY <1>4 DEF FractionEnd
  <2>3. PICK i : i = DotAt(s) + 1
    OBVIOUS
  <2>4. /\ FractionEnd(s) \in i .. Len(s)
        /\ \A k \in i .. FractionEnd(s) - 1 : Has(s, k, Digits)
        /\ ~Has(s, FractionEnd(s), Digits)
    BY <2>1, <2>2, <2>3, RunEndIs
  <2> QED BY <1>1, <1>2, <1>3, <1>4, <2>1, <2>3, <2>4 DEF Placed
<1>5. CASE ~Has(s, DotAt(s), {Dot})
  <2>1. FractionEnd(s) = DotAt(s)
    BY <1>5 DEF FractionEnd
  <2> QED BY <1>1, <1>2, <1>3, <1>5, <2>1 DEF Placed
<1> QED BY <1>4, <1>5

\* One step from a set of places, or a run from it, is one from its last place when
\* the others hold another kind of byte.
LEMMA SignedIs ==
  ASSUME NEW s, s \in Seq(Byte), NEW i
  PROVE  i \in SignedOf(s) <=> i = 0 \/ (i = 1 /\ Has(s, 0, Signs))
BY DEF SignedOf, OneMore

LEMMA WholeIs ==
  ASSUME NEW s, s \in Seq(Byte), NEW j
  PROVE  j \in WholeOf(s) <=> j \in WholeAt(s) + 1 .. DotAt(s)
<1>1. /\ Len(s) \in Nat
      /\ WholeAt(s) \in 0 .. Len(s) /\ DotAt(s) \in WholeAt(s) .. Len(s)
  BY MantissaPlaces DEF Placed
<1>2. j \in WholeOf(s) <=>
        /\ j \in 1 .. Len(s)
        /\ \E i \in SignedOf(s) : i < j /\ \A k \in i .. j - 1 : Has(s, k, Digits)
  BY DEF WholeOf, SomeMore
<1>3. ASSUME j \in 1 .. Len(s), NEW i \in SignedOf(s), i < j, \A k \in i .. j - 1 : Has(s, k, Digits)
      PROVE  i = WholeAt(s)
  <2>1. i \in i .. j - 1
    BY <1>3, SignedIs
  <2>2. ~Has(s, i, Signs)
    BY <1>3, <2>1, HasOne
  <2> QED BY <2>2, SignedIs DEF WholeAt
<1>4. WholeAt(s) \in SignedOf(s)
  BY SignedIs DEF WholeAt
<1>5. j \in WholeOf(s) <=>
        /\ j \in 1 .. Len(s)
        /\ WholeAt(s) < j /\ \A k \in WholeAt(s) .. j - 1 : Has(s, k, Digits)
  BY <1>2, <1>3, <1>4
<1>6. CASE j \in 1 .. Len(s)
  <2>1. (WholeAt(s) < j /\ \A k \in WholeAt(s) .. j - 1 : Has(s, k, Digits))
           <=> j \in WholeAt(s) + 1 .. DotAt(s)
    BY <1>1, <1>6, RunLeadsTo DEF DotAt
  <2> QED BY <1>5, <1>6, <2>1
<1>7. CASE j \notin 1 .. Len(s)
  BY <1>1, <1>5, <1>7
<1> QED BY <1>6, <1>7

LEMMA PointedIs ==
  ASSUME NEW s, s \in Seq(Byte), NEW j
  PROVE  /\ j \in PointedOf(s) <=> j = DotAt(s) + 1 /\ Has(s, DotAt(s), {Dot}) /\ DotAt(s) > WholeAt(s)
         /\ j \in PointedOf(s) \cup OneMore(s, SignedOf(s), {Dot})
              <=> j = DotAt(s) + 1 /\ Has(s, DotAt(s), {Dot})
<1>1. /\ Len(s) \in Nat
      /\ WholeAt(s) \in 0 .. Len(s) /\ DotAt(s) \in WholeAt(s) .. Len(s)
      /\ \A k \in WholeAt(s) .. DotAt(s) - 1 : Has(s, k, Digits)
  BY MantissaPlaces DEF Placed
<1>2. j \in PointedOf(s) <=> \E i \in WholeOf(s) : Has(s, i, {Dot}) /\ j = i + 1
  BY DEF PointedOf, OneMore
<1>3. ASSUME NEW i \in WholeOf(s), Has(s, i, {Dot}) PROVE i = DotAt(s) /\ DotAt(s) > WholeAt(s)
  <2>1. i \in WholeAt(s) + 1 .. DotAt(s)
    BY WholeIs
  <2>2. ~(i \in WholeAt(s) .. DotAt(s) - 1)
    BY <1>1, <1>3, HasOne
  <2> QED BY <1>1, <2>1, <2>2
<1>4. DotAt(s) > WholeAt(s) => DotAt(s) \in WholeOf(s)
  BY <1>1, WholeIs
<1>5. j \in PointedOf(s) <=> j = DotAt(s) + 1 /\ Has(s, DotAt(s), {Dot}) /\ DotAt(s) > WholeAt(s)
  BY <1>2, <1>3, <1>4
<1>6. j \in OneMore(s, SignedOf(s), {Dot}) <=> \E i \in SignedOf(s) : Has(s, i, {Dot}) /\ j = i + 1
  BY DEF OneMore
<1>7. ASSUME NEW i \in SignedOf(s), Has(s, i, {Dot}) PROVE i = DotAt(s)
  <2>1. i = WholeAt(s)
    BY <1>7, SignedIs, HasOne DEF WholeAt
  <2>2. ~Has(s, WholeAt(s), Digits)
    BY <1>7, <2>1, HasOne
  <2>3. ~(WholeAt(s) \in WholeAt(s) .. DotAt(s) - 1)
    BY <1>1, <2>2
  <2> QED BY <1>1, <2>1, <2>3
<1>8. WholeAt(s) \in SignedOf(s)
  BY SignedIs DEF WholeAt
<1>9. DotAt(s) > WholeAt(s) \/ DotAt(s) = WholeAt(s)
  BY <1>1
<1>10. j \in PointedOf(s) \cup OneMore(s, SignedOf(s), {Dot})
              <=> j = DotAt(s) + 1 /\ Has(s, DotAt(s), {Dot})
  BY <1>5, <1>6, <1>7, <1>8, <1>9
<1> QED BY <1>5, <1>10

LEMMA MantissaIs ==
  ASSUME NEW s, s \in Seq(Byte), NEW j
  PROVE  j \in MantissaOf(s) <=>
           \/ j \in WholeAt(s) + 1 .. DotAt(s)
           \/ /\ Has(s, DotAt(s), {Dot})
              /\ \/ j = DotAt(s) + 1 /\ DotAt(s) > WholeAt(s)
                 \/ j \in DotAt(s) + 2 .. FractionEnd(s)
<1> DEFINE point == DotAt(s) + 1
<1>1. /\ Len(s) \in Nat /\ WholeAt(s) \in 0 .. Len(s) /\ DotAt(s) \in WholeAt(s) .. Len(s)
      /\ FractionEnd(s) \in DotAt(s) .. Len(s)
      /\ Has(s, DotAt(s), {Dot}) => point \in 0 .. Len(s)
  BY MantissaPlaces DEF Placed
<1>2. j \in FractionOf(s) <=>
        /\ j \in 1 .. Len(s)
        /\ \E i \in PointedOf(s) \cup OneMore(s, SignedOf(s), {Dot}) :
             i < j /\ \A k \in i .. j - 1 : Has(s, k, Digits)
  BY DEF FractionOf, SomeMore
<1>3. \A i : i \in PointedOf(s) \cup OneMore(s, SignedOf(s), {Dot}) <=> i = point /\ Has(s, DotAt(s), {Dot})
  BY PointedIs
<1>4. j \in FractionOf(s) <=>
        /\ j \in 1 .. Len(s) /\ Has(s, DotAt(s), {Dot})
        /\ point < j /\ \A k \in point .. j - 1 : Has(s, k, Digits)
  <2> HIDE DEF point
  <2> QED BY <1>2, <1>3
<1>5. j \in FractionOf(s) <=> Has(s, DotAt(s), {Dot}) /\ j \in DotAt(s) + 2 .. FractionEnd(s)
  <2>1. CASE Has(s, DotAt(s), {Dot}) /\ j \in 1 .. Len(s)
    <3>1. FractionEnd(s) = RunEnd(s, point, Digits)
      BY <2>1 DEF FractionEnd
    <3>2. point \in 0 .. Len(s)
      BY <1>1, <2>1
    <3>3. (point < j /\ \A k \in point .. j - 1 : Has(s, k, Digits)) <=> j \in point + 1 .. FractionEnd(s)
      <4> HIDE DEF point
      <4> QED BY <2>1, <3>1, <3>2, RunLeadsTo
    <3>4. point + 1 = DotAt(s) + 2
      BY <1>1
    <3> HIDE DEF point
    <3> QED BY <1>4, <2>1, <3>3, <3>4
  <2>2. CASE j \notin 1 .. Len(s)
    BY <1>1, <1>4, <2>2
  <2>3. CASE ~Has(s, DotAt(s), {Dot})
    BY <1>4, <2>3
  <2> QED BY <2>1, <2>2, <2>3
<1> QED BY <1>5, WholeIs, PointedIs DEF MantissaOf

\* The longest mantissa is the one MantissaEnd finds; the shorter ones end at a digit
\* or at the point.
LEMMA MantissaLongest ==
  ASSUME NEW s, s \in Seq(Byte)
  PROVE  /\ MantissaEnd(s) = 0 => MantissaOf(s) = {}
         /\ MantissaEnd(s) # 0 =>
              /\ MantissaEnd(s) \in MantissaOf(s) /\ MantissaEnd(s) \in 1 .. Len(s)
              /\ \A j \in MantissaOf(s) :
                   j \in Nat /\ j <= MantissaEnd(s) /\ (j # MantissaEnd(s) => ~Has(s, j, ExponentMarks))
<1>1. Placed(s)
  BY MantissaPlaces
<1>3. CASE DotAt(s) = WholeAt(s) /\ FractionEnd(s) <= DotAt(s) + 1
  <2>1. MantissaEnd(s) = 0
    BY <1>3, MantissaEndIs
  <2>2. \A j : j \notin MantissaOf(s)
    BY <1>1, <1>3, MantissaIs DEF Placed
  <2> QED BY <2>1, <2>2
<1>4. CASE ~(DotAt(s) = WholeAt(s) /\ FractionEnd(s) <= DotAt(s) + 1)
  <2>1. MantissaEnd(s) = FractionEnd(s)
    BY <1>4, MantissaEndIs
  <2>2. FractionEnd(s) \in 1 .. Len(s)
    BY <1>1, <1>4 DEF Placed
  <2>3. FractionEnd(s) \in MantissaOf(s)
    <3>1. CASE Has(s, DotAt(s), {Dot})
      <4>1. FractionEnd(s) \in Nat /\ DotAt(s) \in Nat /\ WholeAt(s) \in Nat
        BY <1>1 DEF Placed
      <4>2. FractionEnd(s) >= DotAt(s) + 1 /\ DotAt(s) >= WholeAt(s)
        BY <1>1, <3>1 DEF Placed
      <4>3. \/ FractionEnd(s) = DotAt(s) + 1 /\ DotAt(s) > WholeAt(s)
            \/ FractionEnd(s) \in DotAt(s) + 2 .. FractionEnd(s)
        BY <1>4, <4>1, <4>2
      <4> QED BY <3>1, <4>3, MantissaIs
    <3>2. CASE ~Has(s, DotAt(s), {Dot})
      BY <1>1, <1>4, <3>2, MantissaIs DEF Placed
    <3> QED BY <3>1, <3>2
  <2>4. ASSUME NEW j \in MantissaOf(s)
        PROVE  j \in Nat /\ j <= FractionEnd(s) /\ (j # FractionEnd(s) => ~Has(s, j, ExponentMarks))
    <3>1. \/ j \in WholeAt(s) + 1 .. DotAt(s)
          \/ /\ Has(s, DotAt(s), {Dot})
             /\ \/ j = DotAt(s) + 1 /\ DotAt(s) > WholeAt(s)
                \/ j \in DotAt(s) + 2 .. FractionEnd(s)
      BY MantissaIs
    <3>2. j \in Nat /\ j <= FractionEnd(s)
      BY <1>1, <3>1 DEF Placed
    <3>3. ASSUME j # FractionEnd(s) PROVE Has(s, j, Digits) \/ Has(s, j, {Dot})
      BY <1>1, <3>1, <3>3 DEF Placed
    <3> QED BY <3>2, <3>3, HasOne
  <2> QED BY <2>1, <2>2, <2>3, <2>4
<1> QED BY <1>3, <1>4

LEMMA MarkedIs ==
  ASSUME NEW s, s \in Seq(Byte), NEW j
  PROVE  /\ MantissaEnd(s) = 0 => j \notin MarkedOf(s)
         /\ MantissaEnd(s) # 0 =>
              (j \in MarkedOf(s) <=> j = MantissaEnd(s) + 1 /\ Has(s, MantissaEnd(s), ExponentMarks))
<1>1. j \in MarkedOf(s) <=> \E i \in MantissaOf(s) : Has(s, i, ExponentMarks) /\ j = i + 1
  BY DEF MarkedOf, OneMore
<1> QED BY <1>1, MantissaLongest

\* Where the digits of the exponent begin.
ExponentAt(s, mark) == IF Has(s, mark + 1, Signs) THEN mark + 2 ELSE mark + 1

LEMMA ExponentEndIs ==
  ASSUME NEW s, NEW mark
  PROVE  ExponentEnd(s, mark) = IF Has(s, mark, ExponentMarks) /\ Has(s, ExponentAt(s, mark), Digits)
                                  THEN RunEnd(s, ExponentAt(s, mark), Digits) ELSE mark
BY DEF ExponentEnd, ExponentAt

LEMMA ExponentIs ==
  ASSUME NEW s, s \in Seq(Byte), NEW j
  PROVE  /\ MantissaEnd(s) = 0 => j \notin ExponentOf(s)
         /\ MantissaEnd(s) # 0 =>
              /\ Has(s, MantissaEnd(s), ExponentMarks) =>
                   /\ ExponentAt(s, MantissaEnd(s)) \in MantissaEnd(s) + 1 .. Len(s)
                   /\ j \in ExponentOf(s) <=>
                        j \in ExponentAt(s, MantissaEnd(s)) + 1
                                .. RunEnd(s, ExponentAt(s, MantissaEnd(s)), Digits)
              /\ ~Has(s, MantissaEnd(s), ExponentMarks) => j \notin ExponentOf(s)
<1> DEFINE from == MarkedOf(s) \cup OneMore(s, MarkedOf(s), Signs)
           mark == MantissaEnd(s)
           digits == ExponentAt(s, MantissaEnd(s))
<1>1. j \in ExponentOf(s) <=>
        /\ j \in 1 .. Len(s)
        /\ \E i \in from : i < j /\ \A k \in i .. j - 1 : Has(s, k, Digits)
  BY DEF ExponentOf, SomeMore
<1>2. \A i : i \in from <=> i \in MarkedOf(s) \/ \E l \in MarkedOf(s) : Has(s, l, Signs) /\ i = l + 1
  BY DEF OneMore
<1>3. CASE mark = 0 \/ ~Has(s, mark, ExponentMarks)
  <2>1. \A i : i \notin MarkedOf(s)
    BY <1>3, MarkedIs
  <2>2. \A i : i \notin from
    <3> HIDE DEF from
    <3> QED BY <1>2, <2>1
  <2> HIDE DEF from
  <2> QED BY <1>1, <1>3, <2>2
<1>4. CASE mark # 0 /\ Has(s, mark, ExponentMarks)
  <2>1. mark \in 1 .. Len(s) /\ Len(s) \in Nat
    BY <1>4, MantissaLongest
  <2>2. \A i : i \in MarkedOf(s) <=> i = mark + 1
    BY <1>4, MarkedIs
  <2>3. \A i : i \in from <=> i = mark + 1 \/ (Has(s, mark + 1, Signs) /\ i = mark + 2)
    <3>1. (mark + 1) + 1 = mark + 2
      BY <2>1
    <3> HIDE DEF from, mark
    <3> QED BY <1>2, <2>2, <3>1
  <2>4. digits \in from
    <3> HIDE DEF from
    <3> QED BY <2>3 DEF ExponentAt
  <2>5. digits \in mark + 1 .. Len(s)
    BY <1>4, <2>1 DEF ExponentAt, Has
  <2>6. ASSUME NEW i \in from, i < j, j \in 1 .. Len(s), \A k \in i .. j - 1 : Has(s, k, Digits)
        PROVE  i = digits
    <3>1. i \in Nat
      <4> HIDE DEF from
      <4> QED BY <2>1, <2>3, <2>6
    <3>2. Has(s, i, Digits)
      BY <2>6, <3>1
    <3>3. ~Has(s, i, Signs)
      BY <3>2, HasOne
    <3> HIDE DEF from
    <3> QED BY <2>3, <2>6, <3>3 DEF ExponentAt
  <2> HIDE DEF from
  <2>7. j \in ExponentOf(s) <=>
          j \in 1 .. Len(s) /\ digits < j /\ \A k \in digits .. j - 1 : Has(s, k, Digits)
    BY <1>1, <2>4, <2>6
  <2>8. digits \in 0 .. Len(s)
    BY <2>1, <2>5
  <2>9. j \in 1 .. Len(s) =>
          ((digits < j /\ \A k \in digits .. j - 1 : Has(s, k, Digits)) <=> j \in digits + 1 .. RunEnd(s, digits, Digits))
    <3> HIDE DEF digits
    <3> QED BY <2>8, RunLeadsTo
  <2>10. RunEnd(s, digits, Digits) \in digits .. Len(s)
    <3> HIDE DEF digits
    <3> QED BY <2>8, RunEndIs
  <2>11. j \in digits + 1 .. RunEnd(s, digits, Digits) => j \in 1 .. Len(s)
    BY <2>1, <2>8, <2>10
  <2>12. j \in ExponentOf(s) <=> j \in digits + 1 .. RunEnd(s, digits, Digits)
    BY <2>7, <2>9, <2>11
  <2> QED BY <1>4, <2>5, <2>12
<1> QED BY <1>3, <1>4

\* What strtod_prefix_len returns is the longest prefix that is a number.
LEMMA LongestPrefix ==
  ASSUME NEW s, s \in Seq(Byte)
  PROVE  /\ StrtodPrefixLen(s) = 0 => MantissaOf(s) \cup ExponentOf(s) = {}
         /\ StrtodPrefixLen(s) # 0 =>
              /\ StrtodPrefixLen(s) \in MantissaOf(s) \cup ExponentOf(s)
              /\ StrtodPrefixLen(s) \in 1 .. Len(s)
              /\ \A j \in MantissaOf(s) \cup ExponentOf(s) : StrtodPrefixLen(s) >= j
<1> DEFINE mark == MantissaEnd(s)
           digits == ExponentAt(s, MantissaEnd(s))
<1>1. CASE mark = 0
  BY <1>1, MantissaLongest, ExponentIs DEF StrtodPrefixLen
<1>2. CASE mark # 0
  <2>1. /\ mark \in MantissaOf(s) /\ mark \in 1 .. Len(s) /\ Len(s) \in Nat
        /\ \A j \in MantissaOf(s) : j \in Nat /\ j <= mark
    BY <1>2, MantissaLongest
  <2>2. StrtodPrefixLen(s) = ExponentEnd(s, mark)
    BY <1>2 DEF StrtodPrefixLen
  <2>3. CASE ~Has(s, mark, ExponentMarks)
    <3>1. StrtodPrefixLen(s) = mark
      BY <2>2, <2>3, ExponentEndIs
    <3>2. \A j : j \notin ExponentOf(s)
      BY <1>2, <2>3, ExponentIs
    <3> QED BY <1>2, <2>1, <3>1, <3>2
  <2>4. CASE Has(s, mark, ExponentMarks)
    <3>1. digits \in mark + 1 .. Len(s)
      BY <1>2, <2>4, ExponentIs
    <3>2. \A j : j \in ExponentOf(s) <=> j \in digits + 1 .. RunEnd(s, digits, Digits)
      BY <1>2, <2>4, ExponentIs
    <3>3. digits \in 0 .. Len(s)
      BY <2>1, <3>1
    <3>4. /\ RunEnd(s, digits, Digits) \in digits .. Len(s)
          /\ \A k \in digits .. RunEnd(s, digits, Digits) - 1 : Has(s, k, Digits)
          /\ ~Has(s, RunEnd(s, digits, Digits), Digits)
      <4> HIDE DEF digits
      <4> QED BY <3>3, RunEndIs
    <3> DEFINE end == RunEnd(s, digits, Digits)
    <3>5. CASE Has(s, digits, Digits)
      <4>1. StrtodPrefixLen(s) = end
        BY <2>2, <2>4, <3>5, ExponentEndIs
      <4>2. end # digits
        BY <3>4, <3>5
      <4> HIDE DEF digits, mark, end
      <4>3. end \in digits + 1 .. end /\ end \in 1 .. Len(s) /\ end >= mark
        BY <2>1, <3>1, <3>4, <4>2 DEF end
      <4>4. end \in ExponentOf(s)
        BY <3>2, <4>3 DEF end
      <4>5. \A j \in ExponentOf(s) : end >= j
        BY <2>1, <3>2, <3>3, <4>3 DEF end
      <4>6. \A j \in MantissaOf(s) : end >= j
        BY <2>1, <4>3
      <4>7. end # 0
        BY <4>3
      <4> QED BY <4>1, <4>3, <4>4, <4>5, <4>6, <4>7
    <3>6. CASE ~Has(s, digits, Digits)
      <4>1. StrtodPrefixLen(s) = mark
        BY <2>2, <3>6, ExponentEndIs
      <4>2. end = digits
        <5> HIDE DEF digits
        <5>1. ~(digits \in digits .. end - 1)
          BY <3>4, <3>6
        <5> QED BY <2>1, <3>3, <3>4, <5>1
      <4>3. \A j : j \notin ExponentOf(s)
        <5> HIDE DEF digits, end
        <5> QED BY <3>2, <3>3, <4>2 DEF end
      <4> QED BY <1>2, <2>1, <4>1, <4>3
    <3> QED BY <3>5, <3>6
  <2> QED BY <2>3, <2>4
<1> QED BY <1>1, <1>2

\* The bytes behind the first that no number holds make no difference.
LEMMA CandidateIsEnough ==
  ASSUME NEW s, s \in Seq(Byte)
  PROVE  /\ SubSeq(s, 1, RunEnd(s, 0, NumberBytes)) \in Seq(Byte)
         /\ Len(SubSeq(s, 1, RunEnd(s, 0, NumberBytes))) <= Len(s)
         /\ StrtodPrefixLen(SubSeq(s, 1, RunEnd(s, 0, NumberBytes))) = StrtodPrefixLen(s)
<1>1. PICK c, t : c = RunEnd(s, 0, NumberBytes) /\ t = SubSeq(s, 1, c)
  OBVIOUS
<1>2. c \in 0 .. Len(s) /\ ~Has(s, c, NumberBytes) /\ Len(s) \in Nat
  <2>1. 0 \in 0 .. Len(s)
    OBVIOUS
  <2> QED BY <1>1, <2>1, RunEndIs
<1>3. t \in Seq(Byte) /\ Len(t) = c /\ \A i \in 1 .. c : t[i] = s[i]
  BY <1>1, <1>2
<1>4. ASSUME NEW i \in 0 .. c, NEW bytes, bytes \subseteq NumberBytes
      PROVE  Has(t, i, bytes) <=> Has(s, i, bytes)
  <2>1. CASE i < c
    BY <1>2, <1>3, <2>1 DEF Has
  <2>2. CASE i = c
    BY <1>2, <1>3, <1>4, <2>2 DEF Has
  <2> QED BY <1>2, <2>1, <2>2
<1>5. /\ Digits \subseteq NumberBytes /\ Signs \subseteq NumberBytes
      /\ {Dot} \subseteq NumberBytes /\ ExponentMarks \subseteq NumberBytes
  BY DEF NumberBytes
<1>6. ASSUME NEW i \in 0 .. c
      PROVE  RunEnd(t, i, Digits) = RunEnd(s, i, Digits) /\ RunEnd(t, i, Digits) \in i .. c
  <2>1. PICK d, e : d = RunEnd(t, i, Digits) /\ e = RunEnd(s, i, Digits)
    OBVIOUS
  <2>2. d \in i .. c /\ (\A k \in i .. d - 1 : Has(t, k, Digits)) /\ ~Has(t, d, Digits)
    BY <1>3, <2>1, RunEndIs
  <2>3. i \in 0 .. Len(s)
    BY <1>2
  <2>4. e \in i .. Len(s) /\ (\A k \in i .. e - 1 : Has(s, k, Digits)) /\ ~Has(s, e, Digits)
    BY <2>1, <2>3, RunEndIs
  <2>5. ~(d < e)
    <3>1. ~Has(s, d, Digits)
      BY <1>2, <1>4, <1>5, <2>2
    <3> QED BY <1>2, <2>2, <2>4, <3>1
  <2>6. ~(e < d)
    <3>1. e < d => e \in i .. d - 1 /\ e \in 0 .. c
      BY <1>2, <2>2, <2>4
    <3> QED BY <1>4, <1>5, <2>2, <2>4, <3>1
  <2> QED BY <1>2, <2>1, <2>2, <2>4, <2>5, <2>6
<1>7. WholeAt(t) = WholeAt(s)
  BY <1>2, <1>4, <1>5 DEF WholeAt
<1>8. Placed(t)
  BY <1>3, MantissaPlaces
<1>9. DotAt(t) = DotAt(s) /\ DotAt(t) \in 0 .. c
  BY <1>3, <1>6, <1>7, <1>8 DEF DotAt, Placed
<1>10. FractionEnd(t) = FractionEnd(s)
  <2>1. Has(t, DotAt(t), {Dot}) <=> Has(s, DotAt(t), {Dot})
    BY <1>4, <1>5, <1>9
  <2>2. CASE Has(t, DotAt(t), {Dot})
    <3>1. DotAt(t) + 1 \in 0 .. c
      BY <1>3, <1>8, <2>2 DEF Placed
    <3> QED BY <1>6, <1>9, <2>1, <2>2, <3>1 DEF FractionEnd
  <2>3. CASE ~Has(t, DotAt(t), {Dot})
    BY <1>9, <2>1, <2>3 DEF FractionEnd
  <2> QED BY <2>2, <2>3
<1>11. MantissaEnd(t) = MantissaEnd(s)
  BY <1>7, <1>9, <1>10, MantissaEndIs
<1>12. CASE MantissaEnd(t) = 0
  BY <1>1, <1>2, <1>3, <1>11, <1>12 DEF StrtodPrefixLen
<1>13. CASE MantissaEnd(t) # 0
  <2>1. PICK m : m = MantissaEnd(t)
    OBVIOUS
  <2>2. m \in 1 .. c
    BY <1>3, <1>13, <2>1, MantissaLongest
  <2>3. Has(t, m, ExponentMarks) <=> Has(s, m, ExponentMarks)
    BY <1>2, <1>4, <1>5, <2>2
  <2>4. StrtodPrefixLen(t) = ExponentEnd(t, m) /\ StrtodPrefixLen(s) = ExponentEnd(s, m)
    BY <1>11, <1>13, <2>1 DEF StrtodPrefixLen
  <2>5. CASE ~Has(t, m, ExponentMarks)
    BY <1>1, <1>2, <1>3, <2>3, <2>4, <2>5, ExponentEndIs
  <2>6. CASE Has(t, m, ExponentMarks)
    <3>1. m + 1 \in 0 .. c
      BY <1>2, <1>3, <2>2, <2>6 DEF Has
    <3>2. ExponentAt(t, m) = ExponentAt(s, m)
      BY <1>4, <1>5, <3>1 DEF ExponentAt
    <3>3. ExponentAt(t, m) \in 0 .. c
      <4>1. ExponentAt(t, m) \in m + 1 .. Len(t)
        BY <1>3, <1>13, <2>1, <2>6, ExponentIs
      <4> QED BY <1>2, <1>3, <2>2, <4>1
    <3>4. Has(t, ExponentAt(t, m), Digits) <=> Has(s, ExponentAt(t, m), Digits)
      BY <1>4, <1>5, <3>3
    <3>5. RunEnd(t, ExponentAt(t, m), Digits) = RunEnd(s, ExponentAt(t, m), Digits)
      BY <1>6, <3>3
    <3>6. ExponentEnd(t, m) = ExponentEnd(s, m)
      BY <2>3, <3>2, <3>4, <3>5, ExponentEndIs
    <3> QED BY <1>1, <1>2, <1>3, <2>4, <3>6
  <2> QED BY <2>5, <2>6
<1> QED BY <1>12, <1>13

LEMMA NumberEndsAreInText ==
  ASSUME text \in Seq(Byte)
  PROVE  NumberEnds \subseteq 1 .. Len(text)
<1>1. ASSUME NEW j \in MantissaOf(text) PROVE j \in 1 .. Len(text)
  <2>1. Placed(text)
    BY MantissaPlaces
  <2>2. j >= 1 /\ j \in Int
    BY <2>1, MantissaIs DEF Placed
  <2>3. MantissaOf(text) # {}
    OBVIOUS
  <2>4. j <= MantissaEnd(text) /\ MantissaEnd(text) \in 1 .. Len(text)
    BY <2>3, MantissaLongest
  <2> QED BY <2>2, <2>4
<1>2. ExponentOf(text) \subseteq 1 .. Len(text)
  BY DEF ExponentOf, SomeMore
<1> QED BY <1>1, <1>2, NumberEndsIs

\* One call of parse_number.
LEMMA NumberRead ==
  ASSUME text \in Seq(Byte), pc = "number", offset = 0, ParseNumber
  PROVE  NumberIsLongestPrefix' /\ offset' \in 0 .. Len(text)
<1> DEFINE candidate == SubSeq(text, 1, RunEnd(text, 0, NumberBytes))
<1>1. /\ offset' = offset + StrtodPrefixLen(candidate)
      /\ pc' = IF StrtodPrefixLen(candidate) = 0 THEN "no_number" ELSE "number_read"
      /\ text' = text
  BY DEF ParseNumber
<1>2. StrtodPrefixLen(candidate) = StrtodPrefixLen(text)
  BY CandidateIsEnough
<1> HIDE DEF candidate
<1>3. PICK n : n = StrtodPrefixLen(text)
  OBVIOUS
<1>4. n = 0 \/ n \in 1 .. Len(text)
  BY <1>3, LongestPrefix
<1>5. offset' = n /\ pc' = IF n = 0 THEN "no_number" ELSE "number_read"
  BY <1>1, <1>2, <1>3, <1>4
<1>6. NumberEnds' = NumberEnds
  BY <1>1 DEF NumberEnds
<1>7. CASE n = 0
  <2>1. NumberEnds = {}
    BY <1>3, <1>7, LongestPrefix, NumberEndsIs
  <2> QED BY <1>5, <1>6, <1>7, <2>1 DEF NumberIsLongestPrefix
<1>8. CASE n # 0
  <2>1. n \in NumberEnds /\ \A j \in NumberEnds : n >= j
    BY <1>3, <1>8, LongestPrefix, NumberEndsIs
  <2>2. NumberEnds \subseteq Int
    <3>1. NumberEnds \subseteq 1 .. Len(text)
      BY NumberEndsAreInText
    <3> QED BY <3>1
  <2>3. Max(NumberEnds) = n
    <3>1. \A x \in NumberEnds : (\A j \in NumberEnds : x >= j) => x = n
      BY <1>4, <1>8, <2>1, <2>2
    <3>2. Max(NumberEnds) \in NumberEnds /\ \A j \in NumberEnds : Max(NumberEnds) >= j
      BY <2>1 DEF Max
    <3> QED BY <3>1, <3>2
  <2> QED BY <1>4, <1>5, <1>6, <1>8, <2>1, <2>3 DEF NumberIsLongestPrefix
<1> QED BY <1>7, <1>8, <1>4, <1>5

-----------------------------------------------------------------------------
(* The three scanners keep the types. *)

StringPhases == {"string", "first_pass", "second_pass", "parsed", "no_string"}
MinifyPhases == {"minify", "in_string", "escaped", "line_comment", "block_comment", "minified"}

\* What a turn of the second pass writes and reads keeps the types.
LEMMA DecodesTypes ==
  ASSUME LiteralsTypeOK, Decoding, StringInv', NEW bytes, bytes \in Seq(Byte), NEW n,
         Decodes(bytes, n)
  PROVE  LiteralsTypeOK'
<1>1. /\ UNCHANGED <<text, pc, quoteAt, skipped, offset>> /\ output' = output \o bytes
      /\ pc = "second_pass"
  BY DEF Decodes, Decoding, literal
<1>2. index' \in Nat /\ index' <= Len(text)
  <2>1. index' \in Nat /\ index' <= quoteAt' + 1 /\ quoteAt' < Len(text') /\ quoteAt' \in Nat
    BY <1>1 DEF StringInv, StringTypeOK, SecondPassInv
  <2>2. Len(text) \in Nat
    BY DEF LiteralsTypeOK
  <2> QED BY <1>1, <2>1, <2>2
<1>3. output' \in Seq(Byte)
  BY <1>1, ConcatProperties DEF LiteralsTypeOK
<1> QED BY <1>1, <1>2, <1>3 DEF LiteralsTypeOK

LEMMA FailsTypes ==
  ASSUME LiteralsTypeOK, NEW o \in 0 .. Len(text), FailsAt(o)
  PROVE  LiteralsTypeOK'
BY DEF LiteralsTypeOK, FailsAt, Finished

LEMMA StringTypes ==
  ASSUME LiteralsTypeOK, StringInv, StringNext
  PROVE  LiteralsTypeOK'
<1>1. StringInv'
  BY StringStep
<1>2. /\ text \in Seq(Byte) /\ Len(text) \in Nat /\ index \in 0 .. Len(text) /\ offset \in 0 .. Len(text)
      /\ index \in Nat /\ quoteAt \in Nat
  BY DEF LiteralsTypeOK
<1>3. CASE NotAString
  BY <1>2, <1>3, FailsTypes DEF NotAString
<1>4. CASE OpenString
  BY <1>2, <1>4 DEF OpenString, LiteralsTypeOK, literal, ContentStart, InText, Finished
<1>5. CASE PassByte
  BY <1>2, <1>5 DEF PassByte, LiteralsTypeOK, literal, InText, Finished
<1>6. CASE PassEscape
  BY <1>2, <1>6 DEF PassEscape, LiteralsTypeOK, literal, InText, Finished
<1>7. CASE Unterminated
  BY <1>2, <1>7, FailsTypes DEF Unterminated
<1>8. CASE FindQuote
  BY <1>2, <1>8 DEF FindQuote, LiteralsTypeOK, literal, InText, Finished, ContentStart
<1>9. ASSUME Decoding
      PROVE  index < quoteAt /\ quoteAt < Len(text) /\ At(index) \in Byte
  <2>1. index < quoteAt /\ quoteAt < Len(text)
    BY <1>9, DecodingFacts
  <2>2. index < Len(text)
    BY <1>2, <2>1
  <2> QED BY <1>2, <2>1, <2>2, BytesInText
<1>10. CASE CopyByte
  <2>1. Decoding /\ Decodes(<<At(index)>>, 1)
    BY <1>10 DEF CopyByte
  <2>2. <<At(index)>> \in Seq(Byte)
    BY <1>9, <2>1
  <2> QED BY <1>1, <2>1, <2>2, DecodesTypes
<1>11. CASE ShortEscape
  <2>1. PICK c \in DOMAIN ShortEscapes : Decoding /\ Decodes(<<ShortEscapes[c]>>, 2)
    BY <1>11 DEF ShortEscape, Escape
  <2>2. <<ShortEscapes[c]>> \in Seq(Byte)
    BY ShortEscapesAreBytes
  <2> QED BY <1>1, <2>1, <2>2, DecodesTypes
<1>12. CASE UnicodeEscape
  <2>1. Decoding /\ quoteAt - index >= 6 /\ Decodes(Utf8(ParseHex4(index + 2)), 6)
    BY <1>12 DEF UnicodeEscape, Escape, LoneUnit
  <2>2. index + 2 \in Nat /\ (index + 2) + 3 < Len(text)
    BY <1>2, <1>9, <2>1
  <2>3. ParseHex4(index + 2) \in Nat /\ ParseHex4(index + 2) < 65536
    BY <1>2, <2>2, ParseHex4Range DEF Unit
  <2>4. Utf8(ParseHex4(index + 2)) \in Seq(Byte)
    BY <2>3, Utf8Bytes
  <2> QED BY <1>1, <2>1, <2>4, DecodesTypes
<1>13. CASE SurrogatePair
  <2>1. Decoding /\ quoteAt - index >= 12 /\ Decodes(Utf8(CodePointOfPair(index)), 12)
    BY <1>13 DEF SurrogatePair, Escape, Pair
  <2>2. index + 12 <= Len(text)
    BY <1>2, <1>9, <2>1
  <2>3. Utf8(CodePointOfPair(index)) \in Seq(Byte)
    BY <1>2, <2>2, PairIsACodePoint, Utf8Bytes
  <2> QED BY <1>1, <2>1, <2>3, DecodesTypes
<1>14. CASE BadEscape
  BY <1>2, <1>14, FailsTypes DEF BadEscape
<1>15. CASE CloseString
  <2>1. quoteAt + 1 \in 0 .. Len(text)
    BY <1>2, <1>15 DEF CloseString, StringInv, SecondPassInv
  <2> QED BY <1>2, <1>15, <2>1 DEF CloseString, LiteralsTypeOK, Finished
<1> QED BY <1>3, <1>4, <1>5, <1>6, <1>7, <1>8, <1>10, <1>11, <1>12, <1>13, <1>14, <1>15 DEF StringNext

LEMMA MinifyTypes ==
  ASSUME LiteralsTypeOK, MinifyInv, pc \in MinifyPhases, MinifyNext, UNCHANGED <<literal, made, printed>>
  PROVE  LiteralsTypeOK' /\ MinifyInv' /\ pc' \in MinifyPhases
<1>1. MinifyInv'
  BY MinifyStep
<1>2. index' \in 0 .. Len(text')
  BY <1>1 DEF MinifyInv, Fits
<1>3. pc' \in MinifyPhases
  BY DEF MinifyNext, MinifyPhases, OpenKeptString, InString, SkipBlank, KeepByte, OpenLineComment,
         InLineComment, OpenBlockComment, InBlockComment, FinishMinify
<1>4. text' = text /\ UNCHANGED <<quoteAt, skipped, offset>>
  BY DEF MinifyNext, literal
<1> QED BY <1>1, <1>2, <1>3, <1>4 DEF LiteralsTypeOK, MinifyPhases, Finished, MinifyInv

-----------------------------------------------------------------------------
(* Where a string ends. *)

\* So many backslashes stand right before the place i of s, and no more.
RunOf(s, i, back) ==
  /\ back \in 0 .. i - 1
  /\ \A k \in 1 .. back : ByteAt(s, i - k) = Backslash
  /\ ByteAt(s, i - back - 1) # Backslash
EvenBefore(s, i) == \E back \in 0 .. i - 1 : back % 2 = 0 /\ RunOf(s, i, back)

LEMMA BareQuoteIs ==
  ASSUME NEW s, NEW i
  PROVE  BareQuote(s, i) <=> i >= 1 /\ ByteAt(s, i) = Quote /\ EvenBefore(s, i)
BY DEF BareQuote, EvenBefore, RunOf

LEMMA OneRun ==
  ASSUME NEW s, NEW i \in Nat, NEW a \in Nat, NEW b \in Nat, RunOf(s, i, a), RunOf(s, i, b)
  PROVE  a = b
<1>1. ~(a < b)
  <2>1. a < b => a + 1 \in 1 .. b
    OBVIOUS
  <2>2. i - a - 1 = i - (a + 1)
    OBVIOUS
  <2> QED BY <2>1, <2>2 DEF RunOf
<1>2. ~(b < a)
  <2>1. b < a => b + 1 \in 1 .. a
    OBVIOUS
  <2>2. i - b - 1 = i - (b + 1)
    OBVIOUS
  <2> QED BY <2>1, <2>2 DEF RunOf
<1> QED BY <1>1, <1>2

LEMMA PlainByteBefore ==
  ASSUME NEW s, NEW i \in Nat, ByteAt(s, i) # Backslash
  PROVE  EvenBefore(s, i + 1)
<1>1. RunOf(s, i + 1, 0)
  <2>1. (i + 1) - 0 - 1 = i
    OBVIOUS
  <2> QED BY <2>1 DEF RunOf
<1>2. 0 % 2 = 0
  OBVIOUS
<1> QED BY <1>1, <1>2 DEF EvenBefore

\* The byte behind an escaping backslash is escaped, whatever it is.
LEMMA EscapedByteBefore ==
  ASSUME NEW s, NEW i \in Nat, ByteAt(s, i) = Backslash, EvenBefore(s, i)
  PROVE  ~EvenBefore(s, i + 1) /\ EvenBefore(s, i + 2)
<1>1. PICK b \in 0 .. i - 1 : b % 2 = 0 /\ RunOf(s, i, b)
  BY DEF EvenBefore
<1>2. RunOf(s, i + 1, b + 1)
  <2>1. b + 1 \in 0 .. (i + 1) - 1 /\ (i + 1) - (b + 1) - 1 = i - b - 1
    BY <1>1
  <2>2. ASSUME NEW k \in 1 .. b + 1 PROVE ByteAt(s, (i + 1) - k) = Backslash
    <3>1. CASE k = 1
      <4>1. (i + 1) - k = i
        BY <3>1
      <4> QED BY <4>1
    <3>2. CASE k # 1
      <4>1. k - 1 \in 1 .. b /\ (i + 1) - k = i - (k - 1)
        BY <1>1, <3>2
      <4> QED BY <1>1, <4>1 DEF RunOf
    <3> QED BY <3>1, <3>2
  <2> QED BY <1>1, <2>1, <2>2 DEF RunOf
<1>3. ~EvenBefore(s, i + 1)
  <2>1. SUFFICES ASSUME NEW c \in 0 .. (i + 1) - 1, c % 2 = 0, RunOf(s, i + 1, c) PROVE FALSE
    BY DEF EvenBefore
  <2>2. i + 1 \in Nat /\ b + 1 \in Nat /\ c \in Nat
    BY <1>1
  <2>3. c = b + 1
    BY <1>2, <2>1, <2>2, OneRun
  <2> QED BY <1>1, <2>1, <2>3
<1>4. EvenBefore(s, i + 2)
  <2>1. CASE ByteAt(s, i + 1) # Backslash
    <3>1. i + 1 \in Nat /\ (i + 1) + 1 = i + 2
      OBVIOUS
    <3>2. EvenBefore(s, (i + 1) + 1)
      BY <2>1, <3>1, PlainByteBefore
    <3> QED BY <3>1, <3>2
  <2>2. CASE ByteAt(s, i + 1) = Backslash
    <3>1. b + 2 \in 0 .. (i + 2) - 1 /\ (i + 2) - (b + 2) - 1 = i - b - 1 /\ (b + 2) % 2 = 0
      BY <1>1
    <3>2. ASSUME NEW k \in 1 .. b + 2 PROVE ByteAt(s, (i + 2) - k) = Backslash
      <4>1. CASE k = 1
        <5>1. (i + 2) - k = i + 1
          BY <4>1
        <5> QED BY <2>2, <5>1
      <4>2. CASE k # 1
        <5>1. k - 1 \in 1 .. b + 1 /\ (i + 2) - k = (i + 1) - (k - 1)
          BY <1>1, <4>2
        <5> QED BY <1>2, <5>1 DEF RunOf
      <4> QED BY <4>1, <4>2
    <3>3. RunOf(s, i + 2, b + 2)
      BY <1>1, <3>1, <3>2 DEF RunOf
    <3> QED BY <3>1, <3>3 DEF EvenBefore
  <2> QED BY <2>1, <2>2
<1> QED BY <1>3, <1>4

\* No quote that is not escaped was passed.
NoQuoteBefore(i) == \A j \in 1 .. i - 1 : ~BareQuote(text, j)

LEMMA NoQuoteYet ==
  ASSUME NEW i \in Nat, NoQuoteBefore(i), ~BareQuote(text, i)
  PROVE  NoQuoteBefore(i + 1)
BY DEF NoQuoteBefore

EndOfNoString ==
  QuotesIn(text) = {} /\ text # <<>> /\ At(0) = Quote =>
    offset = Len(text) \/ (offset = Len(text) - 1 /\ At(offset) = Backslash)

QuoteInv ==
  /\ pc = "first_pass" => index \in 1 .. Len(text) /\ EvenBefore(text, index) /\ NoQuoteBefore(index)
  /\ pc \in {"second_pass", "parsed"} =>
       /\ quoteAt \in 1 .. Len(text) - 1
       /\ BareQuote(text, quoteAt) /\ NoQuoteBefore(quoteAt)
  /\ pc = "parsed" => offset = quoteAt + 1
  /\ pc = "no_string" => EndOfNoString

LEMMA BytesOfText == \A i : ByteAt(text, i) = At(i)
BY DEF ByteAt, At

\* A text that stays the text has the same quotes.
LEMMA SameQuotes ==
  ASSUME UNCHANGED text
  PROVE  /\ \A i : (BareQuote(text, i)' <=> BareQuote(text, i)) /\ (At(i)' = At(i)) /\ (EvenBefore(text, i)' <=> EvenBefore(text, i))
         /\ \A i : NoQuoteBefore(i)' <=> NoQuoteBefore(i)
BY DEF BareQuote, At, ByteAt, EvenBefore, RunOf, ByteAt, NoQuoteBefore

LEMMA QuoteStep ==
  ASSUME LiteralsTypeOK, QuoteInv, StringInv, StringNext, LiteralsTypeOK'
  PROVE  QuoteInv'
<1>1. /\ text \in Seq(Byte) /\ Len(text) \in Nat /\ index \in Nat /\ index <= Len(text)
      /\ index' \in Nat /\ index' <= Len(text')
  BY DEF LiteralsTypeOK
<1>2. UNCHANGED text
  BY DEF StringNext, NotAString, OpenString, PassByte, PassEscape, Unterminated, FindQuote, CopyByte,
         ShortEscape, UnicodeEscape, SurrogatePair, BadEscape, CloseString, FailsAt, Decodes
<1>3. CASE NotAString
  <2>1. ~(text # <<>> /\ At(0) = Quote)
    <3>1. text # <<>> => Len(text) > 0
      BY <1>1, EmptySeq
    <3> QED BY <1>3, <3>1 DEF NotAString, InText
  <2>2. ~(text' # <<>> /\ At(0)' = Quote)
    BY <1>2, <2>1 DEF At
  <2> QED BY <1>3, <2>2 DEF NotAString, FailsAt, QuoteInv, EndOfNoString
<1>4. CASE OpenString
  <2>1. At(0) # Backslash /\ index' = 1 /\ pc' = "first_pass" /\ 0 < Len(text)
    BY <1>4 DEF OpenString, Quote, Backslash, ContentStart, InText
  <2>2. EvenBefore(text, 1)
    <3>1. 0 \in Nat /\ 0 + 1 = 1
      OBVIOUS
    <3> QED BY <2>1, <3>1, PlainByteBefore, BytesOfText
  <2>3. NoQuoteBefore(1)
    BY DEF NoQuoteBefore
  <2>4. EvenBefore(text, index') /\ NoQuoteBefore(index')
    BY <2>1, <2>2, <2>3
  <2>5. EvenBefore(text, index)' /\ NoQuoteBefore(index)'
    BY <1>2, <2>4 DEF EvenBefore, NoQuoteBefore, RunOf, BareQuote, ByteAt
  <2> QED BY <1>1, <1>2, <2>1, <2>5 DEF QuoteInv
<1>5. CASE PassByte \/ PassEscape
  <2>1. index >= 1 /\ EvenBefore(text, index) /\ NoQuoteBefore(index) /\ pc = "first_pass" /\ pc' = "first_pass"
    BY <1>5 DEF QuoteInv, PassByte, PassEscape
  <2>2. EvenBefore(text, index') /\ NoQuoteBefore(index')
    <3>1. CASE PassByte
      <4>1. At(index) # Backslash /\ At(index) # Quote /\ index' = index + 1
        BY <3>1 DEF PassByte
      <4>2. ~BareQuote(text, index)
        BY <4>1, BareQuoteIs, BytesOfText
      <4>3. EvenBefore(text, index + 1) /\ NoQuoteBefore(index + 1)
        BY <1>1, <2>1, <4>1, <4>2, PlainByteBefore, NoQuoteYet, BytesOfText
      <4> QED BY <4>1, <4>3
    <3>2. CASE PassEscape
      <4>1. At(index) = Backslash /\ At(index) # Quote /\ index' = index + 2
        BY <3>2 DEF PassEscape, Backslash, Quote
      <4>2. ~EvenBefore(text, index + 1) /\ EvenBefore(text, index + 2)
        BY <1>1, <2>1, <4>1, EscapedByteBefore, BytesOfText
      <4>3. ~BareQuote(text, index) /\ ~BareQuote(text, index + 1)
        BY <4>1, <4>2, BareQuoteIs, BytesOfText
      <4>4. NoQuoteBefore(index + 1)
        BY <1>1, <2>1, <4>3, NoQuoteYet
      <4>5. index + 1 \in Nat /\ (index + 1) + 1 = index + 2
        BY <1>1
      <4>6. NoQuoteBefore((index + 1) + 1)
        BY <4>3, <4>4, <4>5, NoQuoteYet
      <4> QED BY <4>1, <4>2, <4>5, <4>6
    <3> QED BY <1>5, <3>1, <3>2
  <2>3. EvenBefore(text, index)' /\ NoQuoteBefore(index)'
    BY <1>2, <2>2 DEF EvenBefore, NoQuoteBefore, RunOf, BareQuote, ByteAt
  <2>4. index' >= 1
    BY <1>1, <1>5, <2>1 DEF PassByte, PassEscape
  <2> QED BY <1>1, <1>2, <2>1, <2>3, <2>4 DEF QuoteInv
<1>6. CASE Unterminated
  <2>1. pc' = "no_string" /\ offset' = index /\ index \in 1 .. Len(text)
        /\ (index < Len(text) => At(index) = Backslash /\ ~(index + 1 < Len(text)))
    BY <1>6 DEF Unterminated, FailsAt, QuoteInv, InText
  <2>2. offset' = Len(text) \/ (offset' = Len(text) - 1 /\ At(offset') = Backslash)
    BY <1>1, <2>1
  <2>3. EndOfNoString'
    BY <1>2, <2>2 DEF EndOfNoString, At
  <2> QED BY <2>1, <2>3 DEF QuoteInv
<1>7. CASE FindQuote
  <2>1. /\ index \in 1 .. Len(text) - 1 /\ At(index) = Quote
        /\ EvenBefore(text, index) /\ NoQuoteBefore(index) /\ quoteAt' = index /\ pc' = "second_pass"
    BY <1>1, <1>7 DEF FindQuote, QuoteInv, InText
  <2>2. BareQuote(text, quoteAt') /\ NoQuoteBefore(quoteAt')
    BY <2>1, BareQuoteIs, BytesOfText
  <2>3. BareQuote(text, quoteAt)' /\ NoQuoteBefore(quoteAt)'
    BY <1>2, <2>2 DEF NoQuoteBefore, BareQuote, ByteAt
  <2> QED BY <1>2, <2>1, <2>3 DEF QuoteInv
<1>8. CASE CopyByte \/ ShortEscape \/ UnicodeEscape \/ SurrogatePair
  <2>1. pc = "second_pass" /\ pc' = pc /\ quoteAt' = quoteAt
    BY <1>8 DEF CopyByte, ShortEscape, UnicodeEscape, SurrogatePair, Escape, Decoding, Decodes, literal
  <2>2. BareQuote(text, quoteAt)' /\ NoQuoteBefore(quoteAt)'
    BY <1>2, <2>1 DEF QuoteInv, NoQuoteBefore, BareQuote, ByteAt
  <2> QED BY <1>2, <2>1, <2>2 DEF QuoteInv
<1>9. CASE BadEscape
  <2>1. pc = "second_pass" /\ pc' = "no_string"
    BY <1>9 DEF BadEscape, Decoding, FailsAt
  <2>2. quoteAt \in 1 .. Len(text) - 1 /\ BareQuote(text, quoteAt)
    BY <2>1 DEF QuoteInv
  <2>3. quoteAt \in QuotesIn(text)'
    BY <1>2, <2>2 DEF BareQuote, ByteAt, QuotesIn
  <2>4. EndOfNoString'
    BY <2>3 DEF EndOfNoString
  <2> QED BY <2>1, <2>4 DEF QuoteInv
<1>10. CASE CloseString
  <2>1. pc = "second_pass" /\ pc' = "parsed" /\ quoteAt' = quoteAt /\ offset' = quoteAt + 1
    BY <1>10 DEF CloseString
  <2>2. BareQuote(text, quoteAt)' /\ NoQuoteBefore(quoteAt)'
    BY <1>2, <2>1 DEF QuoteInv, NoQuoteBefore, BareQuote, ByteAt
  <2> QED BY <1>2, <2>1, <2>2 DEF QuoteInv
<1> QED BY <1>3, <1>4, <1>5, <1>6, <1>7, <1>8, <1>9, <1>10 DEF StringNext

LEMMA QuoteInvMeansFirst ==
  ASSUME LiteralsTypeOK, QuoteInv
  PROVE  EndsAtTheFirstBareQuote
<1> DEFINE quotes == {i \in 1 .. Len(text) - 1 : BareQuote(text, i)}
           first == CHOOSE i \in quotes : \A j \in quotes : i <= j
<1>1. CASE pc = "parsed"
  <2>1. /\ quoteAt \in quotes /\ offset = quoteAt + 1 /\ quoteAt \in Nat
        /\ \A j \in 1 .. quoteAt - 1 : j \notin quotes
    BY <1>1 DEF QuoteInv, NoQuoteBefore
  <2>2. \A j \in quotes : quoteAt <= j
    BY <2>1
  <2>3. \A i \in quotes : (\A j \in quotes : i <= j) => i = quoteAt
    BY <2>1, <2>2
  <2>4. first = quoteAt
    <3> HIDE DEF quotes
    <3> QED BY <2>1, <2>2, <2>3
  <2> QED BY <1>1, <2>1, <2>4 DEF EndsAtTheFirstBareQuote, QuotesIn
<1>2. CASE pc = "no_string"
  BY <1>2 DEF QuoteInv, EndOfNoString, EndsAtTheFirstBareQuote
<1>3. CASE pc \notin {"parsed", "no_string"}
  BY <1>3 DEF EndsAtTheFirstBareQuote
<1> QED BY <1>1, <1>2, <1>3

-----------------------------------------------------------------------------
(* A string of known pieces. *)

IsPieceOfString(p) == ByteItself(p) \/ Escaped(p) \/ OneUnit(p) \/ TwoUnits(p)

HalvesApart(p, q) ==
  OneUnit(p) /\ OneUnit(q) =>
    ~(UnitValue(p.spelled, 1) \in HighHalves /\ UnitValue(q.spelled, 1) \in LowHalves)

Spellings(pieces) == [i \in 1 .. Len(pieces) |-> pieces[i].spelled]
Meanings(pieces) == [i \in 1 .. Len(pieces) |-> pieces[i].means]

\* Where each piece begins, and what the pieces up to each mean.
Places(pieces) == CHOOSE start \in [0 .. Len(pieces) -> Nat] : Starts(Spellings(pieces), start)
SoFar(pieces) == CHOOSE at \in [0 .. Len(pieces) -> Seq(Byte)] : Joins(Meanings(pieces), at)

\* The text, byte by byte.
StringOf(pieces, start) ==
  /\ pieces \in Seq(Piece)
  /\ start \in [0 .. Len(pieces) -> Nat] /\ start[0] = 0
  /\ \A i \in 1 .. Len(pieces) :
       /\ IsPieceOfString(pieces[i])
       /\ start[i] = start[i - 1] + Len(pieces[i].spelled)
       /\ start[i] <= start[Len(pieces)]
       /\ \A k \in 1 .. Len(pieces[i].spelled) : At(start[i - 1] + k) = pieces[i].spelled[k]
  /\ \A i \in 1 .. Len(pieces) - 1 : HalvesApart(pieces[i], pieces[i + 1])
  /\ start[Len(pieces)] + 2 <= Len(text)
  /\ At(0) = Quote /\ At(start[Len(pieces)] + 1) = Quote

LEMMA PieceType ==
  ASSUME NEW pieces, pieces \in Seq(Piece)
  PROVE  /\ Len(pieces) \in Nat
         /\ Spellings(pieces) \in Seq(Seq(Byte)) /\ Len(Spellings(pieces)) = Len(pieces)
         /\ Meanings(pieces) \in Seq(Seq(Byte)) /\ Len(Meanings(pieces)) = Len(pieces)
         /\ \A i \in 1 .. Len(pieces) :
              /\ pieces[i].spelled \in Seq(Byte) /\ pieces[i].means \in Seq(Byte)
              /\ pieces[i].fails \in BOOLEAN
              /\ Spellings(pieces)[i] = pieces[i].spelled /\ Meanings(pieces)[i] = pieces[i].means
<1>1. \A i \in 1 .. Len(pieces) :
        pieces[i].spelled \in Seq(Byte) /\ pieces[i].means \in Seq(Byte) /\ pieces[i].fails \in BOOLEAN
  <2>1. \A i \in 1 .. Len(pieces) : pieces[i] \in Piece
    BY ElementOfSeq
  <2> QED BY <2>1 DEF Piece
<1> QED BY <1>1 DEF Spellings, Meanings

LEMMA StringIs ==
  ASSUME text \in Seq(Byte), NEW pieces, pieces \in Seq(Piece), SpellsString(text, pieces)
  PROVE  StringOf(pieces, Places(pieces))
<1>1. PICK seqs, n : seqs = Spellings(pieces) /\ n = Len(pieces)
  OBVIOUS
<1>2. seqs \in Seq(Seq(Byte)) /\ Len(seqs) = n /\ n \in Nat
      /\ \A i \in 1 .. n : seqs[i] = pieces[i].spelled /\ seqs[i] \in Seq(Byte)
  BY <1>1, PieceType
<1>3. FlattenSeq(seqs) \in Seq(Byte) /\ \E start \in [0 .. n -> Nat] : Starts(seqs, start)
  BY ONLY <1>2, Flattening
<1>4. PICK start : start = Places(pieces)
  OBVIOUS
<1>5. start \in [0 .. n -> Nat] /\ Starts(seqs, start)
  BY <1>1, <1>3, <1>4 DEF Places
<1>6. PICK flat : flat = FlattenSeq(seqs)
  OBVIOUS
<1>7. PICK body : body = (<<Quote>> \o flat) \o <<Quote>>
  OBVIOUS
<1>8. IsPrefix(body, text) /\ flat \in Seq(Byte) /\ body \in Seq(Byte) /\ Quote \in Byte
  <2>1. Quote \in Byte
    BY DEF Quote, Byte
  <2>2. Spelled(pieces) = flat
    BY <1>1, <1>6 DEF Spelled, Spellings
  <2> QED BY <1>3, <1>6, <1>7, <2>1, <2>2 DEF SpellsString
<1>9. /\ Len(body) = Len(flat) + 2 /\ Len(flat) \in Nat
      /\ body[1] = Quote /\ body[Len(flat) + 2] = Quote
      /\ \A m \in 1 .. Len(flat) : body[m + 1] = flat[m]
  BY <1>7, <1>8
<1>10. Len(body) <= Len(text) /\ \A m \in 1 .. Len(body) : text[m] = body[m]
  <2>1. Len(body) <= Len(text) /\ SubSeq(body, 1, Len(body)) = SubSeq(text, 1, Len(body))
    BY <1>8 DEF IsPrefix
  <2>2. ASSUME NEW m \in 1 .. Len(body) PROVE text[m] = body[m]
    <3>1. Len(body) \in Nat /\ Len(text) \in Nat
      BY <1>8
    <3>2. SubSeq(body, 1, Len(body))[m] = body[m] /\ SubSeq(text, 1, Len(body))[m] = text[m]
      BY <1>8, <2>1, <2>2, <3>1
    <3> QED BY <2>1, <3>2
  <2> QED BY <2>1, <2>2
<1>11. Len(flat) = start[n] /\ start[0] = 0
  BY <1>2, <1>5, <1>6 DEF Starts
<1>12. ASSUME NEW i \in 1 .. n
       PROVE  /\ start[i] = start[i - 1] + Len(pieces[i].spelled)
              /\ start[i] <= start[n]
              /\ \A k \in 1 .. Len(pieces[i].spelled) : At(start[i - 1] + k) = pieces[i].spelled[k]
  <2>1. PICK e : e = pieces[i].spelled
    OBVIOUS
  <2>2. e = seqs[i] /\ e \in Seq(Byte) /\ start[i - 1] \in Nat
    BY <1>2, <1>5, <2>1
  <2>3. /\ start[i] = start[i - 1] + Len(e) /\ start[i] <= Len(flat)
        /\ \A k \in 1 .. Len(e) : flat[start[i - 1] + k] = e[k]
    BY <1>2, <1>5, <1>6, <2>2 DEF Starts
  <2>4. ASSUME NEW k \in 1 .. Len(e) PROVE At(start[i - 1] + k) = e[k]
    <3>1. start[i - 1] + k \in 1 .. Len(flat)
      BY <1>9, <2>2, <2>3
    <3>2. (start[i - 1] + k) + 1 \in 1 .. Len(body)
      BY <1>9, <3>1
    <3>3. body[(start[i - 1] + k) + 1] = flat[start[i - 1] + k]
      BY <1>9, <3>1
    <3> QED BY <1>10, <2>3, <3>2, <3>3 DEF At
  <2> QED BY <1>11, <2>1, <2>3, <2>4
<1>13. At(0) = Quote /\ At(start[n] + 1) = Quote /\ start[n] + 2 <= Len(text)
  <2>1. (start[n] + 1) + 1 = Len(flat) + 2 /\ 0 + 1 = 1 /\ 1 \in 1 .. Len(body)
        /\ Len(flat) + 2 \in 1 .. Len(body)
    BY <1>9, <1>11
  <2> QED BY <1>9, <1>10, <1>11, <2>1 DEF At
<1>14. \A i \in 1 .. n : IsPieceOfString(pieces[i])
  BY <1>1 DEF SpellsString, IsPieceOfString
<1>15. \A i \in 1 .. n - 1 : HalvesApart(pieces[i], pieces[i + 1])
  BY <1>1 DEF SpellsString, HalvesApart
<1> QED BY <1>1, <1>4, <1>5, <1>11, <1>12, <1>13, <1>14, <1>15 DEF StringOf

LEMMA SoFarIs ==
  ASSUME NEW pieces, pieces \in Seq(Piece)
  PROVE  /\ SoFar(pieces) \in [0 .. Len(pieces) -> Seq(Byte)]
         /\ SoFar(pieces)[0] = <<>>
         /\ \A i \in 1 .. Len(pieces) : SoFar(pieces)[i] = SoFar(pieces)[i - 1] \o pieces[i].means
         /\ SoFar(pieces)[Len(pieces)] = Means(pieces)
<1>1. PICK seqs, n : seqs = Meanings(pieces) /\ n = Len(pieces)
  OBVIOUS
<1>2. seqs \in Seq(Seq(Byte)) /\ Len(seqs) = n /\ n \in Nat /\ \A i \in 1 .. n : seqs[i] = pieces[i].means
  BY <1>1, PieceType
<1>3. \E at \in [0 .. Len(seqs) -> Seq(Byte)] : Joins(seqs, at)
  BY ONLY <1>2, JoinsExist
<1>4. PICK at : at = SoFar(pieces)
  OBVIOUS
<1>5. at \in [0 .. n -> Seq(Byte)] /\ Joins(seqs, at)
  BY <1>1, <1>2, <1>3, <1>4 DEF SoFar
<1>6. FlattenSeq(seqs) = at[n]
  BY ONLY <1>2, <1>5, FlattenIsLast
<1>7. Means(pieces) = FlattenSeq(seqs)
  BY <1>1 DEF Means, Meanings
<1> QED BY <1>1, <1>2, <1>4, <1>5, <1>6, <1>7 DEF Joins

\* The piece p stands in the text from a on, and z is the place behind it.
Stands(p, a, z) ==
  /\ IsPieceOfString(p)
  /\ p.spelled \in Seq(Byte) /\ p.means \in Seq(Byte) /\ p.fails \in BOOLEAN
  /\ a \in Nat /\ z \in Nat /\ z = a + Len(p.spelled)
  /\ \A k \in 0 .. Len(p.spelled) - 1 : At(a + k) = p.spelled[k + 1]

LEMMA PieceAt ==
  ASSUME NEW pieces, NEW start, StringOf(pieces, start), NEW i \in 0 .. Len(pieces), i < Len(pieces)
  PROVE  /\ i + 1 \in 1 .. Len(pieces) /\ i + 1 \in 0 .. Len(pieces)
         /\ start[i] \in Nat /\ start[i + 1] \in Nat /\ start[i + 1] <= start[Len(pieces)]
         /\ Stands(pieces[i + 1], start[i] + 1, start[i + 1] + 1)
<1>1. Len(pieces) \in Nat /\ i + 1 \in 1 .. Len(pieces) /\ i + 1 \in 0 .. Len(pieces) /\ (i + 1) - 1 = i
  BY DEF StringOf
<1>2. PICK p, e : p = pieces[i + 1] /\ e = p.spelled
  OBVIOUS
<1>3. e \in Seq(Byte) /\ p.means \in Seq(Byte) /\ p.fails \in BOOLEAN
  BY <1>1, <1>2, PieceType DEF StringOf
<1>4. start[i] \in Nat /\ start[i + 1] \in Nat
  BY <1>1 DEF StringOf
<1>5. /\ IsPieceOfString(p) /\ start[i + 1] = start[i] + Len(e)
      /\ start[i + 1] <= start[Len(pieces)]
      /\ \A k \in 1 .. Len(e) : At(start[i] + k) = e[k]
  BY <1>1, <1>2 DEF StringOf
<1>6. PICK n : n = Len(e)
  OBVIOUS
<1>7. n \in Nat
  BY <1>3, <1>6
<1>8. ASSUME NEW k \in 0 .. n - 1 PROVE At((start[i] + 1) + k) = e[k + 1]
  <2>1. k + 1 \in 1 .. n /\ (start[i] + 1) + k = start[i] + (k + 1)
    BY ONLY <1>4, <1>7, <1>8
  <2> QED BY <1>5, <1>6, <2>1
<1>9. start[i] + 1 \in Nat /\ start[i + 1] + 1 \in Nat /\ start[i + 1] + 1 = (start[i] + 1) + n
  BY ONLY <1>4, <1>5, <1>6, <1>7
<1>10. Stands(p, start[i] + 1, start[i + 1] + 1)
  BY <1>2, <1>3, <1>5, <1>6, <1>8, <1>9 DEF Stands
<1> QED BY <1>1, <1>2, <1>4, <1>5, <1>10

\* The places are in order, the last one at the closing quote.
LEMMA PlacesInOrder ==
  ASSUME NEW pieces, NEW start, StringOf(pieces, start), NEW i \in 0 .. Len(pieces)
  PROVE  /\ Len(pieces) \in Nat /\ start[i] \in Nat /\ start[Len(pieces)] \in Nat
         /\ start[i] <= start[Len(pieces)]
         /\ Len(text) >= start[Len(pieces)] + 2
<1>1. Len(pieces) \in Nat /\ start \in [0 .. Len(pieces) -> Nat] /\ start[Len(pieces)] + 2 <= Len(text)
  BY DEF StringOf
<1>2. start[i] \in Nat /\ start[Len(pieces)] \in Nat
  BY <1>1
<1>3. start[i] <= start[Len(pieces)]
  <2>1. CASE i = Len(pieces)
    BY <1>2, <2>1
  <2>2. CASE i < Len(pieces)
    <3>1. Stands(pieces[i + 1], start[i] + 1, start[i + 1] + 1) /\ start[i + 1] \in Nat
          /\ start[i + 1] <= start[Len(pieces)]
      BY <2>2, PieceAt
    <3>2. start[i] + 1 <= start[i + 1] + 1
      <4>1. PICK n : n = Len(pieces[i + 1].spelled)
        OBVIOUS
      <4>2. n \in Nat /\ start[i + 1] + 1 = (start[i] + 1) + n
        BY <3>1, <4>1 DEF Stands
      <4> QED BY <1>2, <3>1, <4>2
    <3> QED BY <1>2, <3>1, <3>2
  <2> QED BY <1>1, <2>1, <2>2
<1> QED BY <1>1, <1>2, <1>3

\* The bytes of a \u, where it stands in the text.
LEMMA UnitInText ==
  ASSUME NEW s, NEW b \in Nat, NEW k \in {1, 7}, k + 5 <= Len(s), Len(s) \in Nat, UnitAt(s, k),
         \A j \in 0 .. Len(s) - 1 : At(b + j) = s[j + 1]
  PROVE  /\ At(b + k - 1) = Backslash /\ At(b + k) = UnicodeLetter
         /\ \A j \in 2 .. 5 : At((b + k - 1) + j) \notin {Quote, Backslash}
         /\ ParseHex4(b + k + 1) = UnitValue(s, k)
<1>1. ASSUME NEW m \in 0 .. 5 PROVE At((b + k - 1) + m) = s[k + m]
  <2>1. (k - 1) + m \in 0 .. Len(s) - 1 /\ b + ((k - 1) + m) = (b + k - 1) + m /\ ((k - 1) + m) + 1 = k + m
    OBVIOUS
  <2>2. At(b + ((k - 1) + m)) = s[((k - 1) + m) + 1]
    BY <2>1
  <2> QED BY <2>1, <2>2
<1>2. At(b + k - 1) = Backslash /\ At(b + k) = UnicodeLetter
  <2>1. (b + k - 1) + 0 = b + k - 1 /\ (b + k - 1) + 1 = b + k /\ k + 0 = k
    OBVIOUS
  <2>2. At((b + k - 1) + 0) = s[k + 0] /\ At((b + k - 1) + 1) = s[k + 1]
    BY <1>1
  <2> QED BY <2>1, <2>2 DEF UnitAt
<1>3. ASSUME NEW j \in 2 .. 5 PROVE At((b + k - 1) + j) \notin {Quote, Backslash}
  <2>1. k + j \in k + 2 .. k + 5 /\ j \in 0 .. 5
    OBVIOUS
  <2> QED BY <1>1, <2>1 DEF UnitAt
<1>4. ParseHex4(b + k + 1) = UnitValue(s, k)
  <2>1. PICK i : i = b + k + 1
    OBVIOUS
  <2>2. i \in Int /\ i = (b + k - 1) + 2 /\ i + 1 = (b + k - 1) + 3 /\ i + 2 = (b + k - 1) + 4
        /\ i + 3 = (b + k - 1) + 5
    BY <2>1
  <2>3. At(i) = s[k + 2] /\ At(i + 1) = s[k + 3] /\ At(i + 2) = s[k + 4] /\ At(i + 3) = s[k + 5]
    <3>1. At((b + k - 1) + 2) = s[k + 2] /\ At((b + k - 1) + 3) = s[k + 3]
          /\ At((b + k - 1) + 4) = s[k + 4] /\ At((b + k - 1) + 5) = s[k + 5]
      BY <1>1
    <3> QED BY <2>2, <3>1
  <2>4. (\A j \in i .. i + 3 : IsHex(At(j))) <=> (\A j \in k + 2 .. k + 5 : IsHex(s[j]))
    <3>1. \A j : j \in i .. i + 3 <=> (j = i \/ j = i + 1 \/ j = i + 2 \/ j = i + 3)
      BY <2>2
    <3>2. \A j : j \in k + 2 .. k + 5 <=> (j = k + 2 \/ j = k + 3 \/ j = k + 4 \/ j = k + 5)
      OBVIOUS
    <3>3. (\A j \in i .. i + 3 : IsHex(At(j)))
             <=> IsHex(At(i)) /\ IsHex(At(i + 1)) /\ IsHex(At(i + 2)) /\ IsHex(At(i + 3))
      BY ONLY <3>1, Zenon
    <3>4. (\A j \in k + 2 .. k + 5 : IsHex(s[j]))
             <=> IsHex(s[k + 2]) /\ IsHex(s[k + 3]) /\ IsHex(s[k + 4]) /\ IsHex(s[k + 5])
      BY ONLY <3>2, Zenon
    <3> QED BY ONLY <2>3, <3>3, <3>4, Zenon
  <2> QED BY ONLY <2>1, <2>3, <2>4 DEF ParseHex4, UnitValue
<1> QED BY <1>2, <1>3, <1>4

\* What stands there: a byte, an escape, a unit (alone or the first of two), the second.
LEMMA ByteStands ==
  ASSUME NEW p, NEW a, NEW z, Stands(p, a, z), ByteItself(p)
  PROVE  At(a) \notin {Quote, Backslash} /\ z = a + 1 /\ p.means = <<At(a)>> /\ ~p.fails
<1>1. PICK e : e = p.spelled
  OBVIOUS
<1>2. e \in Seq(Byte) /\ a \in Nat /\ z = a + Len(e) /\ \A k \in 0 .. Len(e) - 1 : At(a + k) = e[k + 1]
  BY <1>1 DEF Stands
<1>3. Len(e) = 1 /\ e[1] \notin {Quote, Backslash} /\ p.means = e /\ ~p.fails
  BY <1>1 DEF ByteItself
<1>4. At(a) = e[1]
  <2>1. a + 0 = a /\ 0 + 1 = 1 /\ 0 \in 0 .. Len(e) - 1
    BY <1>2, <1>3
  <2> QED BY <1>2, <2>1
<1>5. e = <<e[1]>>
  BY <1>2, <1>3
<1> QED BY <1>2, <1>3, <1>4, <1>5

LEMMA EscapeStands ==
  ASSUME NEW p, NEW a, NEW z, Stands(p, a, z), Escaped(p)
  PROVE  At(a) = Backslash /\ At(a + 1) = p.spelled[2] /\ z = a + 2
<1>1. PICK e : e = p.spelled
  OBVIOUS
<1>2. e \in Seq(Byte) /\ a \in Nat /\ z = a + Len(e) /\ \A k \in 0 .. Len(e) - 1 : At(a + k) = e[k + 1]
  BY <1>1 DEF Stands
<1>3. Len(e) = 2 /\ e[1] = Backslash
  BY <1>1 DEF Escaped
<1>4. At(a) = e[1] /\ At(a + 1) = e[2]
  <2>1. a + 0 = a /\ 0 + 1 = 1 /\ 1 + 1 = 2 /\ 0 \in 0 .. Len(e) - 1 /\ 1 \in 0 .. Len(e) - 1
    BY <1>2, <1>3
  <2>2. At(a + 0) = e[0 + 1] /\ At(a + 1) = e[1 + 1]
    BY <1>2, <2>1
  <2> QED BY <2>1, <2>2
<1> QED BY <1>1, <1>2, <1>3, <1>4

LEMMA UnitStands ==
  ASSUME NEW p, NEW a, NEW z, Stands(p, a, z), OneUnit(p) \/ TwoUnits(p)
  PROVE  /\ At(a) = Backslash /\ At(a + 1) = UnicodeLetter
         /\ \A j \in 2 .. 5 : At(a + j) \notin {Quote, Backslash}
         /\ ParseHex4(a + 2) = UnitValue(p.spelled, 1)
         /\ z = a + (IF OneUnit(p) THEN 6 ELSE 12)
<1>1. PICK e : e = p.spelled
  OBVIOUS
<1>2. e \in Seq(Byte) /\ a \in Nat /\ z = a + Len(e) /\ \A k \in 0 .. Len(e) - 1 : At(a + k) = e[k + 1]
  BY <1>1 DEF Stands
<1>3. UnitAt(e, 1) /\ Len(e) = (IF OneUnit(p) THEN 6 ELSE 12)
  <2>1. OneUnit(p) => UnitAt(e, 1) /\ Len(e) = 6
    BY <1>1, Zenon DEF OneUnit
  <2>2. TwoUnits(p) => UnitAt(e, 1) /\ Len(e) = 12
    BY <1>1 DEF TwoUnits
  <2> QED BY <2>1, <2>2
<1>4. Len(e) \in Nat /\ 1 + 5 <= Len(e) /\ 1 \in {1, 7}
  BY <1>3
<1>5. /\ At(a + 1 - 1) = Backslash /\ At(a + 1) = UnicodeLetter
      /\ \A j \in 2 .. 5 : At((a + 1 - 1) + j) \notin {Quote, Backslash}
      /\ ParseHex4(a + 1 + 1) = UnitValue(e, 1)
  BY ONLY <1>2, <1>3, <1>4, UnitInText
<1>6. a + 1 - 1 = a /\ a + 1 + 1 = a + 2
  BY <1>2
<1> QED BY <1>1, <1>2, <1>3, <1>5, <1>6

LEMMA SecondUnitStands ==
  ASSUME NEW p, NEW a, NEW z, Stands(p, a, z), TwoUnits(p)
  PROVE  /\ At(a + 6) = Backslash /\ At(a + 7) = UnicodeLetter
         /\ \A j \in 8 .. 11 : At(a + j) \notin {Quote, Backslash}
         /\ ParseHex4(a + 8) = UnitValue(p.spelled, 7)
         /\ z = a + 12
<1>1. PICK e : e = p.spelled
  OBVIOUS
<1>2. e \in Seq(Byte) /\ a \in Nat /\ z = a + Len(e) /\ \A k \in 0 .. Len(e) - 1 : At(a + k) = e[k + 1]
  BY <1>1 DEF Stands
<1>3. UnitAt(e, 7) /\ Len(e) = 12
  BY <1>1 DEF TwoUnits
<1>4. Len(e) \in Nat /\ 7 + 5 <= Len(e) /\ 7 \in {1, 7}
  BY <1>3
<1>5. /\ At(a + 7 - 1) = Backslash /\ At(a + 7) = UnicodeLetter
      /\ \A j \in 2 .. 5 : At((a + 7 - 1) + j) \notin {Quote, Backslash}
      /\ ParseHex4(a + 7 + 1) = UnitValue(e, 7)
  BY ONLY <1>2, <1>3, <1>4, UnitInText
<1>6. a + 7 - 1 = a + 6 /\ a + 7 + 1 = a + 8
  BY <1>2
<1>7. ASSUME NEW j \in 8 .. 11 PROVE At(a + j) \notin {Quote, Backslash}
  <2>1. j - 6 \in 2 .. 5 /\ (a + 7 - 1) + (j - 6) = a + j
    BY <1>2
  <2> QED BY <1>5, <2>1
<1> QED BY <1>1, <1>2, <1>3, <1>5, <1>6, <1>7

-----------------------------------------------------------------------------
(* The first pass over a string of known pieces. *)

\* Inside a unit the pass comes to the four bytes and, of two units, to the second
\* backslash and its four bytes.
Inside(p, k) ==
  \/ (OneUnit(p) \/ TwoUnits(p)) /\ k \in 2 .. 5
  \/ TwoUnits(p) /\ k \in {6} \cup 8 .. 11

Between(pieces, start) ==
  \E i \in 0 .. Len(pieces) :
    \/ index = start[i] + 1
    \/ i < Len(pieces) /\ \E k \in 2 .. 11 : Inside(pieces[i + 1], k) /\ index = (start[i] + 1) + k

\* The second has decoded the pieces before one.
Decoded(pieces, start) ==
  /\ quoteAt = start[Len(pieces)] + 1
  /\ \E i \in 0 .. Len(pieces) :
       /\ index = start[i] + 1 /\ output = SoFar(pieces)[i]
       /\ \A j \in 1 .. i : ~pieces[j].fails

FailedAt(pieces, start) ==
  \E i \in 0 .. Len(pieces) :
    /\ i < Len(pieces) /\ pieces[i + 1].fails /\ \A j \in 1 .. i : ~pieces[j].fails
    /\ offset = start[i] + 1

AllDecoded(pieces, start) ==
  /\ output = Means(pieces) /\ \A j \in 1 .. Len(pieces) : ~pieces[j].fails
  /\ offset = start[Len(pieces)] + 2

Reads(pieces, start) ==
  /\ pc = "first_pass" => Between(pieces, start)
  /\ pc = "second_pass" => Decoded(pieces, start)
  /\ pc = "parsed" => AllDecoded(pieces, start)
  /\ pc = "no_string" => FailedAt(pieces, start)

\* From any byte of a piece the first pass goes on in the piece, or to the next.
LEMMA PassAPiece ==
  ASSUME NEW p, NEW a, NEW z, Stands(p, a, z), z < Len(text), Len(text) \in Nat,
         NEW k \in 0 .. 11, k = 0 \/ Inside(p, k), index = a + k,
         pc = "first_pass", PassByte \/ PassEscape \/ Unterminated \/ FindQuote
  PROVE  /\ UNCHANGED text /\ pc' = "first_pass"
         /\ index' = z \/ \E m \in 2 .. 11 : Inside(p, m) /\ index' = a + m
<1>1. a \in Nat /\ z \in Nat /\ Quote # Backslash
  BY DEF Stands, Quote, Backslash
<1>2. ASSUME At(index) \notin {Quote, Backslash}, index < z
      PROVE  index' = index + 1 /\ UNCHANGED text /\ pc' = "first_pass"
  <2>1. InText(index)
    BY <1>1, <1>2 DEF InText
  <2>2. PassByte
    BY <1>2, <2>1 DEF PassEscape, Unterminated, FindQuote
  <2> QED BY <2>2 DEF PassByte
<1>3. ASSUME At(index) = Backslash, index + 1 < z
      PROVE  index' = index + 2 /\ UNCHANGED text /\ pc' = "first_pass"
  <2>1. InText(index + 1) /\ InText(index)
    BY <1>1, <1>3 DEF InText
  <2>2. PassEscape
    BY <1>1, <1>3, <2>1 DEF PassByte, Unterminated, FindQuote
  <2> QED BY <2>2 DEF PassEscape
<1>4. CASE k = 0 /\ ByteItself(p)
  <2>1. index = a /\ z = a + 1 /\ At(index) \notin {Quote, Backslash}
    BY <1>1, <1>4, ByteStands
  <2> QED BY <1>1, <1>2, <2>1
<1>5. CASE k = 0 /\ Escaped(p)
  <2>1. index = a /\ z = a + 2 /\ At(index) = Backslash
    BY <1>1, <1>5, EscapeStands
  <2> QED BY <1>1, <1>3, <2>1
<1>6. CASE k = 0 /\ (OneUnit(p) \/ TwoUnits(p))
  <2>1. index = a /\ z >= a + 6 /\ At(index) = Backslash
    BY <1>1, <1>6, UnitStands
  <2>2. index' = a + 2 /\ UNCHANGED text /\ pc' = "first_pass"
    BY <1>1, <1>3, <2>1
  <2>3. Inside(p, 2)
    BY <1>6 DEF Inside
  <2> QED BY <2>2, <2>3
<1>7. CASE (OneUnit(p) \/ TwoUnits(p)) /\ k \in 2 .. 5
  <2>1. At(index) \notin {Quote, Backslash} /\ z = a + (IF OneUnit(p) THEN 6 ELSE 12)
    BY <1>7, UnitStands
  <2>2. index' = a + (k + 1) /\ UNCHANGED text /\ pc' = "first_pass"
    BY <1>1, <1>2, <1>7, <2>1
  <2>3. CASE k = 5 /\ OneUnit(p)
    BY <1>1, <2>1, <2>2, <2>3
  <2>4. CASE k = 5 /\ TwoUnits(p)
    <3>1. Inside(p, 6) /\ 6 \in 2 .. 11 /\ index' = a + 6
      BY <2>2, <2>4 DEF Inside
    <3> QED BY <2>2, <3>1
  <2>5. CASE k # 5
    <3>1. k + 1 \in 2 .. 5 /\ k + 1 \in 2 .. 11
      BY <1>7, <2>5
    <3>2. Inside(p, k + 1)
      BY <1>7, <3>1 DEF Inside
    <3> QED BY <2>2, <3>1, <3>2
  <2> QED BY <1>7, <2>3, <2>4, <2>5
<1>8. CASE TwoUnits(p) /\ k = 6
  <2>1. At(index) = Backslash /\ z = a + 12
    BY <1>8, SecondUnitStands
  <2>2. index' = a + 8 /\ UNCHANGED text /\ pc' = "first_pass"
    BY <1>1, <1>3, <1>8, <2>1
  <2>3. Inside(p, 8)
    BY <1>8 DEF Inside
  <2> QED BY <2>2, <2>3
<1>9. CASE TwoUnits(p) /\ k \in 8 .. 11
  <2>1. At(index) \notin {Quote, Backslash} /\ z = a + 12
    BY <1>9, SecondUnitStands
  <2>2. index' = a + (k + 1) /\ UNCHANGED text /\ pc' = "first_pass"
    BY <1>1, <1>2, <1>9, <2>1
  <2>3. CASE k = 11
    BY <1>1, <2>1, <2>2, <2>3
  <2>4. CASE k # 11
    <3>1. k + 1 \in 8 .. 11 /\ k + 1 \in 2 .. 11
      BY <1>9, <2>4
    <3>2. Inside(p, k + 1)
      BY <1>9, <3>1 DEF Inside
    <3> QED BY <2>2, <3>1, <3>2
  <2> QED BY <2>3, <2>4
<1>10. ByteItself(p) \/ Escaped(p) \/ OneUnit(p) \/ TwoUnits(p)
  BY DEF Stands, IsPieceOfString
<1> QED BY <1>4, <1>5, <1>6, <1>7, <1>8, <1>9, <1>10 DEF Inside

\* The first pass goes over the string piece by piece, and finds the quote behind the last.
LEMMA FirstPassOverPieces ==
  ASSUME NEW pieces, NEW start, StringOf(pieces, start), Len(text) \in Nat,
         pc = "first_pass", Between(pieces, start), output = <<>>,
         PassByte \/ PassEscape \/ Unterminated \/ FindQuote
  PROVE  /\ UNCHANGED text
         /\ \/ pc' = "first_pass" /\ Between(pieces, start)'
            \/ pc' = "second_pass" /\ Decoded(pieces, start)'
<1>1. PICK i \in 0 .. Len(pieces) :
        \/ index = start[i] + 1
        \/ i < Len(pieces) /\ \E k \in 2 .. 11 : Inside(pieces[i + 1], k) /\ index = (start[i] + 1) + k
  BY DEF Between
<1>2. /\ Len(pieces) \in Nat /\ start[i] \in Nat /\ start[Len(pieces)] \in Nat
      /\ start[i] <= start[Len(pieces)] /\ Len(text) >= start[Len(pieces)] + 2
  BY PlacesInOrder
<1>3. CASE index = start[i] + 1 /\ i = Len(pieces)
  <2>1. At(index) = Quote /\ start[0] = 0 /\ pieces \in Seq(Piece)
    BY <1>3 DEF StringOf
  <2>2. InText(index)
    BY <1>2, <1>3 DEF InText
  <2>3. Quote # Backslash
    BY DEF Quote, Backslash
  <2>4. FindQuote
    BY <2>1, <2>2, <2>3 DEF PassByte, PassEscape, Unterminated
  <2>5. quoteAt' = start[Len(pieces)] + 1 /\ index' = start[0] + 1 /\ output' = <<>> /\ text' = text
        /\ pc' = "second_pass"
    BY <1>3, <2>1, <2>4 DEF FindQuote, ContentStart
  <2>6. SoFar(pieces)[0] = <<>> /\ 0 \in 0 .. Len(pieces) /\ \A j \in 1 .. 0 : ~pieces[j].fails
    <3>1. SoFar(pieces)[0] = <<>>
      BY ONLY <2>1, SoFarIs
    <3> QED BY <1>2, <3>1
  <2> QED BY <2>5, <2>6 DEF Decoded
<1>4. CASE i < Len(pieces)
  <2>1. PICK p, a, z : p = pieces[i + 1] /\ a = start[i] + 1 /\ z = start[i + 1] + 1
    OBVIOUS
  <2>2. Stands(p, a, z) /\ i + 1 \in 0 .. Len(pieces) /\ start[i + 1] \in Nat
        /\ start[i + 1] <= start[Len(pieces)]
    BY <1>4, <2>1, PieceAt
  <2>3. a \in Nat /\ z < Len(text)
    BY <1>2, <2>1, <2>2
  <2>4. PICK k \in 0 .. 11 : (k = 0 \/ Inside(p, k)) /\ index = a + k
    <3>1. CASE index = start[i] + 1
      <4>1. index = a + 0
        BY <2>1, <2>3, <3>1
      <4> QED BY <4>1
    <3>2. CASE \E k \in 2 .. 11 : Inside(pieces[i + 1], k) /\ index = (start[i] + 1) + k
      <4>1. PICK k \in 2 .. 11 : Inside(p, k) /\ index = a + k
        BY <2>1, <3>2
      <4>2. k \in 0 .. 11
        OBVIOUS
      <4> QED BY <4>1, <4>2
    <3> QED BY <1>1, <3>1, <3>2
  <2>5. /\ UNCHANGED text /\ pc' = "first_pass"
        /\ index' = z \/ \E m \in 2 .. 11 : Inside(p, m) /\ index' = a + m
    BY <2>2, <2>3, <2>4, PassAPiece
  <2>6. Between(pieces, start)'
    BY <1>4, <2>1, <2>2, <2>5 DEF Between
  <2> QED BY <2>5, <2>6
<1> QED BY <1>1, <1>2, <1>3, <1>4

-----------------------------------------------------------------------------
(* The second pass over it. *)

LEMMA NextPiece ==
  ASSUME NEW pieces, NEW start, StringOf(pieces, start), NEW i \in 0 .. Len(pieces), i < Len(pieces),
         pc = "second_pass", quoteAt = start[Len(pieces)] + 1, index = start[i] + 1,
         output = SoFar(pieces)[i], \A j \in 1 .. i : ~pieces[j].fails,
         ~pieces[i + 1].fails,
         NEW n \in Nat, start[i + 1] + 1 = (start[i] + 1) + n, Decodes(pieces[i + 1].means, n)
  PROVE  UNCHANGED text /\ pc' = "second_pass" /\ Decoded(pieces, start)'
<1>1. i + 1 \in 1 .. Len(pieces) /\ i + 1 \in 0 .. Len(pieces) /\ start[i] \in Nat /\ start[i + 1] \in Nat
  BY PieceAt
<1>2. pieces \in Seq(Piece)
  BY DEF StringOf
<1>3. SoFar(pieces)[i + 1] = SoFar(pieces)[i] \o pieces[i + 1].means
  <2>1. \A j \in 1 .. Len(pieces) : SoFar(pieces)[j] = SoFar(pieces)[j - 1] \o pieces[j].means
    BY ONLY <1>2, SoFarIs
  <2>2. (i + 1) - 1 = i
    OBVIOUS
  <2> QED BY <1>1, <2>1, <2>2
<1>4. output' = output \o pieces[i + 1].means /\ index' = index + n /\ quoteAt' = quoteAt
      /\ text' = text /\ pc' = pc
  BY DEF Decodes, literal
<1>5. index' = start[i + 1] + 1
  BY <1>4
<1>6. output' = SoFar(pieces)[i + 1]
  BY <1>3, <1>4
<1>7. \A j \in 1 .. i + 1 : ~pieces[j].fails
  <2>1. \A j \in 1 .. i + 1 : j \in 1 .. i \/ j = i + 1
    OBVIOUS
  <2> QED BY <2>1
<1> QED BY <1>1, <1>4, <1>5, <1>6, <1>7 DEF Decoded

\* Where a half stands alone nothing behind it makes it a pair.
LEMMA NoPairAtHalf ==
  ASSUME NEW pieces, NEW start, StringOf(pieces, start), NEW i \in 0 .. Len(pieces), i < Len(pieces),
         quoteAt = start[Len(pieces)] + 1, index = start[i] + 1,
         OneUnit(pieces[i + 1])
  PROVE  ~Pair(index)
<1> SUFFICES ASSUME Pair(index) PROVE FALSE
  OBVIOUS
<1>1. PICK p, a, z : p = pieces[i + 1] /\ a = start[i] + 1 /\ z = start[i + 1] + 1
  OBVIOUS
<1>2. Stands(p, a, z) /\ i + 1 \in 1 .. Len(pieces) /\ i + 1 \in 0 .. Len(pieces) /\ start[i + 1] \in Nat
  BY <1>1, PieceAt
<1>3. z = a + 6 /\ ParseHex4(a + 2) = UnitValue(p.spelled, 1) /\ a \in Nat
  <2>1. z = a + (IF OneUnit(p) THEN 6 ELSE 12) /\ ParseHex4(a + 2) = UnitValue(p.spelled, 1)
    BY <1>1, <1>2, UnitStands
  <2> QED BY <1>1, <1>2, <2>1 DEF Stands
<1>4. /\ quoteAt - a >= 12 /\ ParseHex4(a + 2) \in HighHalves
      /\ At(a + 6) = Backslash /\ At(a + 7) = UnicodeLetter /\ ParseHex4(a + 8) \in LowHalves
  BY <1>1 DEF Pair
<1>5. i + 1 < Len(pieces)
  <2>1. i + 1 # Len(pieces)
    <3>1. start[i + 1] + 1 = a + 6 /\ start[Len(pieces)] + 1 >= a + 12
      <4>1. start[Len(pieces)] \in Nat
        BY PlacesInOrder
      <4>2. PICK m : m = start[Len(pieces)]
        OBVIOUS
      <4>3. m \in Nat /\ quoteAt = m + 1 /\ quoteAt - a >= 12
        BY <1>4, <4>1, <4>2
      <4>4. m + 1 >= a + 12
        BY ONLY <1>3, <4>3
      <4>5. start[i + 1] + 1 = a + 6
        BY <1>1, <1>3
      <4> QED BY <4>2, <4>4, <4>5
    <3> QED BY <1>2, <1>3, <3>1
  <2>2. Len(pieces) \in Nat
    BY PlacesInOrder
  <2> QED BY <2>1, <2>2
<1>6. PICK q, y : q = pieces[(i + 1) + 1] /\ y = start[(i + 1) + 1] + 1
  OBVIOUS
<1>7. Stands(q, z, y)
  BY <1>1, <1>2, <1>5, <1>6, PieceAt
<1>8. z + 1 = a + 7 /\ z + 2 = a + 8
  BY <1>3
<1>9. CASE ByteItself(q)
  BY <1>3, <1>4, <1>7, <1>9, ByteStands
<1>10. CASE Escaped(q)
  <2>1. At(z + 1) = q.spelled[2] /\ q.spelled[2] # UnicodeLetter
    BY <1>7, <1>10, EscapeStands DEF Escaped
  <2> QED BY <1>4, <1>8, <2>1
<1>11. CASE OneUnit(q)
  <2>1. UnitValue(q.spelled, 1) \in LowHalves /\ UnitValue(p.spelled, 1) \in HighHalves
    BY <1>3, <1>4, <1>7, <1>8, <1>11, UnitStands
  <2>2. HalvesApart(p, q)
    <3>1. i + 1 \in 1 .. Len(pieces) - 1
      <4>1. Len(pieces) \in Nat
        BY PlacesInOrder
      <4> QED BY <1>2, <1>5, <4>1
    <3> QED BY <1>1, <1>6, <3>1 DEF StringOf
  <2> QED BY <1>1, <1>11, <2>1, <2>2 DEF HalvesApart
<1>12. CASE TwoUnits(q)
  <2>1. UnitValue(q.spelled, 1) \in LowHalves
    BY <1>4, <1>7, <1>8, <1>12, UnitStands
  <2>2. UnitValue(q.spelled, 1) \in HighHalves
    BY <1>12 DEF TwoUnits
  <2>3. PICK u : u = UnitValue(q.spelled, 1)
    OBVIOUS
  <2>4. u \in LowHalves /\ u \in HighHalves
    BY <2>1, <2>2, <2>3
  <2>5. LowHalves \cap HighHalves = {}
    BY DEF HighHalves, LowHalves
  <2> QED BY ONLY <2>4, <2>5
<1> QED BY <1>7, <1>9, <1>10, <1>11, <1>12 DEF Stands, IsPieceOfString

\* At a piece the second pass decodes it, or stops if it is an error.
LEMMA DecodeAPiece ==
  ASSUME NEW p, NEW a, NEW z, Stands(p, a, z), index = a, z <= quoteAt, quoteAt \in Nat,
         pc = "second_pass", OneUnit(p) => ~Pair(index),
         CopyByte \/ ShortEscape \/ UnicodeEscape \/ SurrogatePair \/ BadEscape \/ CloseString
  PROVE  \/ ~p.fails /\ \E n \in Nat : z = a + n /\ Decodes(p.means, n)
         \/ p.fails /\ FailsAt(a)
<1>1. a \in Nat /\ z \in Nat /\ p.fails \in BOOLEAN /\ Quote # Backslash
  BY DEF Stands, Quote, Backslash
<1>2. Backslash # UnicodeLetter /\ UnicodeLetter \notin DOMAIN ShortEscapes
  BY DEF ShortEscapes, Backslash, UnicodeLetter, Quote, Slash
<1>3. CASE ByteItself(p)
  <2>1. At(index) # Backslash /\ z = a + 1 /\ p.means = <<At(index)>> /\ ~p.fails
    BY <1>3, ByteStands
  <2>2. index < quoteAt
    BY <1>1, <2>1
  <2>3. CopyByte
    <3>1. \A c : ~Escape(c)
      BY <2>1 DEF Escape
    <3>2. ~BadEscape /\ ~CloseString
      BY <1>1, <2>1, <2>2 DEF BadEscape, CloseString
    <3> QED BY <3>1, <3>2 DEF ShortEscape, UnicodeEscape, SurrogatePair
  <2>4. Decodes(p.means, 1)
    BY <2>1, <2>3 DEF CopyByte
  <2> QED BY <2>1, <2>4
<1>4. CASE Escaped(p)
  <2>1. At(index) = Backslash /\ At(index + 1) = p.spelled[2] /\ z = a + 2
    BY <1>4, EscapeStands
  <2>2. index < quoteAt /\ ~CloseString
    BY <1>1, <2>1 DEF CloseString
  <2>3. /\ At(index + 1) # UnicodeLetter
        /\ p.fails <=> At(index + 1) \notin DOMAIN ShortEscapes
        /\ ~p.fails => p.means = <<ShortEscapes[At(index + 1)]>>
    BY <1>4, <2>1 DEF Escaped
  <2>4. CASE ~p.fails
    <3>1. ShortEscape
      <4>1. ~Escape(UnicodeLetter)
        BY <2>3 DEF Escape
      <4>2. ~BadEscape
        BY <2>3, <2>4 DEF BadEscape
      <4>3. ~CopyByte
        BY <2>1 DEF CopyByte
      <4> QED BY <2>2, <4>1, <4>2, <4>3 DEF UnicodeEscape, SurrogatePair
    <3>2. PICK c \in DOMAIN ShortEscapes : Escape(c) /\ Decodes(<<ShortEscapes[c]>>, 2)
      BY <3>1 DEF ShortEscape
    <3>3. c = At(index + 1)
      BY <3>2 DEF Escape
    <3>4. Decodes(p.means, 2)
      BY <2>3, <2>4, <3>2, <3>3
    <3> QED BY <2>1, <2>4, <3>4
  <2>5. CASE p.fails
    <3>1. BadEscape
      <4>1. At(index + 1) \notin DOMAIN ShortEscapes \cup {UnicodeLetter}
        BY <2>3, <2>5
      <4>2. ~Escape(UnicodeLetter) /\ \A c \in DOMAIN ShortEscapes : ~Escape(c)
        BY <4>1 DEF Escape
      <4>3. ~CopyByte
        BY <2>1 DEF CopyByte
      <4> QED BY <2>2, <4>2, <4>3 DEF ShortEscape, UnicodeEscape, SurrogatePair
    <3> QED BY <2>5, <3>1 DEF BadEscape
  <2> QED BY <2>4, <2>5
<1>5. CASE OneUnit(p)
  <2>1. /\ At(index) = Backslash /\ At(index + 1) = UnicodeLetter
        /\ ParseHex4(index + 2) = UnitValue(p.spelled, 1) /\ z = a + 6
    BY <1>5, UnitStands
  <2>2. index < quoteAt /\ ~CloseString /\ quoteAt - index >= 6
    BY <1>1, <2>1 DEF CloseString
  <2>3. /\ p.fails <=> ParseHex4(index + 2) \in HighHalves \cup LowHalves
        /\ ~p.fails => p.means = Utf8(ParseHex4(index + 2))
    BY <1>5, <2>1 DEF OneUnit
  <2>4. ~Pair(index) /\ (LoneUnit(index) <=> ~p.fails)
    BY <1>5, <2>2, <2>3 DEF LoneUnit
  <2>5. CASE ~p.fails
    <3>1. UnicodeEscape
      BY <1>2, <1>5, <2>1, <2>2, <2>4, <2>5 DEF CopyByte, ShortEscape, SurrogatePair, BadEscape, Escape
    <3>2. Decodes(p.means, 6)
      BY <2>3, <2>5, <3>1 DEF UnicodeEscape
    <3> QED BY <2>1, <2>5, <3>2
  <2>6. CASE p.fails
    <3>1. BadEscape
      BY <1>2, <1>5, <2>1, <2>2, <2>4, <2>6 DEF CopyByte, ShortEscape, UnicodeEscape, SurrogatePair, Escape
    <3> QED BY <2>6, <3>1 DEF BadEscape
  <2> QED BY <2>5, <2>6
<1>6. CASE TwoUnits(p)
  <2>1. PICK h, l : h = UnitValue(p.spelled, 1) /\ l = UnitValue(p.spelled, 7)
    OBVIOUS
  <2>2. h \in HighHalves /\ l \in LowHalves /\ ~p.fails
        /\ p.means = Utf8(65536 + 1024 * (h - 55296) + (l - 56320))
    BY <1>6, <2>1 DEF TwoUnits
  <2>3. /\ At(index) = Backslash /\ At(index + 1) = UnicodeLetter /\ ParseHex4(index + 2) = h
    BY <1>6, <2>1, UnitStands
  <2>4. At(index + 6) = Backslash /\ At(index + 7) = UnicodeLetter /\ ParseHex4(index + 8) = l /\ z = a + 12
    BY <1>6, <2>1, SecondUnitStands
  <2>5. index < quoteAt /\ ~CloseString /\ quoteAt - index >= 12
    BY <1>1, <2>4 DEF CloseString
  <2>6. Pair(index) /\ ~LoneUnit(index)
    BY <2>2, <2>3, <2>4, <2>5 DEF Pair, LoneUnit
  <2>7. SurrogatePair
    BY <1>2, <2>3, <2>5, <2>6 DEF CopyByte, ShortEscape, UnicodeEscape, BadEscape, Escape
  <2>8. CodePointOfPair(index) = 65536 + 1024 * (h - 55296) + (l - 56320)
    <3>1. h % 1024 = h - 55296 /\ l % 1024 = l - 56320
      BY <2>2 DEF HighHalves, LowHalves
    <3> QED BY <2>3, <2>4, <3>1 DEF CodePointOfPair
  <2>9. Decodes(p.means, 12)
    BY <2>2, <2>7, <2>8 DEF SurrogatePair
  <2> QED BY <2>2, <2>4, <2>9
<1> QED BY <1>3, <1>4, <1>5, <1>6 DEF Stands, IsPieceOfString

LEMMA SecondPassOverPieces ==
  ASSUME NEW pieces, NEW start, StringOf(pieces, start),
         pc = "second_pass", Decoded(pieces, start),
         CopyByte \/ ShortEscape \/ UnicodeEscape \/ SurrogatePair \/ BadEscape \/ CloseString
  PROVE  /\ UNCHANGED text
         /\ \/ pc' = "second_pass" /\ Decoded(pieces, start)'
            \/ pc' = "parsed" /\ AllDecoded(pieces, start)'
            \/ pc' = "no_string" /\ FailedAt(pieces, start)'
<1>1. quoteAt = start[Len(pieces)] + 1
  BY DEF Decoded
<1>2. PICK i \in 0 .. Len(pieces) :
        index = start[i] + 1 /\ output = SoFar(pieces)[i] /\ \A j \in 1 .. i : ~pieces[j].fails
  BY DEF Decoded
<1>3. start[i] \in Nat /\ start[Len(pieces)] \in Nat /\ Len(pieces) \in Nat
  BY PlacesInOrder
<1>4. CASE i = Len(pieces)
  <2>1. index >= quoteAt /\ ~Decoding
    BY <1>1, <1>2, <1>3, <1>4 DEF Decoding
  <2>2. CloseString
    BY <2>1 DEF CopyByte, ShortEscape, UnicodeEscape, SurrogatePair, BadEscape, Escape
  <2>3. SoFar(pieces)[Len(pieces)] = Means(pieces)
    <3>1. pieces \in Seq(Piece)
      BY DEF StringOf
    <3> QED BY ONLY <3>1, SoFarIs
  <2>4. /\ offset' = start[Len(pieces)] + 2 /\ output' = Means(pieces)
        /\ text' = text /\ pc' = "parsed"
    <3>1. (start[Len(pieces)] + 1) + 1 = start[Len(pieces)] + 2
      BY <1>3
    <3> QED BY <1>1, <1>2, <1>4, <2>2, <2>3, <3>1 DEF CloseString
  <2> QED BY <1>2, <1>4, <2>4 DEF AllDecoded
<1>5. CASE i < Len(pieces)
  <2>1. PICK p, a, z : p = pieces[i + 1] /\ a = start[i] + 1 /\ z = start[i + 1] + 1
    OBVIOUS
  <2>2. Stands(p, a, z) /\ start[i + 1] \in Nat /\ start[i + 1] <= start[Len(pieces)]
    BY <1>5, <2>1, PieceAt
  <2>3. z <= quoteAt /\ quoteAt \in Nat
    BY <1>1, <1>3, <2>1, <2>2
  <2>4. OneUnit(p) => ~Pair(index)
    BY <1>1, <1>2, <1>5, <2>1, NoPairAtHalf
  <2>5. \/ ~p.fails /\ \E n \in Nat : z = a + n /\ Decodes(p.means, n)
        \/ p.fails /\ FailsAt(a)
    BY <1>2, <2>1, <2>2, <2>3, <2>4, DecodeAPiece
  <2>6. CASE ~p.fails /\ \E n \in Nat : z = a + n /\ Decodes(p.means, n)
    BY <1>1, <1>2, <1>5, <2>1, <2>6, NextPiece
  <2>7. CASE p.fails /\ FailsAt(a)
    <3>1. offset' = start[i] + 1 /\ pc' = "no_string" /\ text' = text
      BY <2>1, <2>7 DEF FailsAt
    <3>2. FailedAt(pieces, start)'
      BY <1>2, <1>5, <2>1, <2>7, <3>1 DEF FailedAt
    <3> QED BY <3>1, <3>2
  <2> QED BY <2>5, <2>6, <2>7
<1> QED BY <1>3, <1>4, <1>5

\* A step goes on reading the string.
LEMMA ReadsStep ==
  ASSUME NEW pieces, NEW start, StringOf(pieces, start), Len(text) \in Nat,
         pc \in StringPhases, Reads(pieces, start), StringInv, StringNext
  PROVE  text' = text /\ Reads(pieces, start)'
<1>1. CASE pc = "string"
  <2>1. /\ InText(0) /\ At(0) = Quote /\ start[0] = 0 /\ 0 \in 0 .. Len(pieces)
    BY PlacesInOrder DEF StringOf, InText
  <2>2. OpenString
    BY <1>1, <2>1 DEF StringNext, NotAString, PassByte, PassEscape, Unterminated, FindQuote,
                      CopyByte, ShortEscape, UnicodeEscape, SurrogatePair, BadEscape, CloseString,
                      Escape, Decoding
  <2>3. text' = text /\ pc' = "first_pass" /\ index' = start[0] + 1
    BY <2>1, <2>2 DEF OpenString, ContentStart
  <2>4. Between(pieces, start)'
    BY <2>1, <2>3 DEF Between
  <2> QED BY <2>3, <2>4 DEF Reads
<1>2. CASE pc = "first_pass"
  <2>1. Between(pieces, start) /\ output = <<>>
    BY <1>2 DEF Reads, StringInv, FirstPassInv
  <2>2. PassByte \/ PassEscape \/ Unterminated \/ FindQuote
    BY <1>2 DEF StringNext, NotAString, OpenString, CopyByte, ShortEscape, UnicodeEscape,
                SurrogatePair, BadEscape, CloseString, Escape, Decoding
  <2> QED BY <1>2, <2>1, <2>2, FirstPassOverPieces DEF Reads
<1>3. CASE pc = "second_pass"
  <2>1. Decoded(pieces, start)
    BY <1>3 DEF Reads
  <2>2. CopyByte \/ ShortEscape \/ UnicodeEscape \/ SurrogatePair \/ BadEscape \/ CloseString
    BY <1>3 DEF StringNext, NotAString, OpenString, PassByte, PassEscape, Unterminated, FindQuote
  <2> QED BY <1>3, <2>1, <2>2, SecondPassOverPieces DEF Reads
<1>4. CASE pc \in {"parsed", "no_string"}
  BY <1>4 DEF StringNext, NotAString, OpenString, PassByte, PassEscape, Unterminated, FindQuote,
              CopyByte, ShortEscape, UnicodeEscape, SurrogatePair, BadEscape, CloseString,
              Escape, Decoding
<1> QED BY <1>1, <1>2, <1>3, <1>4 DEF StringPhases

-----------------------------------------------------------------------------
(* The print of a string is a string of known pieces. *)

\* The three ways a byte is printed.
Plain(c) == c \notin {Quote, Backslash} /\ EscapedByte(c) = <<c>>
Short(c) == \E x \in DOMAIN ShortEscapes : EscapedByte(c) = <<Backslash, x>> /\ ShortEscapes[x] = c
Control(c) == c < 32 /\ EscapedByte(c) = UnicodeOf(c)

LEMMA ThreeWays ==
  ASSUME NEW c \in Byte
  PROVE  Plain(c) \/ Short(c) \/ Control(c)
<1>1. CASE c \in {Quote, Backslash}
  <2>1. EscapedByte(c) = <<Backslash, c>> /\ c \in DOMAIN ShortEscapes /\ ShortEscapes[c] = c
    BY <1>1, EscapedByteIs DEF ShortEscapes, Quote, Backslash, Slash
  <2> QED BY <2>1 DEF Short
<1>2. CASE c \in ShortControls
  <2>1. \E x \in DOMAIN ShortEscapes : EscapedByte(c) = <<Backslash, x>> /\ ShortEscapes[x] = c
    BY <1>2, EscapedByteIs DEF ShortEscapes, ShortControls, Newline, Return, Tab, Quote, Backslash, Slash
  <2> QED BY <2>1 DEF Short
<1>3. CASE c < 32 /\ c \notin ShortControls
  BY <1>3, EscapedByteIs DEF Control
<1>4. CASE c >= 32 /\ c \notin {Quote, Backslash}
  BY <1>4, EscapedByteIs DEF Plain
<1>5. c \in Int
  BY DEF Byte
<1> QED BY <1>1, <1>2, <1>3, <1>4, <1>5

\* Byte by byte.
LEMMA ControlBytes ==
  ASSUME NEW c \in Byte, Control(c)
  PROVE  /\ Len(EscapedByte(c)) = 6
         /\ EscapedByte(c)[1] = Backslash /\ EscapedByte(c)[2] = UnicodeLetter
         /\ \A k \in 3 .. 6 : /\ EscapedByte(c)[k] \notin {Quote, Backslash} /\ IsHex(EscapedByte(c)[k])
                              /\ EscapedByte(c)[k] \in Byte
         /\ HexValue(EscapedByte(c)[3]) = 0 /\ HexValue(EscapedByte(c)[4]) = 0
         /\ HexValue(EscapedByte(c)[5]) = c \div 16 /\ HexValue(EscapedByte(c)[6]) = c % 16
<1>1. PICK h, l : h = c \div 16 /\ l = c % 16
  OBVIOUS
<1>2. h \in 0 .. 15 /\ l \in 0 .. 15
  BY <1>1 DEF Control, Byte
<1>3. PICK e : e = EscapedByte(c)
  OBVIOUS
<1>4. e = <<Backslash, UnicodeLetter, 48, 48, LowerHex(h), LowerHex(l)>>
  BY <1>1, <1>3 DEF Control, UnicodeOf
<1>5. IsHex(48) /\ HexValue(48) = 0 /\ 48 \in Byte
  BY DEF IsHex, HexValue, Digits, Byte
<1>6. \A d : IsHex(d) => d \notin {Quote, Backslash}
  BY DEF IsHex, Digits, Quote, Backslash
<1>7. /\ LowerHex(h) \in Byte /\ IsHex(LowerHex(h)) /\ HexValue(LowerHex(h)) = h
      /\ LowerHex(l) \in Byte /\ IsHex(LowerHex(l)) /\ HexValue(LowerHex(l)) = l
  BY <1>2, HexDigits
<1>8. Len(e) = 6 /\ e[1] = Backslash /\ e[2] = UnicodeLetter /\ e[3] = 48 /\ e[4] = 48
      /\ e[5] = LowerHex(h) /\ e[6] = LowerHex(l)
  BY <1>4
<1>9. ASSUME NEW k \in 3 .. 6 PROVE e[k] \notin {Quote, Backslash} /\ IsHex(e[k]) /\ e[k] \in Byte
  <2>1. k = 3 \/ k = 4 \/ k = 5 \/ k = 6
    OBVIOUS
  <2> QED BY <1>5, <1>6, <1>7, <1>8, <2>1
<1> QED BY <1>1, <1>3, <1>5, <1>7, <1>8, <1>9

Printed(c) == [spelled |-> EscapedByte(c), means |-> <<c>>, fails |-> FALSE]
PrintPieces(s) == [i \in 1 .. Len(s) |-> Printed(s[i])]

LEMMA ControlValue ==
  ASSUME NEW c \in Byte, Control(c)
  PROVE  /\ Len(EscapedByte(c)) = 6 /\ UnitAt(EscapedByte(c), 1)
         /\ UnitValue(EscapedByte(c), 1) = c
<1>1. PICK e : e = EscapedByte(c)
  OBVIOUS
<1>2. /\ Len(e) = 6 /\ e[1] = Backslash /\ e[2] = UnicodeLetter
      /\ \A k \in 3 .. 6 : e[k] \notin {Quote, Backslash} /\ IsHex(e[k])
      /\ HexValue(e[3]) = 0 /\ HexValue(e[4]) = 0
      /\ HexValue(e[5]) = c \div 16 /\ HexValue(e[6]) = c % 16
  BY <1>1, ControlBytes
<1>3. 1 + 1 = 2 /\ 1 + 2 = 3 /\ 1 + 3 = 4 /\ 1 + 4 = 5 /\ 1 + 5 = 6
  OBVIOUS
<1>4. UnitAt(e, 1)
  BY <1>2, <1>3 DEF UnitAt
<1>5. UnitValue(e, 1) = 4096 * 0 + 256 * 0 + 16 * (c \div 16) + (c % 16)
  BY <1>2, <1>3 DEF UnitValue
<1>6. 16 * (c \div 16) + (c % 16) = c /\ c \div 16 \in Int /\ c % 16 \in Int
  BY DEF Byte
<1> QED BY <1>1, <1>2, <1>4, <1>5, <1>6

LEMMA PrintedPiece ==
  ASSUME NEW c \in Byte
  PROVE  /\ Printed(c) \in Piece
         /\ ByteItself(Printed(c)) \/ Escaped(Printed(c)) \/ OneUnit(Printed(c))
         /\ OneUnit(Printed(c)) => UnitValue(Printed(c).spelled, 1) \notin HighHalves
<1>1. PICK p : p = Printed(c)
  OBVIOUS
<1>2. p.spelled = EscapedByte(c) /\ p.means = <<c>> /\ p.fails = FALSE
  BY <1>1 DEF Printed
<1>3. p \in Piece
  <2>1. EscapedByte(c) \in Seq(Byte) /\ <<c>> \in Seq(Byte)
    BY EscapedByteType
  <2> QED BY <1>1, <2>1 DEF Printed, Piece
<1>4. p.spelled \in Seq(Byte)
  BY <1>2, EscapedByteType
<1>5. CASE Plain(c)
  <2>1. p.spelled = <<c>> /\ c \notin {Quote, Backslash}
    BY <1>2, <1>5 DEF Plain
  <2>2. Len(p.spelled) = 1 /\ p.spelled[1] = c
    BY <2>1
  <2>3. ByteItself(p)
    BY <1>2, <2>1, <2>2 DEF ByteItself
  <2>4. ~OneUnit(p)
    BY <2>2 DEF OneUnit
  <2> QED BY <1>1, <1>3, <2>3, <2>4
<1>6. CASE Short(c)
  <2>1. PICK x \in DOMAIN ShortEscapes : p.spelled = <<Backslash, x>> /\ ShortEscapes[x] = c
    BY <1>2, <1>6 DEF Short
  <2>2. Len(p.spelled) = 2 /\ p.spelled[1] = Backslash /\ p.spelled[2] = x
    BY <2>1
  <2>3. x # UnicodeLetter
    BY DEF ShortEscapes, UnicodeLetter, Quote, Backslash, Slash
  <2>4. Escaped(p)
    BY <1>2, <2>1, <2>2, <2>3 DEF Escaped
  <2>5. ~OneUnit(p)
    BY <2>2 DEF OneUnit
  <2> QED BY <1>1, <1>3, <2>4, <2>5
<1>7. CASE Control(c)
  <2>1. Len(p.spelled) = 6 /\ UnitAt(p.spelled, 1) /\ UnitValue(p.spelled, 1) = c
    BY <1>2, <1>7, ControlValue
  <2>2. c < 32
    BY <1>7, Zenon DEF Control
  <2>3. c \notin HighHalves \cup LowHalves /\ c < 128
    BY <2>2 DEF HighHalves, LowHalves, Byte
  <2>4. Utf8(c) = <<c>>
    BY <2>3 DEF Utf8
  <2>5. OneUnit(p)
    BY <1>2, <2>1, <2>3, <2>4 DEF OneUnit
  <2> QED BY <1>1, <1>3, <2>1, <2>3, <2>5
<1> QED BY <1>5, <1>6, <1>7, ThreeWays

LEMMA PrintSpells ==
  ASSUME NEW s, s \in Seq(Byte)
  PROVE  /\ PrintPieces(s) \in Seq(Piece) /\ Len(PrintPieces(s)) = Len(s)
         /\ \A i \in 1 .. Len(s) : ~PrintPieces(s)[i].fails
         /\ SpellsString(EscapeJsonBytes(s), PrintPieces(s))
<1>1. PICK ps : ps = PrintPieces(s)
  OBVIOUS
<1>2. \A i \in 1 .. Len(s) : s[i] \in Byte
  BY ElementOfSeq
<1>3. \A i \in 1 .. Len(s) : ps[i] = Printed(s[i])
  BY <1>1 DEF PrintPieces
<1>4. ps \in Seq(Piece) /\ Len(ps) = Len(s)
  <2>1. \A i \in 1 .. Len(s) : Printed(s[i]) \in Piece
    BY <1>2, PrintedPiece
  <2> QED BY <1>1, <2>1 DEF PrintPieces
<1>5. ASSUME NEW i \in 1 .. Len(s) PROVE ~ps[i].fails /\ ps[i].spelled = EscapedByte(s[i])
  <2>1. ps[i] = Printed(s[i])
    BY <1>3
  <2>2. PICK p, c : p = ps[i] /\ c = s[i]
    OBVIOUS
  <2>3. p = Printed(c)
    BY <2>1, <2>2
  <2>4. p.spelled = EscapedByte(c) /\ p.fails = FALSE
    BY ONLY <2>3 DEF Printed
  <2> QED BY <2>2, <2>4
<1>6. \A i \in 1 .. Len(s) : ByteItself(ps[i]) \/ Escaped(ps[i]) \/ OneUnit(ps[i])
  BY <1>2, <1>3, PrintedPiece
<1>7. \A i \in 1 .. Len(s) : OneUnit(ps[i]) => UnitValue(ps[i].spelled, 1) \notin HighHalves
  BY <1>2, <1>3, PrintedPiece
<1>8. Spelled(ps) = FlattenSeq([i \in 1 .. Len(s) |-> EscapedByte(s[i])])
  <2>1. [i \in 1 .. Len(ps) |-> ps[i].spelled] = [i \in 1 .. Len(s) |-> EscapedByte(s[i])]
    BY <1>4, <1>5, Zenon
  <2> QED BY <2>1 DEF Spelled
<1>9. EscapeJsonBytes(s) = <<Quote>> \o Spelled(ps) \o <<Quote>>
  BY <1>8 DEF EscapeJsonBytes
<1>10. IsPrefix(EscapeJsonBytes(s), EscapeJsonBytes(s))
  <2>1. PICK t : t = EscapeJsonBytes(s)
    OBVIOUS
  <2>2. t \in Seq(Byte)
    BY <2>1, EscapeJsonBytesType
  <2>3. Len(t) <= Len(t)
    BY <2>2
  <2> QED BY <2>1, <2>3 DEF IsPrefix
<1>11. \A i \in 1 .. Len(ps) - 1 : i \in 1 .. Len(s)
  BY <1>4
<1> QED BY <1>1, <1>4, <1>5, <1>6, <1>7, <1>9, <1>10, <1>11 DEF SpellsString

\* What the pieces of a print mean is what was printed.
LEMMA PrintMeans ==
  ASSUME NEW s, s \in Seq(Byte)
  PROVE  Means(PrintPieces(s)) = s
<1>1. PICK n : n = Len(s)
  OBVIOUS
<1>2. n \in Nat
  BY <1>1
<1>3. PICK seqs : seqs = [i \in 1 .. n |-> <<s[i]>>]
  OBVIOUS
<1>4. \A i \in 1 .. n : s[i] \in Byte
  BY <1>1, ElementOfSeq
<1>5. seqs \in Seq(Seq(Byte)) /\ Len(seqs) = n
  <2>1. \A i \in 1 .. n : <<s[i]>> \in Seq(Byte)
    BY <1>4
  <2> QED BY <1>2, <1>3, <2>1
<1>6. PICK at : at = [i \in 0 .. n |-> SubSeq(s, 1, i)]
  OBVIOUS
<1>7. at \in [0 .. n -> Seq(Byte)]
  <2>1. \A i \in 0 .. n : SubSeq(s, 1, i) \in Seq(Byte)
    BY <1>1, <1>2
  <2> QED BY <1>6, <2>1
<1>8. Joins(seqs, at)
  <2>1. at[0] = <<>>
    BY <1>2, <1>6, SubSeqEmpty
  <2>2. ASSUME NEW i \in 1 .. n PROVE at[i] = at[i - 1] \o seqs[i]
    <3>1. PICK u : u = at[i - 1]
      OBVIOUS
    <3>2. PICK v : v = at[i]
      OBVIOUS
    <3>9. i \in Int /\ i \in 0 .. n /\ i - 1 \in 0 .. n /\ i \in 1 .. Len(s)
      BY <1>1, <1>2
    <3>10. \A j \in 0 .. n : at[j] = SubSeq(s, 1, j)
      BY <1>6, Zenon
    <3>3. u = SubSeq(s, 1, i - 1) /\ v = SubSeq(s, 1, i) /\ i - 1 \in 0 .. n /\ i \in 1 .. Len(s)
      BY ONLY <3>1, <3>2, <3>9, <3>10
    <3>4. u \in Seq(Byte) /\ Len(u) = i - 1 /\ \A k \in 1 .. i - 1 : u[k] = s[k]
      BY <3>3
    <3>5. v \in Seq(Byte) /\ Len(v) = i /\ \A k \in 1 .. i : v[k] = s[k]
      BY <3>3
    <3>6. PICK w : w = u \o <<s[i]>>
      OBVIOUS
    <3>7. w \in Seq(Byte) /\ Len(w) = i /\ \A k \in 1 .. i : w[k] = s[k]
      BY <1>4, <3>4, <3>6
    <3>8. v = w
      BY ONLY <3>5, <3>7, SeqEqual
    <3> QED BY <1>3, <3>1, <3>2, <3>6, <3>8
  <2> QED BY <1>5, <2>1, <2>2 DEF Joins
<1>9. FlattenSeq(seqs) = at[n]
  <2>1. at \in [0 .. Len(seqs) -> Seq(Byte)]
    BY <1>5, <1>7
  <2>2. FlattenSeq(seqs) = at[Len(seqs)]
    BY ONLY <1>5, <1>8, <2>1, FlattenIsLast
  <2> QED BY <1>5, <2>2
<1>10. at[n] = s
  BY <1>1, <1>2, <1>6, SubSeqFull
<1>11. Means(PrintPieces(s)) = FlattenSeq(seqs)
  <2>1. PICK ps : ps = PrintPieces(s)
    OBVIOUS
  <2>2. Len(ps) = n
    BY <1>1, <2>1, PrintSpells
  <2>3. \A i \in 1 .. n : ps[i].means = <<s[i]>>
    BY <1>1, <2>1 DEF PrintPieces, Printed
  <2>4. [i \in 1 .. Len(ps) |-> ps[i].means] = seqs
    BY <1>3, <2>2, <2>3
  <2> QED BY <2>1, <2>4 DEF Means
<1> QED BY <1>9, <1>10, <1>11

-----------------------------------------------------------------------------
(* Where the pieces are, and what it is to have read them. *)

LEMMA PlacesAre ==
  ASSUME NEW pieces, pieces \in Seq(Piece)
  PROVE  /\ Places(pieces) \in [0 .. Len(pieces) -> Nat]
         /\ Places(pieces)[0] = 0
         /\ \A i \in 1 .. Len(pieces) : Places(pieces)[i] = Places(pieces)[i - 1] + Len(pieces[i].spelled)
         /\ Len(Spelled(pieces)) = Places(pieces)[Len(pieces)]
<1>1. PICK seqs, n, start : seqs = Spellings(pieces) /\ n = Len(pieces) /\ start = Places(pieces)
  OBVIOUS
<1>2. seqs \in Seq(Seq(Byte)) /\ Len(seqs) = n /\ n \in Nat /\ \A i \in 1 .. n : seqs[i] = pieces[i].spelled
  BY <1>1, PieceType
<1>3. \E at \in [0 .. n -> Nat] : Starts(seqs, at)
  BY ONLY <1>2, Flattening
<1>4. start \in [0 .. n -> Nat] /\ Starts(seqs, start)
  BY <1>1, <1>3 DEF Places
<1>5. Spelled(pieces) = FlattenSeq(seqs)
  BY <1>1 DEF Spelled, Spellings
<1>6. start[0] = 0 /\ Len(FlattenSeq(seqs)) = start[n]
  BY <1>2, <1>4 DEF Starts
<1>7. ASSUME NEW i \in 1 .. n PROVE start[i] = start[i - 1] + Len(pieces[i].spelled)
  <2>1. start[i] = start[i - 1] + Len(seqs[i])
    BY <1>2, <1>4 DEF Starts
  <2> QED BY <1>2, <2>1
<1> QED BY <1>1, <1>4, <1>5, <1>6, <1>7

\* The first i pieces end where the next begins.
LEMMA PrefixLength ==
  ASSUME NEW pieces, pieces \in Seq(Piece), NEW i \in 0 .. Len(pieces)
  PROVE  Len(Spelled(SubSeq(pieces, 1, i))) = Places(pieces)[i]
<1>1. PICK n, start, g : n = Len(pieces) /\ start = Places(pieces) /\ g = SubSeq(pieces, 1, i)
  OBVIOUS
<1>2. n \in Nat /\ i \in 0 .. n /\ i \in Nat
  BY <1>1
<1>3. g \in Seq(Piece) /\ Len(g) = i /\ \A j \in 1 .. i : g[j] = pieces[j]
  BY <1>1, <1>2
<1>4. PICK at : at = Places(g)
  OBVIOUS
<1>5. /\ at[0] = 0 /\ Len(Spelled(g)) = at[i]
      /\ \A j \in 1 .. i : at[j] = at[j - 1] + Len(pieces[j].spelled)
  BY <1>3, <1>4, PlacesAre
<1>6. start[0] = 0 /\ \A j \in 1 .. n : start[j] = start[j - 1] + Len(pieces[j].spelled)
  BY <1>1, PlacesAre
<1>7. PICK S : S = {m \in Nat : m <= i => at[m] = start[m]}
  OBVIOUS
<1>8. 0 \in S
  BY <1>5, <1>6, <1>7
<1>9. ASSUME NEW m \in Nat, m \in S PROVE m + 1 \in S
  <2>1. CASE m + 1 <= i
    <3>1. m + 1 \in 1 .. i /\ m + 1 \in 1 .. n /\ (m + 1) - 1 = m /\ m <= i
      BY <1>2, <2>1
    <3>2. at[m] = start[m]
      BY <1>7, <1>9, <3>1
    <3>3. at[m + 1] = at[m] + Len(pieces[m + 1].spelled)
      BY <1>5, <3>1
    <3>4. start[m + 1] = start[m] + Len(pieces[m + 1].spelled)
      BY <1>6, <3>1
    <3>5. at[m + 1] = start[m + 1] /\ m + 1 \in Nat
      BY <3>2, <3>3, <3>4
    <3> QED BY <1>7, <3>5
  <2>2. CASE ~(m + 1 <= i)
    BY <1>7, <2>2
  <2> QED BY <2>1, <2>2
<1>10. Nat \subseteq S
  BY ONLY <1>8, <1>9, SetInduction
<1>11. at[i] = start[i]
  BY <1>2, <1>7, <1>10
<1> QED BY <1>1, <1>5, <1>11

LEMMA ReadingIsDecoding ==
  ASSUME made \in Seq(Piece), pc \in {"parsed", "no_string"}, Reads(made, Places(made))
  PROVE  DecodesWhatIsWritten
<1>1. PICK n, start : n = Len(made) /\ start = Places(made)
  OBVIOUS
<1>2. n \in Nat /\ DOMAIN made = 1 .. n
  BY <1>1
<1>3. PICK bad : bad = {i \in DOMAIN made : made[i].fails}
  OBVIOUS
<1>4. PICK before : before = {i \in DOMAIN made : \A j \in bad : i < j}
  OBVIOUS
<1>5. PICK good : good = SubSeq(made, 1, Cardinality(before))
  OBVIOUS
<1>6. CASE pc = "parsed"
  <2>1. output = Means(made) /\ (\A j \in 1 .. n : ~made[j].fails) /\ offset = start[n] + 2
    BY <1>1, <1>6 DEF Reads, AllDecoded
  <2>2. bad = {}
    BY <1>2, <1>3, <2>1
  <2>3. before = 1 .. n
    BY <1>2, <1>4, <2>2
  <2>4. Cardinality(before) = n
    BY <1>2, <2>3, FS_Interval
  <2>5. Len(Spelled(good)) = start[n]
    <3>1. n \in 0 .. Len(made)
      BY <1>1, <1>2
    <3> QED BY <1>1, <1>5, <2>4, <3>1, PrefixLength
  <2> QED BY <1>3, <1>4, <1>5, <1>6, <2>1, <2>2, <2>5 DEF DecodesWhatIsWritten
<1>7. CASE pc = "no_string"
  <2>1. PICK i \in 0 .. n : i < n /\ made[i + 1].fails /\ (\A j \in 1 .. i : ~made[j].fails)
                            /\ offset = start[i] + 1
    BY <1>1, <1>7 DEF Reads, FailedAt
  <2>2. i + 1 \in bad /\ i \in Nat
    BY <1>2, <1>3, <2>1
  <2>3. \A j \in bad : j \in 1 .. n /\ j > i
    BY <1>2, <1>3, <2>1
  <2>4. before = 1 .. i
    BY <1>2, <1>4, <2>1, <2>2, <2>3
  <2>5. Cardinality(before) = i
    BY <2>2, <2>4, FS_Interval
  <2>6. Len(Spelled(good)) = start[i]
    <3>1. i \in 0 .. Len(made)
      BY <1>1, <2>1
    <3> QED BY <1>1, <1>5, <2>5, <3>1, PrefixLength
  <2> QED BY <1>3, <1>4, <1>5, <1>7, <2>1, <2>2, <2>6 DEF DecodesWhatIsWritten
<1> QED BY <1>6, <1>7

-----------------------------------------------------------------------------
(* minify over a source of known pieces. *)

\* The source, byte by byte.
SourceOf(pieces, start) ==
  /\ pieces \in Seq(Piece)
  /\ start \in [0 .. Len(pieces) -> Nat] /\ start[0] = 0
  /\ \A i \in 1 .. Len(pieces) :
       /\ WholePiece(pieces[i]) \/ (i = Len(pieces) /\ CutOffPiece(pieces[i]))
       /\ start[i] = start[i - 1] + Len(pieces[i].spelled)
       /\ start[i] <= start[Len(pieces)]
       /\ \A k \in 1 .. Len(pieces[i].spelled) : text[start[i - 1] + k] = pieces[i].spelled[k]
  /\ \A i \in 1 .. Len(pieces) - 1 :
       pieces[i].spelled = <<Slash>> => pieces[i + 1].spelled[1] \notin {Slash, Star}
  /\ start[Len(pieces)] = Len(text)

LEMMA SourceIs ==
  ASSUME NEW pieces, pieces \in Seq(Piece), SpellsSource(text, pieces)
  PROVE  SourceOf(pieces, Places(pieces))
<1>1. PICK seqs, n, start : seqs = Spellings(pieces) /\ n = Len(pieces) /\ start = Places(pieces)
  OBVIOUS
<1>2. seqs \in Seq(Seq(Byte)) /\ Len(seqs) = n /\ n \in Nat /\ \A i \in 1 .. n : seqs[i] = pieces[i].spelled
  BY <1>1, PieceType
<1>3. \E at \in [0 .. n -> Nat] : Starts(seqs, at)
  BY ONLY <1>2, Flattening
<1>4. start \in [0 .. n -> Nat] /\ Starts(seqs, start)
  BY <1>1, <1>3 DEF Places
<1>5. text = FlattenSeq(seqs)
  BY <1>1 DEF SpellsSource, Spelled, Spellings
<1>6. start[0] = 0 /\ start[n] = Len(text)
  BY <1>2, <1>4, <1>5 DEF Starts
<1>7. ASSUME NEW i \in 1 .. n
      PROVE  /\ start[i] = start[i - 1] + Len(pieces[i].spelled)
             /\ start[i] <= start[n]
             /\ \A k \in 1 .. Len(pieces[i].spelled) : text[start[i - 1] + k] = pieces[i].spelled[k]
  <2>1. /\ start[i] = start[i - 1] + Len(seqs[i]) /\ start[i] <= Len(text)
        /\ \A k \in 1 .. Len(seqs[i]) : text[start[i - 1] + k] = seqs[i][k]
    BY <1>2, <1>4, <1>5 DEF Starts
  <2> QED BY <1>2, <1>6, <2>1
<1> QED BY <1>1, <1>4, <1>6, <1>7 DEF SourceOf, SpellsSource

\* The piece p stands in the source from a on, and z is the place behind it.
StandsIn(p, a, z) ==
  /\ WholePiece(p) \/ (z = Len(text) /\ CutOffPiece(p))
  /\ p.spelled \in Seq(Byte) /\ p.means \in Seq(Byte)
  /\ a \in Nat /\ z \in Nat /\ z = a + Len(p.spelled)
  /\ Len(text) \in Nat /\ z <= Len(text)
  /\ \A k \in 0 .. Len(p.spelled) - 1 : At(a + k) = ByteAt(p.spelled, k)

LEMMA SourcePieceAt ==
  ASSUME NEW pieces, NEW start, SourceOf(pieces, start), NEW i \in 0 .. Len(pieces), i < Len(pieces)
  PROVE  /\ i + 1 \in 1 .. Len(pieces) /\ i + 1 \in 0 .. Len(pieces)
         /\ StandsIn(pieces[i + 1], start[i], start[i + 1])
<1>1. Len(pieces) \in Nat /\ i + 1 \in 1 .. Len(pieces) /\ i + 1 \in 0 .. Len(pieces) /\ (i + 1) - 1 = i
  BY DEF SourceOf
<1>2. PICK p, e : p = pieces[i + 1] /\ e = p.spelled
  OBVIOUS
<1>3. e \in Seq(Byte) /\ p.means \in Seq(Byte)
  BY <1>1, <1>2, PieceType DEF SourceOf
<1>4. start[i] \in Nat /\ start[i + 1] \in Nat /\ start[Len(pieces)] \in Nat /\ start[Len(pieces)] = Len(text)
  <2>1. start \in [0 .. Len(pieces) -> Nat] /\ start[Len(pieces)] = Len(text)
    BY DEF SourceOf
  <2>2. Len(pieces) \in 0 .. Len(pieces)
    BY <1>1
  <2> QED BY <1>1, <2>1, <2>2
<1>5. /\ WholePiece(p) \/ (i + 1 = Len(pieces) /\ CutOffPiece(p))
      /\ start[i + 1] = start[i] + Len(e)
      /\ start[i + 1] <= start[Len(pieces)]
      /\ \A k \in 1 .. Len(e) : text[start[i] + k] = e[k]
  BY <1>1, <1>2 DEF SourceOf
<1>6. PICK n, a : n = Len(e) /\ a = start[i]
  OBVIOUS
<1>7. n \in Nat /\ a \in Nat
  BY <1>3, <1>4, <1>6
<1>8. ASSUME NEW k \in 0 .. n - 1 PROVE At(a + k) = ByteAt(e, k)
  <2>1. k + 1 \in 1 .. n /\ (a + k) + 1 = a + (k + 1)
    BY ONLY <1>7, <1>8
  <2>2. text[a + (k + 1)] = e[k + 1]
    BY <1>5, <1>6, <2>1
  <2> QED BY <2>1, <2>2 DEF At, ByteAt
<1>9. WholePiece(p) \/ (start[i + 1] = Len(text) /\ CutOffPiece(p))
  BY <1>4, <1>5
<1>10. StandsIn(p, start[i], start[i + 1])
  BY <1>2, <1>3, <1>4, <1>5, <1>6, <1>8, <1>9 DEF StandsIn
<1> QED BY <1>1, <1>2, <1>10

-----------------------------------------------------------------------------
(* Inside a piece. *)

\* k bytes of the string s are copied: the next is escaped, or not.
InQuotes(s, k) ==
  \/ pc = "in_string" /\ EvenBefore(s, k)
  \/ pc = "escaped" /\ k >= 2 /\ ByteAt(s, k - 1) = Backslash /\ EvenBefore(s, k - 1)

\* k bytes of a string or comment are read, and none has ended it.
Midway(p, k, before) ==
  /\ k <= Len(p.spelled)
  /\ \/ /\ QuotedText(p) /\ k >= 1 /\ InQuotes(p.spelled, k)
        /\ \A j \in QuotesIn(p.spelled) : k <= j
        /\ output = before \o SubSeq(p.spelled, 1, k)
     \/ /\ Comment(p, Slash) /\ k >= 2 /\ pc = "line_comment"
        /\ \A j \in NewlinesIn(p.spelled) : k <= j
        /\ output = before
     \/ /\ Comment(p, Star) /\ k >= 2 /\ pc = "block_comment"
        /\ \A j \in StarsIn(p.spelled) : k <= j
        /\ output = before

\* A piece is behind the scan; or the scan is inside it, or was when the text ended.
Behind(p, z, before) == pc = "minify" /\ index = z /\ output = before \o p.means
Within(p, a, before) == \E k \in Nat : index = a + k /\ Midway(p, k, before)
EndedIn(p, z, before) == pc = "minified" /\ z = Len(text) /\ output = before \o p.means

\* The byte after the ones copied.
LEMMA OneMoreByte ==
  ASSUME NEW s, s \in Seq(Byte), NEW before, before \in Seq(Byte), NEW k \in Nat, k < Len(s)
  PROVE  Append(before \o SubSeq(s, 1, k), ByteAt(s, k)) = before \o SubSeq(s, 1, k + 1)
<1>1. PICK u, c : u = SubSeq(s, 1, k) /\ c = ByteAt(s, k)
  OBVIOUS
<1>2. k + 1 \in 1 .. Len(s) /\ (k + 1) - 1 = k /\ 1 \in 1 .. Len(s) /\ k + 1 \in 1 .. Len(s)
  OBVIOUS
<1>3. c \in Byte /\ c = s[k + 1]
  BY <1>1, <1>2, ElementOfSeq DEF ByteAt
<1>4. u \in Seq(Byte) /\ <<c>> \in Seq(Byte)
  BY <1>1, <1>3
<1>5. SubSeq(s, 1, k + 1) = u \o <<c>>
  <2>1. SubSeq(s, 1, k + 1) = SubSeq(s, 1, (k + 1) - 1) \o <<s[k + 1]>>
    BY ONLY s \in Seq(Byte), <1>2, SubSeqRecursiveSecond
  <2> QED BY <1>1, <1>2, <1>3, <2>1
<1>6. before \o u \in Seq(Byte) /\ (before \o u) \o <<c>> = before \o (u \o <<c>>)
  BY ONLY before \in Seq(Byte), <1>4, ConcatAssociative, ConcatProperties
<1>7. Append(before \o u, c) = (before \o u) \o <<c>>
  BY <1>3, <1>6, AppendIsConcat
<1> QED BY <1>1, <1>5, <1>6, <1>7

\* A piece that may be cut off ends with what first may end it, or the text ends there.
LEMMA WhereItEnds ==
  ASSUME NEW p, NEW a, NEW z, StandsIn(p, a, z)
  PROVE  /\ QuotedText(p) =>
              QuotesIn(p.spelled) = {Len(p.spelled) - 1} \/ (z = Len(text) /\ QuotesIn(p.spelled) = {})
         /\ Comment(p, Slash) =>
              NewlinesIn(p.spelled) = {Len(p.spelled) - 1} \/ (z = Len(text) /\ NewlinesIn(p.spelled) = {})
         /\ Comment(p, Star) =>
              StarsIn(p.spelled) = {Len(p.spelled) - 2} \/ (z = Len(text) /\ StarsIn(p.spelled) = {})
<1>1. WholePiece(p) \/ (z = Len(text) /\ CutOffPiece(p))
  BY DEF StandsIn
<1>2. /\ QuotedText(p) => ~Comment(p, Slash) /\ ~Comment(p, Star) /\ ~KeptByte(p) /\ ~BlankByte(p)
      /\ Comment(p, Slash) => ~Comment(p, Star) /\ ~KeptByte(p) /\ ~BlankByte(p)
      /\ Comment(p, Star) => ~KeptByte(p) /\ ~BlankByte(p)
  BY DEF QuotedText, Comment, KeptByte, BlankByte, Quote, Slash, Star, Blanks, Space, Tab, Return, Newline
<1> QED BY <1>1, <1>2 DEF WholePiece, CutOffPiece

LEMMA StringTurn ==
  ASSUME NEW p, NEW a, NEW z, StandsIn(p, a, z), NEW before, before \in Seq(Byte),
         NEW k \in Nat, index = a + k, k <= Len(p.spelled), QuotedText(p), k >= 1,
         InQuotes(p.spelled, k), \A j \in QuotesIn(p.spelled) : k <= j,
         output = before \o SubSeq(p.spelled, 1, k), MinifyNext
  PROVE  Behind(p, z, before)' \/ Within(p, a, before)' \/ EndedIn(p, z, before)'
<1>1. PICK s, n : s = p.spelled /\ n = Len(s)
  OBVIOUS
<1>2. /\ s \in Seq(Byte) /\ n \in Nat /\ a \in Nat /\ z \in Nat /\ z = a + n
      /\ Len(text) \in Nat /\ z <= Len(text)
      /\ \A j \in 0 .. n - 1 : At(a + j) = ByteAt(s, j)
  BY <1>1 DEF StandsIn
<1>3. p.means = s /\ s[1] = Quote /\ n >= 1
  BY <1>1 DEF QuotedText
<1>4. QuotesIn(s) = {n - 1} \/ (z = Len(text) /\ QuotesIn(s) = {})
  <2>1. QuotesIn(p.spelled) = {Len(p.spelled) - 1} \/ (z = Len(text) /\ QuotesIn(p.spelled) = {})
    BY WhereItEnds
  <2> QED BY ONLY <1>1, <2>1
<1>10. \A j \in QuotesIn(s) : k <= j
  BY ONLY <1>1, \A j \in QuotesIn(p.spelled) : k <= j
<1>5. pc \in {"in_string", "escaped"}
  BY DEF InQuotes
<1>6. InString \/ FinishMinify
  BY <1>5 DEF MinifyNext, OpenKeptString, SkipBlank, KeepByte, OpenLineComment, InLineComment,
              OpenBlockComment, InBlockComment, OpensComment
<1>7. text' = text
  BY DEF MinifyNext
<1>8. CASE k = n
  <2>1. z = Len(text) /\ index = Len(text)
    <3>1. QuotesIn(s) # {n - 1}
      <4>1. QuotesIn(s) = {n - 1} => n - 1 \in QuotesIn(s)
        OBVIOUS
      <4>2. n - 1 \notin QuotesIn(s)
        BY <1>2, <1>8, <1>10
      <4> QED BY <4>1, <4>2
    <3> QED BY <1>2, <1>4, <1>8, <3>1
  <2>2. FinishMinify
    BY <1>2, <1>6, <2>1 DEF InString, InText
  <2>3. output' = before \o s
    <3>1. SubSeq(s, 1, n) = s
      BY <1>1, <1>2, SubSeqFull
    <3> QED BY <1>1, <1>8, <2>2, <3>1 DEF FinishMinify
  <2>4. pc' = "minified"
    BY <2>2 DEF FinishMinify
  <2>5. EndedIn(p, z, before)'
    BY <1>3, <1>7, <2>1, <2>3, <2>4 DEF EndedIn
  <2> QED BY <2>5
<1>9. CASE k < n
  <2>1. InString
    BY <1>2, <1>6, <1>9 DEF FinishMinify, InText
  <2>2. At(index) = ByteAt(s, k)
    BY <1>2, <1>9
  <2>3. index' = a + (k + 1) /\ output' = before \o SubSeq(s, 1, k + 1)
    <3>1. Append(before \o SubSeq(s, 1, k), ByteAt(s, k)) = before \o SubSeq(s, 1, k + 1)
      BY <1>1, <1>2, <1>9, OneMoreByte
    <3>2. output' = Append(output, At(index)) /\ index' = index + 1
      BY <2>1 DEF InString, Keep
    <3>3. output = before \o SubSeq(s, 1, k)
      BY <1>1
    <3>4. output' = before \o SubSeq(s, 1, k + 1)
      BY ONLY <2>2, <3>1, <3>2, <3>3
    <3>5. index' = a + (k + 1)
      BY <1>2, <3>2
    <3> QED BY <3>4, <3>5
  <2>4. ASSUME InQuotes(s, k + 1)', \A j \in QuotesIn(s) : k + 1 <= j
        PROVE  Within(p, a, before)'
    <3>1. k + 1 \in Nat /\ k + 1 <= n /\ k + 1 >= 1
      BY <1>2, <1>9
    <3>2. Midway(p, k + 1, before)'
      BY <1>1, <2>3, <2>4, <3>1 DEF Midway
    <3> QED BY <2>3, <3>1, <3>2 DEF Within
  <2>5. CASE pc = "escaped"
    <3>1. k >= 2 /\ ByteAt(s, k - 1) = Backslash /\ EvenBefore(s, k - 1) /\ k - 1 \in Nat
      BY <1>1, <1>5, <2>5 DEF InQuotes
    <3>2. ~EvenBefore(s, k) /\ EvenBefore(s, k + 1)
      <4>1. (k - 1) + 1 = k /\ (k - 1) + 2 = k + 1
        OBVIOUS
      <4>2. ~EvenBefore(s, (k - 1) + 1) /\ EvenBefore(s, (k - 1) + 2)
        BY <3>1, EscapedByteBefore
      <4> QED BY <4>1, <4>2
    <3>3. pc' = "in_string"
      BY <2>1, <2>5 DEF InString
    <3>4. InQuotes(s, k + 1)'
      BY <3>2, <3>3 DEF InQuotes
    <3>5. ASSUME NEW j \in QuotesIn(s) PROVE k + 1 <= j
      <4>1. k <= j /\ BareQuote(s, j) /\ j \in Int
        BY <1>1, <3>5 DEF QuotesIn
      <4>2. j # k
        BY <3>2, <4>1, BareQuoteIs
      <4> QED BY <4>1, <4>2
    <3> QED BY <2>4, <3>4, <3>5
  <2>6. CASE pc = "in_string"
    <3>1. EvenBefore(s, k)
      BY <1>1, <2>6 DEF InQuotes
    <3>2. CASE ByteAt(s, k) = Quote
      <4>1. BareQuote(s, k)
        BY <3>1, <3>2, BareQuoteIs
      <4>2. k \in QuotesIn(s)
        BY <1>1, <1>2, <1>9, <4>1 DEF QuotesIn
      <4>3. k = n - 1
        BY <1>4, <4>2
      <4>4. k + 1 = n
        BY <1>2, <4>3
      <4>5. SubSeq(s, 1, n) = s
        BY <1>1, <1>2, SubSeqFull
      <4>6. pc' = "minify"
        BY <2>1, <2>2, <2>6, <3>2 DEF InString, Quote, Backslash
      <4>7. Behind(p, z, before)'
        BY <1>2, <1>3, <2>3, <4>4, <4>5, <4>6 DEF Behind
      <4> QED BY <4>7
    <3>3. CASE ByteAt(s, k) # Quote
      <4>1. ASSUME NEW j \in QuotesIn(s) PROVE k + 1 <= j
        <5>1. k <= j /\ BareQuote(s, j) /\ j \in Int
          BY <1>1, <4>1 DEF QuotesIn
        <5>2. j # k
          BY <3>3, <5>1, BareQuoteIs
        <5> QED BY <5>1, <5>2
      <4>2. CASE ByteAt(s, k) = Backslash
        <5>1. pc' = "escaped"
          BY <2>1, <2>2, <2>6, <4>2 DEF InString, Quote, Backslash
        <5>2. k + 1 >= 2 /\ (k + 1) - 1 = k
          OBVIOUS
        <5>3. InQuotes(s, k + 1)'
          BY <3>1, <4>2, <5>1, <5>2 DEF InQuotes
        <5> QED BY <2>4, <4>1, <5>3
      <4>3. CASE ByteAt(s, k) # Backslash
        <5>1. pc' = "in_string"
          BY <2>1, <2>2, <2>6, <3>3, <4>3 DEF InString
        <5>2. EvenBefore(s, k + 1)
          BY <4>3, PlainByteBefore
        <5>3. InQuotes(s, k + 1)'
          BY <5>1, <5>2 DEF InQuotes
        <5> QED BY <2>4, <4>1, <5>3
      <4> QED BY <4>2, <4>3
    <3> QED BY <3>2, <3>3
  <2> QED BY <1>5, <2>5, <2>6
<1> QED BY <1>1, <1>2, <1>8, <1>9

LEMMA LineTurn ==
  ASSUME NEW p, NEW a, NEW z, StandsIn(p, a, z), NEW before, before \in Seq(Byte),
         NEW k \in Nat, index = a + k, k <= Len(p.spelled), Comment(p, Slash), k >= 2,
         pc = "line_comment", \A j \in NewlinesIn(p.spelled) : k <= j,
         output = before, MinifyNext
  PROVE  Behind(p, z, before)' \/ Within(p, a, before)'
<1>1. PICK s, n : s = p.spelled /\ n = Len(s)
  OBVIOUS
<1>2. /\ s \in Seq(Byte) /\ n \in Nat /\ a \in Nat /\ z \in Nat /\ z = a + n
      /\ Len(text) \in Nat /\ z <= Len(text)
      /\ \A j \in 0 .. n - 1 : At(a + j) = ByteAt(s, j)
  BY <1>1 DEF StandsIn
<1>3. before \o p.means = before
  BY ConcatEmptySeq DEF Comment
<1>4. NewlinesIn(s) = {n - 1} \/ (z = Len(text) /\ NewlinesIn(s) = {})
  <2>1. NewlinesIn(p.spelled) = {Len(p.spelled) - 1} \/ (z = Len(text) /\ NewlinesIn(p.spelled) = {})
    BY WhereItEnds
  <2> QED BY ONLY <1>1, <2>1
<1>10. \A j \in NewlinesIn(s) : k <= j
  BY ONLY <1>1, \A j \in NewlinesIn(p.spelled) : k <= j
<1>5. InLineComment
  BY DEF MinifyNext, OpenKeptString, SkipBlank, KeepByte, OpenLineComment, InString, FinishMinify,
         OpenBlockComment, InBlockComment, OpensComment
<1>6. CASE k = n
  <2>1. z = Len(text) /\ index = z /\ ~InText(index)
    <3>1. NewlinesIn(s) # {n - 1}
      <4>1. NewlinesIn(s) = {n - 1} => n - 1 \in NewlinesIn(s)
        OBVIOUS
      <4>2. n - 1 \notin NewlinesIn(s)
        BY <1>2, <1>6, <1>10
      <4> QED BY <4>1, <4>2
    <3> QED BY <1>2, <1>4, <1>6, <3>1 DEF InText
  <2>2. index' = z /\ output' = before /\ pc' = "minify"
    BY <1>2, <1>5, <2>1 DEF InLineComment, Drop
  <2> QED BY <1>3, <2>2 DEF Behind
<1>7. CASE k < n
  <2>1. InText(index) /\ At(index) = ByteAt(s, k)
    BY <1>2, <1>7 DEF InText
  <2>2. index' = a + (k + 1) /\ output' = before
    BY <1>2, <1>5, <2>1 DEF InLineComment, Drop
  <2>3. CASE ByteAt(s, k) = Newline
    <3>1. k \in NewlinesIn(s)
      BY <1>2, <1>1, <1>7, <2>3 DEF NewlinesIn
    <3>2. k + 1 = n
      BY <1>2, <1>4, <3>1
    <3>3. pc' = "minify"
      BY <1>5, <2>1, <2>3 DEF InLineComment
    <3> QED BY <1>2, <1>3, <2>2, <3>2, <3>3 DEF Behind
  <2>4. CASE ByteAt(s, k) # Newline
    <3>1. pc' = "line_comment"
      BY <1>5, <2>1, <2>4 DEF InLineComment
    <3>2. ASSUME NEW j \in NewlinesIn(s) PROVE k + 1 <= j
      <4>1. k <= j /\ ByteAt(s, j) = Newline /\ j \in Int
        BY <1>1, <3>2 DEF NewlinesIn
      <4> QED BY <2>4, <4>1
    <3>3. k + 1 \in Nat /\ k + 1 <= n /\ k + 1 >= 2
      BY <1>2, <1>7
    <3>4. Midway(p, k + 1, before)'
      BY <1>1, <2>2, <3>1, <3>2, <3>3 DEF Midway
    <3> QED BY <2>2, <3>3, <3>4 DEF Within
  <2> QED BY <2>3, <2>4
<1> QED BY <1>1, <1>2, <1>6, <1>7

LEMMA BlockTurn ==
  ASSUME NEW p, NEW a, NEW z, StandsIn(p, a, z), NEW before, before \in Seq(Byte),
         NEW k \in Nat, index = a + k, k <= Len(p.spelled), Comment(p, Star), k >= 2,
         pc = "block_comment", \A j \in StarsIn(p.spelled) : k <= j,
         output = before, MinifyNext
  PROVE  Behind(p, z, before)' \/ Within(p, a, before)'
<1>1. PICK s, n : s = p.spelled /\ n = Len(s)
  OBVIOUS
<1>2. /\ s \in Seq(Byte) /\ n \in Nat /\ a \in Nat /\ z \in Nat /\ z = a + n
      /\ Len(text) \in Nat /\ z <= Len(text)
      /\ \A j \in 0 .. n - 1 : At(a + j) = ByteAt(s, j)
  BY <1>1 DEF StandsIn
<1>3. before \o p.means = before
  BY ConcatEmptySeq DEF Comment
<1>4. StarsIn(s) = {n - 2} \/ (z = Len(text) /\ StarsIn(s) = {})
  <2>1. StarsIn(p.spelled) = {Len(p.spelled) - 2} \/ (z = Len(text) /\ StarsIn(p.spelled) = {})
    BY WhereItEnds
  <2> QED BY ONLY <1>1, <2>1
<1>10. \A j \in StarsIn(s) : k <= j
  BY ONLY <1>1, \A j \in StarsIn(p.spelled) : k <= j
<1>5. InBlockComment
  BY DEF MinifyNext, OpenKeptString, SkipBlank, KeepByte, OpenLineComment, InString, FinishMinify,
         OpenBlockComment, InLineComment, OpensComment
<1>6. CASE ~InText(index + 1)
  <2>1. index' = index + (Len(text) - index) /\ output' = before /\ pc' = "minify"
    BY <1>5, <1>6 DEF InBlockComment, Drop
  <2>2. z = Len(text)
    <3>1. CASE StarsIn(s) = {n - 2}
      <4>1. k <= n - 2
        BY <1>1, <3>1
      <4>2. index + 1 < z
        BY <1>2, <4>1
      <4> QED BY <1>2, <1>6, <4>2 DEF InText
    <3> QED BY <1>4, <3>1
  <2>3. index' = z
    BY <1>2, <2>1, <2>2
  <2> QED BY <1>3, <2>1, <2>3 DEF Behind
<1>7. CASE InText(index + 1)
  <2>1. k + 1 <= n - 1
    <3>1. CASE StarsIn(s) = {n - 2}
      <4>1. k <= n - 2
        BY <1>1, <3>1
      <4> QED BY <1>2, <4>1
    <3>2. CASE z = Len(text)
      BY <1>2, <1>7, <3>2 DEF InText
    <3> QED BY <1>4, <3>1, <3>2
  <2>2. At(index) = ByteAt(s, k) /\ At(index + 1) = ByteAt(s, k + 1)
    <3>1. k \in 0 .. n - 1 /\ k + 1 \in 0 .. n - 1 /\ index + 1 = a + (k + 1)
      BY <1>2, <2>1
    <3> QED BY <1>2, <3>1
  <2>3. CASE ByteAt(s, k) = Star /\ ByteAt(s, k + 1) = Slash
    <3>1. k \in StarsIn(s)
      BY <1>1, <1>2, <2>1, <2>3 DEF StarsIn
    <3>2. k + 2 = n
      BY <1>2, <1>4, <3>1
    <3>3. index' = index + 2 /\ output' = before /\ pc' = "minify"
      BY <1>5, <1>7, <2>2, <2>3 DEF InBlockComment, Drop
    <3>4. index' = z
      BY <1>2, <3>2, <3>3
    <3> QED BY <1>3, <3>3, <3>4 DEF Behind
  <2>4. CASE ~(ByteAt(s, k) = Star /\ ByteAt(s, k + 1) = Slash)
    <3>1. index' = a + (k + 1) /\ output' = before /\ pc' = "block_comment"
      BY <1>2, <1>5, <1>7, <2>2, <2>4 DEF InBlockComment, Drop
    <3>2. ASSUME NEW j \in StarsIn(s) PROVE k + 1 <= j
      <4>1. k <= j /\ ByteAt(s, j) = Star /\ ByteAt(s, j + 1) = Slash /\ j \in Int
        BY <1>1, <3>2 DEF StarsIn
      <4> QED BY <2>4, <4>1
    <3>3. k + 1 \in Nat /\ k + 1 <= n /\ k + 1 >= 2
      BY <1>2, <2>1
    <3>4. Midway(p, k + 1, before)'
      BY <1>1, <3>1, <3>2, <3>3 DEF Midway
    <3> QED BY <3>1, <3>3, <3>4 DEF Within
  <2> QED BY <2>3, <2>4
<1> QED BY <1>6, <1>7

\* One turn inside a piece.
LEMMA TurnInside ==
  ASSUME NEW p, NEW a, NEW z, StandsIn(p, a, z), NEW before, before \in Seq(Byte),
         Within(p, a, before), MinifyNext
  PROVE  Behind(p, z, before)' \/ Within(p, a, before)' \/ EndedIn(p, z, before)'
<1>1. PICK k \in Nat : index = a + k /\ Midway(p, k, before)
  BY DEF Within
<1>2. k <= Len(p.spelled)
  BY <1>1 DEF Midway
<1>3. ASSUME QuotedText(p), k >= 1, InQuotes(p.spelled, k), \A j \in QuotesIn(p.spelled) : k <= j,
             output = before \o SubSeq(p.spelled, 1, k)
      PROVE  Behind(p, z, before)' \/ Within(p, a, before)' \/ EndedIn(p, z, before)'
  BY <1>1, <1>2, <1>3, StringTurn
<1>4. ASSUME Comment(p, Slash), k >= 2, pc = "line_comment",
             \A j \in NewlinesIn(p.spelled) : k <= j, output = before
      PROVE  Behind(p, z, before)' \/ Within(p, a, before)'
  BY <1>1, <1>2, <1>4, LineTurn
<1>5. ASSUME Comment(p, Star), k >= 2, pc = "block_comment",
             \A j \in StarsIn(p.spelled) : k <= j, output = before
      PROVE  Behind(p, z, before)' \/ Within(p, a, before)'
  BY <1>1, <1>2, <1>5, BlockTurn
<1> QED BY <1>1, <1>3, <1>4, <1>5 DEF Midway

\* One turn at a piece.
LEMMA TurnAtAPiece ==
  ASSUME NEW p, NEW a, NEW z, StandsIn(p, a, z), NEW before, before \in Seq(Byte),
         pc = "minify", index = a, output = before, MinifyNext,
         p.spelled = <<Slash>> /\ InText(a + 1) => At(a + 1) \notin {Slash, Star}
  PROVE  Behind(p, z, before)' \/ Within(p, a, before)'
<1>1. PICK s, n : s = p.spelled /\ n = Len(s)
  OBVIOUS
<1>2. /\ s \in Seq(Byte) /\ n \in Nat /\ a \in Nat /\ z \in Nat /\ z = a + n
      /\ Len(text) \in Nat /\ z <= Len(text)
      /\ \A j \in 0 .. n - 1 : At(a + j) = ByteAt(s, j)
  BY <1>1 DEF StandsIn
<1>3. ASSUME n >= 1 PROVE At(a) = s[1] /\ InText(a)
  <2>1. a + 0 = a /\ 0 + 1 = 1 /\ 0 \in 0 .. n - 1
    BY <1>2, <1>3
  <2>2. At(a + 0) = s[0 + 1]
    BY <1>2, <2>1 DEF ByteAt
  <2> QED BY <1>2, <1>3, <2>1, <2>2 DEF InText
<1>4. ASSUME n >= 2 PROVE At(a + 1) = s[2] /\ InText(a + 1)
  <2>1. 1 + 1 = 2 /\ 1 \in 0 .. n - 1
    BY <1>2, <1>4
  <2>2. At(a + 1) = s[1 + 1]
    BY <1>2, <2>1 DEF ByteAt
  <2> QED BY <1>2, <1>4, <2>1, <2>2 DEF InText
<1>5. /\ Quote \notin Blanks \cup {Slash, Star} /\ Slash \notin Blanks \cup {Star}
  BY DEF Quote, Slash, Star, Blanks, Space, Tab, Return, Newline
<1>6. CASE KeptByte(p)
  <2>1. n = 1 /\ s[1] \notin Blanks \cup {Quote} /\ p.means = s
    BY <1>1, <1>6 DEF KeptByte
  <2>2. At(index) = s[1] /\ InText(index)
    BY <1>3, <2>1
  <2>3. s = <<s[1]>> /\ s[1] \in Byte
    <3>1. s \in Seq(Byte) /\ Len(s) = 1 /\ 1 \in 1 .. Len(s)
      BY <1>1, <1>2, <2>1
    <3>2. s[1] \in Byte
      BY ONLY <3>1, ElementOfSeq
    <3> QED BY ONLY <3>1, <3>2
  <2>4. ~OpensComment(Slash) /\ ~OpensComment(Star)
    BY <1>1, <2>2, <2>3 DEF OpensComment
  <2>5. KeepByte
    BY <2>1, <2>2, <2>4 DEF MinifyNext, OpenKeptString, InString, SkipBlank, OpenLineComment,
                            InLineComment, OpenBlockComment, InBlockComment, FinishMinify
  <2>6. output' = Append(before, s[1]) /\ index' = a + 1 /\ pc' = "minify"
    BY <2>2, <2>5 DEF KeepByte, Keep
  <2>7. Append(before, s[1]) = before \o <<s[1]>>
    BY <2>3, AppendIsConcat
  <2>8. output' = before \o p.means /\ index' = z
    BY <1>2, <2>1, <2>3, <2>6, <2>7
  <2> QED BY <2>6, <2>8 DEF Behind
<1>7. CASE BlankByte(p)
  <2>1. n = 1 /\ s[1] \in Blanks /\ p.means = <<>>
    BY <1>1, <1>7 DEF BlankByte
  <2>2. At(index) = s[1] /\ InText(index)
    BY <1>3, <2>1
  <2>3. SkipBlank
    BY <1>5, <2>1, <2>2 DEF MinifyNext, OpenKeptString, InString, KeepByte, OpenLineComment, OpensComment,
                            InLineComment, OpenBlockComment, InBlockComment, FinishMinify
  <2>4. output' = before /\ index' = a + 1 /\ pc' = "minify"
    BY <2>3 DEF SkipBlank, Drop
  <2>5. before \o <<>> = before
    BY ConcatEmptySeq
  <2> QED BY <1>2, <2>1, <2>4, <2>5 DEF Behind
<1>8. CASE QuotedText(p)
  <2>1. n >= 1 /\ s[1] = Quote
    BY <1>1, <1>8 DEF QuotedText
  <2>2. At(index) = Quote /\ InText(index)
    BY <1>3, <2>1
  <2>3. OpenKeptString
    BY <1>5, <2>2 DEF MinifyNext, SkipBlank, InString, KeepByte, OpenLineComment, OpensComment,
                      InLineComment, OpenBlockComment, InBlockComment, FinishMinify
  <2>4. output' = Append(before, Quote) /\ index' = a + 1 /\ pc' = "in_string"
    BY <2>2, <2>3 DEF OpenKeptString, Keep
  <2>5. output' = before \o SubSeq(s, 1, 1)
    <3>1. 0 \in Nat /\ 0 < Len(s) /\ 0 + 1 = 1 /\ SubSeq(s, 1, 0) = <<>>
      BY <1>1, <1>2, <2>1, SubSeqEmpty
    <3>2. Append(before \o SubSeq(s, 1, 0), ByteAt(s, 0)) = before \o SubSeq(s, 1, 0 + 1)
      BY <1>2, <3>1, OneMoreByte
    <3>3. ByteAt(s, 0) = Quote /\ before \o <<>> = before
      BY <2>1, <3>1, ConcatEmptySeq DEF ByteAt
    <3> QED BY <2>4, <3>1, <3>2, <3>3
  <2>6. EvenBefore(s, 1)
    <3>1. 0 \in Nat /\ 0 + 1 = 1
      OBVIOUS
    <3>2. ByteAt(s, 0) # Backslash
      BY <2>1, <3>1 DEF ByteAt, Quote, Backslash
    <3>3. EvenBefore(s, 0 + 1)
      BY <3>1, <3>2, PlainByteBefore
    <3> QED BY <3>1, <3>3
  <2>7. InQuotes(s, 1)'
    BY <2>4, <2>6 DEF InQuotes
  <2>8. \A j \in QuotesIn(s) : 1 <= j
    BY DEF QuotesIn
  <2>9. Midway(p, 1, before)'
    BY <1>1, <1>2, <1>8, <2>1, <2>5, <2>7, <2>8 DEF Midway
  <2> QED BY <2>4, <2>9 DEF Within
<1>9. CASE Comment(p, Slash)
  <2>1. n >= 2 /\ s[1] = Slash /\ s[2] = Slash
    BY <1>1, <1>9 DEF Comment
  <2>2. At(index) = Slash /\ At(index + 1) = Slash /\ InText(index) /\ InText(index + 1)
    BY <1>2, <1>3, <1>4, <2>1
  <2>3. OpensComment(Slash)
    BY <2>2 DEF OpensComment
  <2>4. OpenLineComment
    BY <1>5, <2>2, <2>3 DEF MinifyNext, OpenKeptString, SkipBlank, InString, KeepByte, OpensComment,
                      InLineComment, OpenBlockComment, InBlockComment, FinishMinify
  <2>5. output' = before /\ index' = a + 2 /\ pc' = "line_comment"
    BY <2>4 DEF OpenLineComment, Drop
  <2>6. \A j \in NewlinesIn(s) : 2 <= j
    BY DEF NewlinesIn
  <2>7. Midway(p, 2, before)'
    BY <1>1, <1>2, <1>9, <2>1, <2>5, <2>6 DEF Midway
  <2> QED BY <2>5, <2>7 DEF Within
<1>10. CASE Comment(p, Star)
  <2>1. n >= 2 /\ s[1] = Slash /\ s[2] = Star
    BY <1>1, <1>10 DEF Comment
  <2>2. At(index) = Slash /\ At(index + 1) = Star /\ InText(index) /\ InText(index + 1)
    BY <1>2, <1>3, <1>4, <2>1
  <2>3. OpensComment(Star)
    BY <2>2 DEF OpensComment
  <2>4. OpenBlockComment
    BY <1>5, <2>2, <2>3 DEF MinifyNext, OpenKeptString, SkipBlank, InString, KeepByte, OpensComment,
                      InLineComment, OpenLineComment, InBlockComment, FinishMinify
  <2>5. output' = before /\ index' = a + 2 /\ pc' = "block_comment"
    BY <2>4 DEF OpenBlockComment, Drop
  <2>6. \A j \in StarsIn(s) : 2 <= j
    BY DEF StarsIn
  <2>7. Midway(p, 2, before)'
    BY <1>1, <1>2, <1>10, <2>1, <2>5, <2>6 DEF Midway
  <2> QED BY <2>5, <2>7 DEF Within
<1>11. KeptByte(p) \/ BlankByte(p) \/ QuotedText(p) \/ Comment(p, Slash) \/ Comment(p, Star)
  BY DEF StandsIn, WholePiece, CutOffPiece
<1> QED BY <1>6, <1>7, <1>8, <1>9, <1>10, <1>11

-----------------------------------------------------------------------------
(* From piece to piece. *)

AtPiece(pieces, start) ==
  \E i \in 0 .. Len(pieces) : index = start[i] /\ output = SoFar(pieces)[i]
InPiece(pieces, start) ==
  \E i \in 0 .. Len(pieces) : i < Len(pieces) /\ Within(pieces[i + 1], start[i], SoFar(pieces)[i])

ReadsSource(pieces, start) ==
  \/ pc = "minify" /\ AtPiece(pieces, start)
  \/ InPiece(pieces, start)
  \/ pc = "minified" /\ output = Means(pieces)

\* What is behind a piece, or inside it, is so in the source.
LEMMA NextOfSource ==
  ASSUME NEW pieces, NEW start, SourceOf(pieces, start), NEW i \in 0 .. Len(pieces), i < Len(pieces),
         NEW before, before = SoFar(pieces)[i],
         \/ Behind(pieces[i + 1], start[i + 1], before)'
         \/ Within(pieces[i + 1], start[i], before)'
         \/ EndedIn(pieces[i + 1], start[i + 1], before)',
         EndedIn(pieces[i + 1], start[i + 1], before)' => i + 1 = Len(pieces)
  PROVE  ReadsSource(pieces, start)'
<1>1. /\ i + 1 \in 1 .. Len(pieces) /\ i + 1 \in 0 .. Len(pieces) /\ (i + 1) - 1 = i
      /\ pieces \in Seq(Piece)
  BY SourcePieceAt DEF SourceOf
<1>2. SoFar(pieces)[i + 1] = before \o pieces[i + 1].means
  BY <1>1, SoFarIs
<1>3. CASE Behind(pieces[i + 1], start[i + 1], before)'
  BY <1>1, <1>2, <1>3 DEF Behind, ReadsSource, AtPiece
<1>4. CASE Within(pieces[i + 1], start[i], before)'
  <2>1. PICK p, a : p = pieces[i + 1] /\ a = start[i]
    OBVIOUS
  <2>2. Within(p, a, before)'
    BY <1>4, <2>1
  <2>3. InPiece(pieces, start)'
    BY <2>1, <2>2 DEF InPiece
  <2> QED BY <2>3 DEF ReadsSource
<1>5. CASE EndedIn(pieces[i + 1], start[i + 1], before)'
  <2>1. i + 1 = Len(pieces)
    BY <1>5
  <2>2. pc' = "minified" /\ output' = before \o pieces[i + 1].means
    BY <1>5 DEF EndedIn
  <2>3. output' = Means(pieces)
    BY <1>1, <1>2, <2>1, <2>2, SoFarIs
  <2> QED BY <2>2, <2>3 DEF ReadsSource
<1> QED BY <1>3, <1>4, <1>5

\* A piece has at least one byte.
LEMMA SomeByte ==
  ASSUME NEW p, NEW a, NEW z, StandsIn(p, a, z)
  PROVE  /\ a < z /\ a \in Nat /\ z \in Nat /\ z <= Len(text) /\ Len(text) \in Nat
         /\ At(a) = p.spelled[1] /\ p.spelled \in Seq(Byte)
<1>1. PICK s, n : s = p.spelled /\ n = Len(s)
  OBVIOUS
<1>2. /\ s \in Seq(Byte) /\ n \in Nat /\ a \in Nat /\ z \in Nat /\ z = a + n
      /\ Len(text) \in Nat /\ z <= Len(text)
      /\ \A j \in 0 .. n - 1 : At(a + j) = ByteAt(s, j)
  BY <1>1 DEF StandsIn
<1>3. KeptByte(p) \/ BlankByte(p) \/ QuotedText(p) \/ Comment(p, Slash) \/ Comment(p, Star)
  BY DEF StandsIn, WholePiece, CutOffPiece
<1>4. n >= 1
  BY <1>1, <1>3 DEF KeptByte, BlankByte, QuotedText, Comment
<1>5. a + 0 = a /\ 0 + 1 = 1 /\ 0 \in 0 .. n - 1
  BY <1>2, <1>4
<1>6. At(a + 0) = s[0 + 1]
  BY <1>2, <1>5 DEF ByteAt
<1> QED BY <1>1, <1>2, <1>4, <1>5, <1>6

\* Only the last piece ends where the text does.
LEMMA LastPiece ==
  ASSUME NEW pieces, NEW start, SourceOf(pieces, start), NEW i \in 0 .. Len(pieces),
         start[i] = Len(text)
  PROVE  i = Len(pieces)
<1>1. CASE i < Len(pieces)
  <2>1. StandsIn(pieces[i + 1], start[i], start[i + 1])
    BY <1>1, SourcePieceAt
  <2>2. start[i] < start[i + 1] /\ start[i + 1] <= Len(text) /\ start[i] \in Nat
        /\ start[i + 1] \in Nat /\ Len(text) \in Nat
    BY <2>1, SomeByte
  <2> QED BY <2>2
<1>2. Len(pieces) \in Nat
  BY DEF SourceOf
<1> QED BY <1>1, <1>2

LEMMA SourceStep ==
  ASSUME NEW pieces, NEW start, SourceOf(pieces, start), ReadsSource(pieces, start), MinifyNext
  PROVE  text' = text /\ ReadsSource(pieces, start)'
<1>1. text' = text
  BY DEF MinifyNext
<1>2. pieces \in Seq(Piece) /\ Len(pieces) \in Nat /\ start[Len(pieces)] = Len(text) /\ text' = text
  BY <1>1 DEF SourceOf
<1>3. pc # "minified"
  BY DEF MinifyNext, OpenKeptString, InString, SkipBlank, KeepByte, OpenLineComment, InLineComment,
         OpenBlockComment, InBlockComment, FinishMinify, OpensComment
<1>4. ASSUME NEW i \in 0 .. Len(pieces) PROVE SoFar(pieces)[i] \in Seq(Byte)
  BY <1>2, SoFarIs
<1>5. ASSUME NEW i \in 0 .. Len(pieces), i < Len(pieces), EndedIn(pieces[i + 1], start[i + 1], SoFar(pieces)[i])'
      PROVE  i + 1 = Len(pieces)
  <2>1. start[i + 1] = Len(text) /\ i + 1 \in 0 .. Len(pieces)
    BY <1>1, <1>5, SourcePieceAt DEF EndedIn
  <2> QED BY <2>1, LastPiece
<1>6. CASE pc = "minify" /\ AtPiece(pieces, start)
  <2>1. PICK i \in 0 .. Len(pieces) : index = start[i] /\ output = SoFar(pieces)[i]
    BY <1>6 DEF AtPiece
  <2>2. CASE i = Len(pieces)
    <3>1. ~InText(index) /\ ~InText(index + 1)
      <4>1. index = Len(text) /\ Len(text) \in Nat
        BY <1>2, <2>1, <2>2 DEF SourceOf
      <4> QED BY <4>1 DEF InText
    <3>2. FinishMinify
      BY <1>6, <3>1 DEF MinifyNext, OpenKeptString, InString, SkipBlank, KeepByte, OpenLineComment,
                        InLineComment, OpenBlockComment, InBlockComment, OpensComment
    <3>3. pc' = "minified" /\ output' = Means(pieces)
      BY <1>2, <2>1, <2>2, <3>2, SoFarIs DEF FinishMinify
    <3> QED BY <1>1, <3>3 DEF ReadsSource
  <2>3. CASE i < Len(pieces)
    <3>1. PICK p, a, z, before :
            p = pieces[i + 1] /\ a = start[i] /\ z = start[i + 1] /\ before = SoFar(pieces)[i]
      OBVIOUS
    <3>2. StandsIn(p, a, z) /\ before \in Seq(Byte) /\ i + 1 \in 0 .. Len(pieces)
          /\ i + 1 \in 1 .. Len(pieces)
      BY <1>4, <2>3, <3>1, SourcePieceAt
    <3>3. ASSUME p.spelled = <<Slash>>, InText(a + 1) PROVE At(a + 1) \notin {Slash, Star}
      <4>1. z = a + 1 /\ a \in Nat /\ z # Len(text)
        <5>1. Len(p.spelled) = 1
          BY <3>3
        <5> QED BY <3>2, <3>3, <5>1 DEF StandsIn, InText
      <4>2. i + 1 < Len(pieces)
        <5>1. start[i + 1] # start[Len(pieces)]
          BY <1>2, <3>1, <4>1
        <5>2. i + 1 # Len(pieces)
          BY ONLY <5>1
        <5> QED BY <1>2, <3>2, <5>2
      <4>3. StandsIn(pieces[(i + 1) + 1], z, start[(i + 1) + 1])
        BY <3>1, <3>2, <4>2, SourcePieceAt
      <4>4. At(z) = pieces[(i + 1) + 1].spelled[1]
        BY <4>3, SomeByte
      <4>5. pieces[(i + 1) + 1].spelled[1] \notin {Slash, Star}
        <5>1. i + 1 \in 1 .. Len(pieces) - 1
          BY <1>2, <3>2, <4>2
        <5> QED BY <3>1, <3>3, <5>1 DEF SourceOf
      <4> QED BY <4>1, <4>4, <4>5
    <3>4. Behind(p, z, before)' \/ Within(p, a, before)'
      BY <1>6, <2>1, <3>1, <3>2, <3>3, TurnAtAPiece
    <3> QED BY <1>1, <1>5, <2>3, <3>1, <3>4, NextOfSource
  <2> QED BY <1>2, <2>2, <2>3
<1>7. CASE InPiece(pieces, start)
  <2>1. PICK i \in 0 .. Len(pieces) : i < Len(pieces) /\ Within(pieces[i + 1], start[i], SoFar(pieces)[i])
    BY <1>7 DEF InPiece
  <2>2. PICK p, a, z, before :
          p = pieces[i + 1] /\ a = start[i] /\ z = start[i + 1] /\ before = SoFar(pieces)[i]
    OBVIOUS
  <2>3. StandsIn(p, a, z) /\ before \in Seq(Byte)
    BY <1>4, <2>1, <2>2, SourcePieceAt
  <2>4. Within(p, a, before)
    BY <2>1, <2>2
  <2>5. Behind(p, z, before)' \/ Within(p, a, before)' \/ EndedIn(p, z, before)'
    BY <2>3, <2>4, TurnInside
  <2> QED BY <1>1, <1>5, <2>1, <2>2, <2>5, NextOfSource
<1> QED BY <1>1, <1>3, <1>6, <1>7 DEF ReadsSource

-----------------------------------------------------------------------------
(* The invariant of all the scanners. *)

\* The text is read as the pieces it is known to be made of.
MadeInv ==
  /\ made \in Seq(Piece)
  /\ pc \in StringPhases /\ made # <<>> => SpellsString(text, made) /\ Reads(made, Places(made))
  /\ pc \in MinifyPhases /\ made # <<>> => SpellsSource(text, made) /\ ReadsSource(made, Places(made))

\* So is the print of a string, as the pieces it is printed in.
ReadsPrint(s) ==
  /\ printed = <<s>> /\ pc \in StringPhases
  /\ SpellsString(text, PrintPieces(s)) /\ Reads(PrintPieces(s), Places(PrintPieces(s)))
PrintInv == printed # <<>> => \E s \in Seq(Byte) : ReadsPrint(s)

LiteralsInv ==
  /\ LiteralsTypeOK
  /\ pc \in StringPhases => StringInv /\ QuoteInv
  /\ pc = "number" => offset = 0
  /\ NumberIsLongestPrefix
  /\ pc \in MinifyPhases => MinifyInv
  /\ MadeInv /\ PrintInv

LEMMA PrintsAreStrings ==
  ASSUME PrintInv, printed # <<>>
  PROVE  pc \in StringPhases
BY DEF PrintInv, ReadsPrint

LEMMA LiteralsInvHoldsAtFirst ==
  ASSUME LiteralsInit
  PROVE  LiteralsInv
<1>1. quoteAt = 0 /\ skipped = {} /\ offset = 0 /\ printed = <<>> /\ index = 0 /\ output = <<>>
  BY DEF LiteralsInit, StringInit, MinifyInit
<1>2. text \in Seq(Byte)
  BY CallsAssumption DEF LiteralsInit, Calls
<1>3. (pc = "string" /\ StringInit) \/ pc = "number" \/ pc = "minify"
  BY DEF LiteralsInit, StringInit, MinifyInit
<1>4. LiteralsTypeOK
  <2>1. 0 \in 0 .. Len(text) /\ <<>> \in Seq(Byte)
    BY <1>2
  <2> QED BY <1>1, <1>2, <1>3, <2>1 DEF LiteralsTypeOK
<1>5. pc = "string" => StringInv
  BY <1>2, <1>3, InvHoldsAtFirst
<1>6. pc = "string" => QuoteInv
  BY DEF QuoteInv
<1>7. pc = "minify" => MinifyInv
  BY <1>1, <1>2 DEF MinifyInv, Fits
<1>8. NumberIsLongestPrefix /\ PrintInv
  BY <1>1, <1>3 DEF NumberIsLongestPrefix, PrintInv
<1>9. MadeInv
  <2>1. PICK call : /\ call \in StringCalls \cup NumberCalls \cup MinifyCalls
                    /\ text = call.text /\ made = call.pieces
                    /\ pc = "string" => call \in StringCalls
                    /\ pc = "minify" => call \in MinifyCalls
    BY DEF LiteralsInit, StringInit, MinifyInit
  <2>2. made \in Seq(Piece)
    BY <2>1, CallsAssumption DEF Calls
  <2>3. pc = "string" /\ made # <<>> => SpellsString(text, made)
    BY <2>1, StringPiecesAssumption
  <2>4. pc = "string" => Reads(made, Places(made))
    BY DEF Reads
  <2>5. pc = "minify" /\ made # <<>> => SpellsSource(text, made)
    BY <2>1, SourcePiecesAssumption
  <2>6. pc = "minify" => ReadsSource(made, Places(made))
    <3>1. PICK start, n : start = Places(made) /\ n = Len(made)
      OBVIOUS
    <3>2. start[0] = 0 /\ SoFar(made)[0] = <<>> /\ n \in Nat
      BY <2>2, <3>1, PlacesAre, SoFarIs, PieceType
    <3>3. AtPiece(made, start)
      BY <1>1, <3>1, <3>2 DEF AtPiece
    <3> QED BY <3>1, <3>3 DEF ReadsSource
  <2> QED BY <1>3, <2>2, <2>3, <2>4, <2>5, <2>6 DEF MadeInv, StringPhases, MinifyPhases
<1> QED BY <1>1, <1>3, <1>4, <1>5, <1>6, <1>7, <1>8, <1>9 DEF LiteralsInv, StringPhases, MinifyPhases

\* Where it held, it holds in a state that differs in nothing.
LEMMA LiteralsStutter ==
  ASSUME LiteralsInv, UNCHANGED lvars
  PROVE  LiteralsInv'
<1>1. UNCHANGED <<text, pc, index, output, quoteAt, skipped, offset, made, printed>>
  BY DEF lvars, literal
<1>2. LiteralsTypeOK'
  BY <1>1 DEF LiteralsInv, LiteralsTypeOK
<1>3. ASSUME pc \in StringPhases PROVE StringInv' /\ QuoteInv'
  <2>1. StringInv'
    <3>1. UNCHANGED svars
      BY <1>1 DEF svars, literal
    <3> QED BY <1>3, <3>1, StringStep DEF LiteralsInv
  <2>2. QuoteInv'
    <3>1. EndOfNoString' <=> EndOfNoString
      BY <1>1, SameQuotes DEF EndOfNoString
    <3> QED BY <1>1, <1>3, <3>1, SameQuotes DEF LiteralsInv, QuoteInv
  <2> QED BY <2>1, <2>2
<1>4. ASSUME pc \in MinifyPhases PROVE MinifyInv'
  BY <1>1, <1>4, MinifyStep DEF LiteralsInv, mvars
<1>5. NumberIsLongestPrefix'
  <2>1. NumberEnds' = NumberEnds
    BY <1>1 DEF NumberEnds
  <2> QED BY <1>1, <2>1 DEF LiteralsInv, NumberIsLongestPrefix
<1>6. ASSUME NEW pieces PROVE Reads(pieces, Places(pieces))' <=> Reads(pieces, Places(pieces))
  <2>1. PICK start : start = Places(pieces)
    OBVIOUS
  <2>2. Reads(pieces, start)' <=> Reads(pieces, start)
    BY <1>1 DEF Reads, Between, Decoded, FailedAt, AllDecoded
  <2> QED BY <2>1, <2>2
<1>8. ASSUME NEW pieces PROVE ReadsSource(pieces, Places(pieces))' <=> ReadsSource(pieces, Places(pieces))
  <2>1. PICK start : start = Places(pieces)
    OBVIOUS
  <2>2. ReadsSource(pieces, start)' <=> ReadsSource(pieces, start)
    BY <1>1 DEF ReadsSource, AtPiece, InPiece, Within, Midway, InQuotes
  <2> QED BY <2>1, <2>2
<1>7. MadeInv' /\ PrintInv'
  BY <1>1, <1>6, <1>8 DEF LiteralsInv, MadeInv, PrintInv, ReadsPrint
<1> QED BY <1>1, <1>2, <1>3, <1>4, <1>5, <1>7 DEF LiteralsInv

\* A step of parse_string.
LEMMA StringKeepsInv ==
  ASSUME LiteralsInv, StringNext, UNCHANGED <<made, printed>>
  PROVE  LiteralsInv'
<1>1. pc \in StringPhases /\ pc' \in StringPhases
  BY DEF StringNext, NotAString, OpenString, PassByte, PassEscape, Unterminated, FindQuote, CopyByte,
         ShortEscape, UnicodeEscape, SurrogatePair, BadEscape, CloseString, Escape, Decoding, Decodes,
         FailsAt, StringPhases
<1>2. LiteralsTypeOK /\ StringInv /\ QuoteInv
  BY <1>1 DEF LiteralsInv
<1>3. LiteralsTypeOK' /\ StringInv'
  BY <1>2, StringTypes, StringStep
<1>4. QuoteInv'
  BY <1>2, <1>3, QuoteStep
<1>5. ASSUME NEW pieces, pieces \in Seq(Piece), SpellsString(text, pieces), Reads(pieces, Places(pieces))
      PROVE  SpellsString(text, pieces)' /\ Reads(pieces, Places(pieces))'
  <2>1. PICK start : start = Places(pieces)
    OBVIOUS
  <2>2. text \in Seq(Byte) /\ Len(text) \in Nat
    BY <1>2 DEF LiteralsTypeOK
  <2>3. StringOf(pieces, start)
    BY <1>5, <2>1, <2>2, StringIs
  <2>4. text' = text /\ Reads(pieces, start)'
    BY <1>1, <1>2, <1>5, <2>1, <2>2, <2>3, ReadsStep
  <2> QED BY <1>5, <2>1, <2>4
<1>6. MadeInv'
  <2>1. made' = made /\ made \in Seq(Piece)
    BY DEF LiteralsInv, MadeInv
  <2>2. ASSUME made # <<>> PROVE SpellsString(text, made)' /\ Reads(made, Places(made))'
    <3>1. PICK m : m = made
      OBVIOUS
    <3>2. m \in Seq(Piece) /\ SpellsString(text, m) /\ Reads(m, Places(m))
      BY <1>1, <2>2, <3>1 DEF LiteralsInv, MadeInv
    <3>3. SpellsString(text, m)' /\ Reads(m, Places(m))'
      BY <1>5, <3>2
    <3>4. m = made'
      BY <2>1, <3>1
    <3> QED BY <3>3, <3>4
  <2> QED BY <1>1, <2>1, <2>2 DEF MadeInv, StringPhases, MinifyPhases
<1>7. PrintInv'
  <2>1. ASSUME NEW s, s \in Seq(Byte), ReadsPrint(s) PROVE ReadsPrint(s)'
    <3>1. PICK ps : ps = PrintPieces(s)
      OBVIOUS
    <3>2. ps \in Seq(Piece)
      BY <2>1, <3>1, PrintSpells
    <3>3. printed = <<s>> /\ SpellsString(text, ps) /\ Reads(ps, Places(ps))
      BY <2>1, <3>1 DEF ReadsPrint
    <3>4. SpellsString(text, ps)' /\ Reads(ps, Places(ps))'
      BY <1>5, <3>2, <3>3
    <3>5. printed' = <<s>>
      BY <3>3
    <3> QED BY <1>1, <3>1, <3>4, <3>5 DEF ReadsPrint
  <2> QED BY <2>1 DEF LiteralsInv, PrintInv
<1> QED BY <1>1, <1>3, <1>4, <1>6, <1>7 DEF LiteralsInv, NumberIsLongestPrefix, StringPhases, MinifyPhases

LEMMA InvHoldsAtPrint == (text \in Seq(Byte) /\ StringInit => StringInv)'
<1>1. text \in Seq(Byte) /\ StringInit => StringInv
  BY InvHoldsAtFirst
<1> QED BY <1>1, PTL

\* The string parsed is printed.
LEMMA PrintKeepsInv ==
  ASSUME LiteralsInv, PrintAndParse
  PROVE  LiteralsInv'
<1>1. PICK s : s = output
  OBVIOUS
<1>2. s \in Seq(Byte)
  BY <1>1 DEF LiteralsInv, LiteralsTypeOK
<1>3. /\ text' = EscapeJsonBytes(s) /\ pc' = "string" /\ printed' = <<s>>
      /\ index' = 0 /\ output' = <<>> /\ quoteAt' = 0 /\ skipped' = {} /\ offset' = 0
      /\ made' = <<>>
  BY <1>1 DEF PrintAndParse
<1>4. text' \in Seq(Byte)
  BY <1>2, <1>3, EscapeJsonBytesType
<1>5. LiteralsTypeOK'
  <2>1. 0 \in 0 .. Len(text') /\ <<>> \in Seq(Byte)
    BY <1>4
  <2> QED BY <1>3, <1>4, <2>1 DEF LiteralsTypeOK
<1>6. StringInv'
  BY <1>3, <1>4, InvHoldsAtPrint DEF StringInit
<1>7. QuoteInv'
  BY <1>3 DEF QuoteInv
<1>8. PrintInv'
  <2>1. PICK ps : ps = PrintPieces(s)
    OBVIOUS
  <2>2. Reads(ps, Places(ps))'
    BY <1>3 DEF Reads
  <2>3. SpellsString(text', ps)
    BY <1>2, <1>3, <2>1, PrintSpells
  <2>4. SpellsString(text, ps)'
    BY <2>3
  <2>5. ReadsPrint(s)'
    BY <1>3, <2>1, <2>2, <2>4 DEF ReadsPrint, StringPhases
  <2> QED BY <1>2, <2>5 DEF PrintInv
<1>9. MadeInv'
  BY <1>3 DEF MadeInv, MinifyPhases
<1> QED BY <1>3, <1>5, <1>6, <1>7, <1>8, <1>9 DEF LiteralsInv, NumberIsLongestPrefix, MinifyPhases

\* The call of parse_number.
LEMMA NumberKeepsInv ==
  ASSUME LiteralsInv, ParseNumber
  PROVE  LiteralsInv'
<1>1. pc = "number" /\ offset = 0 /\ text \in Seq(Byte) /\ printed = <<>>
  BY PrintsAreStrings DEF LiteralsInv, LiteralsTypeOK, ParseNumber, StringPhases
<1>2. NumberIsLongestPrefix' /\ offset' \in 0 .. Len(text)
  BY <1>1, NumberRead
<1>3. pc' \in {"no_number", "number_read"}
      /\ UNCHANGED <<text, index, output, quoteAt, skipped, made, printed>>
  BY DEF ParseNumber
<1>4. LiteralsTypeOK'
  BY <1>2, <1>3 DEF LiteralsInv, LiteralsTypeOK, Finished
<1>5. PrintInv' /\ MadeInv'
  BY <1>1, <1>3 DEF PrintInv, MadeInv, LiteralsInv, StringPhases, MinifyPhases
<1> QED BY <1>2, <1>3, <1>4, <1>5 DEF LiteralsInv, StringPhases, MinifyPhases

\* A step of minify.
LEMMA MinifyKeepsInv ==
  ASSUME LiteralsInv, MinifyNext, UNCHANGED <<literal, made, printed>>
  PROVE  LiteralsInv'
<1>1. pc \in MinifyPhases
  BY DEF MinifyNext, MinifyPhases, OpenKeptString, InString, SkipBlank, KeepByte, OpenLineComment,
         InLineComment, OpenBlockComment, InBlockComment, FinishMinify, OpensComment
<1>2. LiteralsTypeOK' /\ MinifyInv' /\ pc' \in MinifyPhases
  BY <1>1, MinifyTypes DEF LiteralsInv
<1>3. printed = <<>>
  BY <1>1, PrintsAreStrings DEF LiteralsInv, StringPhases, MinifyPhases
<1>4. PrintInv'
  BY <1>3 DEF PrintInv
<1>5. MadeInv'
  <2>1. made' = made /\ made \in Seq(Piece)
    BY DEF LiteralsInv, MadeInv
  <2>2. ASSUME made # <<>> PROVE SpellsSource(text, made)' /\ ReadsSource(made, Places(made))'
    <3>1. PICK m, start : m = made /\ start = Places(m)
      OBVIOUS
    <3>2. m \in Seq(Piece) /\ SpellsSource(text, m) /\ ReadsSource(m, start)
      BY <1>1, <2>2, <3>1 DEF LiteralsInv, MadeInv
    <3>3. SourceOf(m, start)
      BY <3>1, <3>2, SourceIs
    <3>4. text' = text /\ ReadsSource(m, start)'
      BY <3>2, <3>3, SourceStep
    <3>5. m = made'
      BY <2>1, <3>1
    <3> QED BY <3>1, <3>2, <3>4, <3>5
  <2> QED BY <1>2, <2>1, <2>2 DEF MadeInv, StringPhases, MinifyPhases
<1> QED BY <1>2, <1>4, <1>5 DEF LiteralsInv, NumberIsLongestPrefix, StringPhases, MinifyPhases

\* The invariant holds of every call of a scanner.
LEMMA LiteralsInvInductive == LiteralsSpec => []LiteralsInv
<1>1. LiteralsInit => LiteralsInv
  BY LiteralsInvHoldsAtFirst
<1>2. LiteralsInv /\ [LiteralsNext]_lvars => LiteralsInv'
  BY StringKeepsInv, PrintKeepsInv, NumberKeepsInv, MinifyKeepsInv, LiteralsStutter DEF LiteralsNext
<1> QED BY <1>1, <1>2, PTL DEF LiteralsSpec

\* Whatever bytes the scanners are given, every variable keeps its type: what is
\* decoded and what is printed are bytes, and no offset or index leaves the text.
THEOREM LiteralsTypesCorrect == LiteralsSpec => []LiteralsTypeOK
<1>1. LiteralsInv => LiteralsTypeOK
  BY DEF LiteralsInv
<1> QED BY <1>1, LiteralsInvInductive, PTL

\* Whatever bytes parse_string is given, the string ends at the first quote with an
\* even number of backslashes before it; without one the parser is left at the end
\* of the text or at its last backslash.
THEOREM StringsEndAtTheQuote == LiteralsSpec => []EndsAtTheFirstBareQuote
<1>1. LiteralsInv => EndsAtTheFirstBareQuote
  <2>1. ASSUME LiteralsInv, pc \in StringPhases PROVE EndsAtTheFirstBareQuote
    BY <2>1, QuoteInvMeansFirst DEF LiteralsInv
  <2>2. pc \notin StringPhases => EndsAtTheFirstBareQuote
    BY DEF EndsAtTheFirstBareQuote, StringPhases
  <2> QED BY <2>1, <2>2
<1> QED BY <1>1, LiteralsInvInductive, PTL

\* Whatever bytes parse_number is given, it moves on by the longest prefix that the
\* grammar calls a number, and fails without moving when there is none.
THEOREM NumbersAreLongest == LiteralsSpec => []NumberIsLongestPrefix
<1>1. LiteralsInv => NumberIsLongestPrefix
  BY DEF LiteralsInv
<1> QED BY <1>1, LiteralsInvInductive, PTL

\* Whatever bytes a string holds, what escape_json_bytes prints of it is read back
\* by parse_string as the same bytes.
THEOREM PrintsComeBack == LiteralsSpec => []EscapedComesBack
<1>1. LiteralsInv => EscapedComesBack
  <2>1. ASSUME PrintInv, printed # <<>> PROVE pc # "no_string" /\ (pc = "parsed" => output = printed[1])
    <3>1. PICK s \in Seq(Byte) : ReadsPrint(s)
      BY <2>1 DEF PrintInv
    <3>2. printed[1] = s
      BY <3>1 DEF ReadsPrint
    <3>3. PICK ps, start : ps = PrintPieces(s) /\ start = Places(ps)
      OBVIOUS
    <3>4. Len(ps) = Len(s) /\ (\A i \in 1 .. Len(s) : ~ps[i].fails) /\ Means(ps) = s /\ Len(s) \in Nat
      BY <3>1, <3>3, PrintSpells, PrintMeans
    <3>5. Reads(ps, start)
      BY <3>1, <3>3 DEF ReadsPrint
    <3>6. pc # "no_string"
      <4>1. ~FailedAt(ps, start)
        BY <3>4 DEF FailedAt
      <4> QED BY <3>5, <4>1 DEF Reads
    <3>7. pc = "parsed" => output = s
      BY <3>4, <3>5 DEF Reads, AllDecoded
    <3> QED BY <3>2, <3>6, <3>7
  <2> QED BY <2>1 DEF LiteralsInv, EscapedComesBack
<1> QED BY <1>1, LiteralsInvInductive, PTL

\* Whatever pieces a string is put together from - bytes, escapes, \u code units and
\* pairs of them, as many as one likes - parse_string returns what they mean and
\* stands behind the closing quote, or fails at the first that is no escape and no
\* character.
THEOREM PiecesAreDecoded == LiteralsSpec => []DecodesWhatIsWritten
<1>1. LiteralsInv => DecodesWhatIsWritten
  <2>1. ASSUME MadeInv, made # <<>>, pc \in {"parsed", "no_string"} PROVE DecodesWhatIsWritten
    <3>1. made \in Seq(Piece) /\ Reads(made, Places(made))
      BY <2>1 DEF MadeInv, StringPhases
    <3> QED BY <2>1, <3>1, ReadingIsDecoding
  <2>2. ~(made # <<>> /\ pc \in {"parsed", "no_string"}) => DecodesWhatIsWritten
    BY DEF DecodesWhatIsWritten
  <2> QED BY <2>1, <2>2 DEF LiteralsInv
<1> QED BY <1>1, LiteralsInvInductive, PTL

\* Whatever bytes, strings, blanks and comments a source is put together from, minify
\* leaves the bytes and the strings as they are and drops the rest, also when the text
\* ends in the middle of one; and it never has more to write than it has read.
THEOREM TokensAreKept == LiteralsSpec => []MinifyKeepsTheTokens
<1>1. LiteralsInv => MinifyKeepsTheTokens
  <2>1. ASSUME MinifyInv, MadeInv, pc \in MinifyPhases PROVE MinifyKeepsTheTokens
    <3>1. Len(output) <= index
      BY <2>1 DEF MinifyInv, Fits
    <3>2. pc = "minified" /\ made # <<>> => output = Means(made)
      <4>1. PICK start : start = Places(made)
        OBVIOUS
      <4>2. made # <<>> => ReadsSource(made, start)
        BY <2>1, <4>1 DEF MadeInv
      <4>3. pc = "minified" => ~InPiece(made, start)
        BY DEF InPiece, Within, Midway, InQuotes
      <4> QED BY <4>2, <4>3 DEF ReadsSource
    <3> QED BY <3>1, <3>2 DEF MinifyKeepsTheTokens
  <2>2. pc \notin MinifyPhases => MinifyKeepsTheTokens
    BY DEF MinifyKeepsTheTokens, MinifyPhases
  <2> QED BY <2>1, <2>2 DEF LiteralsInv
<1> QED BY <1>1, LiteralsInvInductive, PTL

\* The same of the buffer, for every call of a scanner: also when a print is parsed.
THEOREM BuffersAreLargeEnough == LiteralsSpec => []OutputFits
<1>1. LiteralsInv => OutputFits
  <2>1. ASSUME StringInv PROVE OutputFits
    BY <2>1, InvMeansFit
  <2>2. pc \notin StringPhases => OutputFits
    BY DEF OutputFits, StringPhases
  <2> QED BY <2>1, <2>2 DEF LiteralsInv
<1> QED BY <1>1, LiteralsInvInductive, PTL
=============================================================================
