---------------------------- MODULE StringLiteral ----------------------------
(***************************************************************************)
(* parse_string of rJSON/src/parser.rs, byte by byte: a first pass that    *)
(* looks for the closing quote and counts what the escapes save, and a     *)
(* second pass that decodes.  One step is one turn of a loop.              *)
(***************************************************************************)
EXTENDS Scan

VARIABLES
  quoteAt,   \* input_end, once the first pass is over
  skipped,   \* the backslashes the first pass stepped over: skipped_bytes counts them
  offset     \* current_offset of the parser

literal == <<quoteAt, skipped, offset>>
svars   == <<text, pc, index, output, literal>>

ContentStart == 1

StringInit ==
  /\ pc = "string"
  /\ index = 0
  /\ output = <<>>
  /\ quoteAt = 0
  /\ skipped = {}
  /\ offset = 0

\* The call ends without a string, the parser left at o.
FailsAt(o) ==
  /\ offset' = o
  /\ pc' = "no_string"
  /\ UNCHANGED <<text, index, output, quoteAt, skipped>>

-----------------------------------------------------------------------------
(* The first pass. *)

NotAString ==
  /\ pc = "string"
  /\ ~(InText(0) /\ At(0) = Quote)
  /\ FailsAt(offset)

OpenString ==
  /\ pc = "string"
  /\ InText(0) /\ At(0) = Quote
  /\ pc' = "first_pass"
  /\ index' = ContentStart
  /\ UNCHANGED <<text, output, literal>>

PassByte ==
  /\ pc = "first_pass"
  /\ InText(index) /\ At(index) \notin {Quote, Backslash}
  /\ index' = index + 1
  /\ UNCHANGED <<text, pc, output, literal>>

\* Mutant: the escaped byte is looked at like any other.
PassBackslash ==
  /\ pc = "first_pass"
  /\ InText(index + 1) /\ At(index) = Backslash
  /\ skipped' = skipped \cup {index}
  /\ index' = index + 1
  /\ UNCHANGED <<text, pc, output, quoteAt, offset>>

PassEscape ==
  /\ pc = "first_pass"
  /\ InText(index + 1) /\ At(index) = Backslash
  /\ skipped' = skipped \cup {index}
  /\ index' = index + 2
  /\ UNCHANGED <<text, pc, output, quoteAt, offset>>

\* The text ends, behind a backslash or without a closing quote.
Unterminated ==
  /\ pc = "first_pass"
  /\ InText(index) => At(index) = Backslash /\ ~InText(index + 1)
  /\ FailsAt(index)

FindQuote ==
  /\ pc = "first_pass"
  /\ InText(index) /\ At(index) = Quote
  /\ quoteAt' = index
  /\ index' = ContentStart
  /\ pc' = "second_pass"
  /\ UNCHANGED <<text, output, skipped, offset>>

AllocationLength == (quoteAt - ContentStart) - Cardinality(skipped)

-----------------------------------------------------------------------------
(* The escapes. *)

\* What b, f, n, r, t, and a quote, a backslash and a slash stand for.
ShortEscapes ==
  [c \in {98, 102, 110, 114, 116, Quote, Backslash, Slash} |->
     CASE c = 98 -> 8 [] c = 102 -> 12 [] c = 110 -> Newline
       [] c = 114 -> Return [] c = 116 -> Tab [] OTHER -> c]
UnicodeLetter == 117

IsHex(c) == c \in Digits \cup 65 .. 70 \cup 97 .. 102
HexValue(c) == IF c \in Digits THEN c - 48 ELSE IF c < 97 THEN c - 55 ELSE c - 87

\* parse_hex4: one byte that is no digit makes all four a zero.
ParseHex4(i) ==
  IF \A k \in i .. i + 3 : IsHex(At(k))
    THEN 4096 * HexValue(At(i)) + 256 * HexValue(At(i + 1))
           + 16 * HexValue(At(i + 2)) + HexValue(At(i + 3))
    ELSE 0

HighHalves == 55296 .. 56319
LowHalves  == 56320 .. 57343

\* The escape at i is a unit of its own, or the first half of a pair.
LoneUnit(i) ==
  /\ quoteAt - i >= 6
  /\ ParseHex4(i + 2) \notin HighHalves \cup LowHalves
Pair(i) ==
  /\ quoteAt - i >= 12
  /\ ParseHex4(i + 2) \in HighHalves
  /\ At(i + 6) = Backslash /\ At(i + 7) = UnicodeLetter
  /\ ParseHex4(i + 8) \in LowHalves
CodePointOfPair(i) ==
  65536 + 1024 * (ParseHex4(i + 2) % 1024) + (ParseHex4(i + 8) % 1024)

\* The UTF-8 encoding of a code point.
Utf8(c) ==
  LET More(shift) == 128 + ((c \div shift) % 64)
  IN  IF c < 128 THEN <<c>>
      ELSE IF c < 2048 THEN <<192 + (c \div 64), More(1)>>
      ELSE IF c < 65536 THEN <<224 + (c \div 4096), More(64), More(1)>>
      ELSE <<240 + (c \div 262144), More(4096), More(64), More(1)>>

-----------------------------------------------------------------------------
(* The second pass. *)

\* One turn of the loop: these bytes written, that many read.
Decodes(bytes, length) ==
  /\ output' = output \o bytes
  /\ index' = index + length
  /\ UNCHANGED <<text, pc, literal>>

Decoding == pc = "second_pass" /\ index < quoteAt
Escape(c) == Decoding /\ At(index) = Backslash /\ At(index + 1) = c

CopyByte == /\ Decoding /\ At(index) # Backslash
            /\ Decodes(<<At(index)>>, 1)

\* Mutant: the backslash is written too.
ShortEscapeKept == \E c \in DOMAIN ShortEscapes :
                     Escape(c) /\ Decodes(<<Backslash, ShortEscapes[c]>>, 2)

ShortEscape == \E c \in DOMAIN ShortEscapes :
                 Escape(c) /\ Decodes(<<ShortEscapes[c]>>, 2)

UnicodeEscape == /\ Escape(UnicodeLetter) /\ LoneUnit(index)
                 /\ Decodes(Utf8(ParseHex4(index + 2)), 6)

\* Mutant: only the first half is stepped over.
SurrogatePairHalf == /\ Escape(UnicodeLetter) /\ Pair(index)
                     /\ Decodes(Utf8(CodePointOfPair(index)), 6)

SurrogatePair == /\ Escape(UnicodeLetter) /\ Pair(index)
                 /\ Decodes(Utf8(CodePointOfPair(index)), 12)

BadEscape ==
  /\ Decoding /\ At(index) = Backslash
  /\ At(index + 1) \notin DOMAIN ShortEscapes
  /\ At(index + 1) = UnicodeLetter => ~LoneUnit(index) /\ ~Pair(index)
  /\ FailsAt(index)

\* Mutant: the parser moves to where the second pass stopped.
CloseStringAtPointer ==
  /\ pc = "second_pass" /\ index >= quoteAt
  /\ offset' = index + 1
  /\ pc' = "parsed"
  /\ UNCHANGED <<text, index, output, quoteAt, skipped>>

CloseString ==
  /\ pc = "second_pass" /\ index >= quoteAt
  /\ offset' = quoteAt + 1
  /\ pc' = "parsed"
  /\ UNCHANGED <<text, index, output, quoteAt, skipped>>

StringNext ==
  \/ NotAString \/ OpenString
  \/ PassByte \/ PassEscape \/ Unterminated \/ FindQuote
  \/ CopyByte \/ ShortEscape \/ UnicodeEscape \/ SurrogatePair \/ BadEscape
  \/ CloseString

StringSpec == text \in Seq(Byte) /\ StringInit /\ [][StringNext]_svars

-----------------------------------------------------------------------------

\* The decoded string fits in what the first pass allowed for ("at most how much
\* output we need"), although the second pass may step past the closing quote
\* when the four bytes behind \u hold a backslash; it never reads past that quote
\* by more than the one byte it stops at.
OutputFits ==
  pc \in {"second_pass", "parsed"} => Len(output) <= AllocationLength /\ index <= quoteAt + 1
=============================================================================
