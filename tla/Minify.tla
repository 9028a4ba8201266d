-------------------------------- MODULE Minify --------------------------------
(***************************************************************************)
(* minify of rJSON/src/arena.rs: the bytes of a text without blanks and    *)
(* comments, strings left alone.  One step is one turn of a loop; the      *)
(* flags in_string and escaped, and the two inner loops, are values of pc. *)
(***************************************************************************)
EXTENDS Scan

mvars == <<text, pc, index, output>>

MinifyInit == pc = "minify" /\ index = 0 /\ output = <<>>

Keep == output' = Append(output, At(index)) /\ index' = index + 1
Drop(n) == index' = index + n /\ UNCHANGED output

OpensComment(second) ==
  /\ pc = "minify" /\ InText(index + 1)
  /\ At(index) = Slash /\ At(index + 1) = second

OpenKeptString ==
  /\ pc = "minify" /\ InText(index) /\ At(index) = Quote
  /\ Keep
  /\ pc' = "in_string"

InString ==
  /\ pc \in {"in_string", "escaped"} /\ InText(index)
  /\ Keep
  /\ pc' = CASE pc = "escaped" -> "in_string"
             [] pc = "in_string" /\ At(index) = Backslash -> "escaped"
             [] pc = "in_string" /\ At(index) = Quote -> "minify"
             [] OTHER -> "in_string"

SkipBlank ==
  /\ pc = "minify" /\ InText(index) /\ At(index) \in Blanks
  /\ Drop(1)
  /\ UNCHANGED pc

OpenLineComment  == OpensComment(Slash) /\ Drop(2) /\ pc' = "line_comment"

\* Mutant: the star that opens the comment may close it.
OpenBlockCommentShort == OpensComment(Star) /\ Drop(1) /\ pc' = "block_comment"

OpenBlockComment == OpensComment(Star) /\ Drop(2) /\ pc' = "block_comment"

\* A line comment ends with the newline, or with the text.
InLineComment ==
  /\ pc = "line_comment"
  /\ Drop(IF InText(index) THEN 1 ELSE 0)
  /\ pc' = IF InText(index) /\ At(index) # Newline THEN pc ELSE "minify"

\* An unterminated block comment takes the rest of the text.
InBlockComment ==
  /\ pc = "block_comment"
  /\ \/ /\ InText(index + 1)
        /\ IF At(index) = Star /\ At(index + 1) = Slash
             THEN Drop(2) /\ pc' = "minify"
             ELSE Drop(1) /\ UNCHANGED pc
     \/ /\ ~InText(index + 1)
        /\ Drop(Len(text) - index)
        /\ pc' = "minify"

KeepByte ==
  /\ pc = "minify" /\ InText(index)
  /\ At(index) \notin Blanks \cup {Quote}
  /\ ~OpensComment(Slash) /\ ~OpensComment(Star)
  /\ Keep
  /\ UNCHANGED pc

\* The outer loop is over, in whatever state it was.
FinishMinify ==
  /\ pc \in {"minify", "in_string", "escaped"} /\ ~InText(index)
  /\ pc' = "minified"
  /\ UNCHANGED <<index, output>>

MinifyNext ==
  /\ \/ OpenKeptString \/ InString \/ SkipBlank \/ KeepByte
     \/ OpenLineComment \/ InLineComment \/ OpenBlockComment \/ InBlockComment
     \/ FinishMinify
  /\ UNCHANGED text

MinifySpec == text \in Seq(Byte) /\ MinifyInit /\ [][MinifyNext]_mvars
=============================================================================
