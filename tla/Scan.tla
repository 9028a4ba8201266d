-------------------------------- MODULE Scan --------------------------------
(***************************************************************************)
(* What the byte scanners of rJSON share: a text, a place in it, the bytes *)
(* written so far, and the names of the bytes the scanners tell apart.     *)
(* Each scanner is one call, a loop over one text.                         *)
(***************************************************************************)
EXTENDS Integers, Sequences, FiniteSets

Byte == 0 .. 255

Tab == 9
Newline == 10
Return == 13
Space == 32
Quote == 34
Star == 42
Plus == 43
Minus == 45
Dot == 46
Slash == 47
Backslash == 92

Digits == 48 .. 57
Blanks == {Space, Tab, Return, Newline}

VARIABLES
  text,     \* the bytes of the call
  pc,       \* where in which scanner the call stands
  index,    \* the place the scan has reached: input_end or input_pointer, index
  output    \* the bytes written

\* Offsets count from 0, as in the code.
At(i) == text[i + 1]
InText(i) == i < Len(text)
=============================================================================
