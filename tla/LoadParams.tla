------------------------------ MODULE LoadParams ------------------------------
(****************************************************************************)
(* What the program loader's modules share: register values, the runs of    *)
(* sendfilt, and the bytes of the lines it sends.  A byte is a hex digit, a *)
(* comma, a newline or one of the bytes the server skips (carriage return,  *)
(* the zero that ends a string).                                            *)
(****************************************************************************)
EXTENDS Naturals, Sequences

CONSTANTS WordSize,               \* 2^32: the number of values of a register
          Sessions                \* the runs of sendfilt, each with one connection

\* A register holds at least every offset of the register file.
ASSUME LoadParamsAssumption == WordSize \in Nat /\ WordSize >= 16

Word == 0 .. WordSize - 1

HexDigit == 0 .. 15
Comma == 16
Newline == 17
Skipped == 18

\* Mutant of ShiftIn: the number is wider than the register.
ShiftInWide(value, digit) == 16 * value + digit

\* A hex digit shifted into a 32-bit number.
ShiftIn(value, digit) == (16 * value + digit) % WordSize

\* A loop over seq that starts with base: its values after n rounds.  Not FoldLeft of
\* SequencesExt, whose recursion over sets is out of the prover's reach.
Loop(Round(_, _), base, seq) ==
    LET after[n \in 0 .. Len(seq)] == IF n = 0 THEN base ELSE Round(after[n - 1], seq[n])
    IN  after
=============================================================================
