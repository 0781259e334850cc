------------------------------ MODULE MCLcdBus ------------------------------
(* Instances of LcdBus for TLC. *)
EXTENDS LcdVariants, TLC

CONSTANTS w1, w2

\* The drivers that leave their display on, the one that turns it off, and the
\* one with four lines.
EightLines == {LcdC, LcdMyC}
TurnedOff == {LcdJC}
FourLines == {Lcd4BitC}

\* 'A'; '%', whose upper nibble is that of a function set to four lines; and a
\* backspace, which as an instruction turns the display off.
A == {0, 6}
Percent == {0, 2, 5}
Backspace == {3}

\* The second text is longer than lcd_buffer.
SomeTexts == {<<A>>, <<Percent, Backspace, A>>}

\* Writers are interchangeable.
Symmetry == Permutations(Writers)
=============================================================================
