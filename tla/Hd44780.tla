------------------------------- MODULE Hd44780 -------------------------------
(***************************************************************************)
(* The character display the LCD drivers talk to, an HD44780, as far as    *)
(* those drivers can tell: which instruction a byte is, how the interface  *)
(* width decides what one enable pulse latches, and what the text memory   *)
(* holds.  The controller is not part of the repository; this module       *)
(* follows from how LCD_drv/lcd.c and LCD_drv/lcd_4bit.c use it.           *)
(*                                                                         *)
(* A byte is the set of its 1 bits.  A panel is a record:                  *)
(*   width   8 or 4, the width of the interface                            *)
(*   half    <<>>, or <<pulse>> when one nibble of a byte has been latched *)
(*   on      whether the display is turned on                              *)
(*   plain   whether the next character is appended to text                *)
(*   text    the characters written since the last clear                   *)
(* When the address, the direction or the memory has been changed, the     *)
(* text is unknown until the next clear: plain is FALSE and text empty.    *)
(***************************************************************************)
EXTENDS Integers, Sequences

CONSTANT Cells          \* the characters the text memory holds (80)

ASSUME CellsAssumption == Cells \in Nat \ {0}

Byte == SUBSET (0..7)

\* A panel that has just been powered: 8-bit interface, display off, cleared.
PowerOn == [width |-> 8, half |-> <<>>, on |-> FALSE, plain |-> TRUE, text |-> <<>>]

Cleared(panel) == [panel EXCEPT !.plain = TRUE, !.text = <<>>]
Scrambled(panel) == [panel EXCEPT !.plain = FALSE, !.text = <<>>]

\* The instruction whose number is the highest bit of the byte.
Instruction(panel, b) ==
    CASE b \cap {6, 7} # {} -> Scrambled(panel)          \* set an address
      [] b \cap {5, 6, 7} = {5} ->                       \* function set
           [panel EXCEPT !.width = IF 4 \in b THEN 8 ELSE 4, !.half = <<>>]
      [] b \cap (4..7) = {4} -> IF 3 \in b THEN panel    \* display shift
                                ELSE Scrambled(panel)    \* cursor shift
      [] b \cap (3..7) = {3} -> [panel EXCEPT !.on = 2 \in b]
      [] b \cap (2..7) = {2} -> IF 1 \in b THEN panel    \* entry mode
                                ELSE Scrambled(panel)
      [] b \cap (1..7) = {1} -> IF panel.text = <<>> THEN panel  \* home
                                ELSE Scrambled(panel)
      [] b = {0} -> Cleared(panel)
      [] b = {} -> panel

\* A character is appended while there is room, and overwrites text after that.
Character(panel, b) ==
    IF panel.plain /\ Len(panel.text) < Cells
    THEN [panel EXCEPT !.text = Append(@, b)]
    ELSE Scrambled(panel)

Received(panel, rs, b) == IF rs = 1 THEN Character(panel, b) ELSE Instruction(panel, b)

\* What one enable pulse may do: with an 8-bit interface it latches a byte,
\* with a 4-bit interface the upper and then the lower half of one.  Which of
\* two different register selects counts for a byte is not specified.
Latched(panel, rs, lines) ==
    LET upper == lines \cap (4..7)
        lower == {k \in 0..3 : k + 4 \in lines}
    IN  IF panel.width = 8 THEN {Received(panel, rs, lines)}
        ELSE IF panel.half = <<>>
        THEN {[panel EXCEPT !.half = <<[rs |-> rs, upper |-> upper]>>]}
        ELSE LET first == panel.half[1]
                 whole == [panel EXCEPT !.half = <<>>]
             IN  {Received(whole, r, first.upper \cup lower) : r \in {rs, first.rs}}
=============================================================================
