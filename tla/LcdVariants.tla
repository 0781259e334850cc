----------------------------- MODULE LcdVariants -----------------------------
(***************************************************************************)
(* The drivers that LcdBus describes: the lines each ModuleInit lowers and *)
(* what it sends to the display.  Of the greeting only the NUL is kept     *)
(* that lcd_my.c sends with it.                                            *)
(***************************************************************************)
EXTENDS LcdBus

Command(b) == [rs |-> 0, byte |-> b]
Char(b) == [rs |-> 1, byte |-> b]

\* gpios, as far as it is used.
TenLines == <<EnableLine, SelectLine, 0, 1, 2, 3, 4, 5, 6, 7>>
SixLines == <<EnableLine, SelectLine, 4, 5, 6, 7>>

\* Mutant: the display control instruction is sent without its display bit.
LcdCNotOn == [wires |-> 8, parks |-> TRUE,
              lowers |-> TenLines \o <<EnableLine, SelectLine>>,
              init |-> <<Command({4, 5}), Command({0, 1, 3}), Command({0})>>]

\* lcd.c: 0x30, 0x0f, 0x01; after the direction of all lines the first two are
\* lowered once more.
LcdC == [wires |-> 8, parks |-> TRUE,
         lowers |-> TenLines \o <<EnableLine, SelectLine>>,
         init |-> <<Command({4, 5}), Command({0, 1, 2, 3}), Command({0})>>]

\* lcd_my.c: the same commands; the greeting is sent with its NUL, and
\* ModuleExit leaves the lines as they are.
LcdMyC == [LcdC EXCEPT !.parks = FALSE, !.lowers = TenLines,
                       !.init = Append(@, Char({}))]

\* lcd_j.c: 0x38, 0x0e, 0x08, 0x01; every line is lowered when it is requested
\* and when it becomes an output.
LcdJC == [wires |-> 8, parks |-> TRUE, lowers |-> TenLines \o TenLines,
          init |-> <<Command({3, 4, 5}), Command({1, 2, 3}), Command({3}),
                     Command({0})>>]

\* lcd_4bit.c: the nibbles 3, 3, 3, 2, 2, c, 0, 8, 0, 1, 0, 7, 1, no greeting.
Lcd4BitC == [wires |-> 4, parks |-> TRUE,
             lowers |-> SixLines \o SixLines \o <<EnableLine, SelectLine>>,
             init |-> <<Command({0, 1}), Command({0, 1}), Command({0, 1}),
                        Command({1}), Command({1}), Command({2, 3}),
                        Command({}), Command({3}), Command({}), Command({0}),
                        Command({}), Command({0, 1, 2}), Command({0})>>]
=============================================================================
