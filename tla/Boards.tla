-------------------------------- MODULE Boards --------------------------------
(***************************************************************************)
(* The smaller drivers of the repository, each on a board of its own: they *)
(* share no state, so one specification runs whichever the board has.  The *)
(* drivers of the other boards stay where they start.                      *)
(***************************************************************************)
EXTENDS HciAth, BtmtkStp, SerdevEcho, Bmp280Regs, DtI2c, CharBuffer, Gpio2Led,
        LcdI2c

VARIABLE board

OnlyAth ==
    UNCHANGED <<board, stpVars, serdevVars, regsVars, dtVars, bufferVars,
                ledVars, lcdVars>>
OnlyStp ==
    UNCHANGED <<board, athVars, serdevVars, regsVars, dtVars, bufferVars,
                ledVars, lcdVars>>
OnlySerdev ==
    UNCHANGED <<board, athVars, stpVars, regsVars, dtVars, bufferVars,
                ledVars, lcdVars>>
OnlyRegs ==
    UNCHANGED <<board, athVars, stpVars, serdevVars, dtVars, bufferVars,
                ledVars, lcdVars>>
OnlyDt ==
    UNCHANGED <<board, athVars, stpVars, serdevVars, regsVars, bufferVars,
                ledVars, lcdVars>>
OnlyBuffer ==
    UNCHANGED <<board, athVars, stpVars, serdevVars, regsVars, dtVars,
                ledVars, lcdVars>>
OnlyLed ==
    UNCHANGED <<board, athVars, stpVars, serdevVars, regsVars, dtVars,
                bufferVars, lcdVars>>
OnlyLcd ==
    UNCHANGED <<board, athVars, stpVars, serdevVars, regsVars, dtVars,
                bufferVars, ledVars>>

boardVars == <<board, athVars, stpVars, serdevVars, regsVars, dtVars,
               bufferVars, ledVars, lcdVars>>

\* The choices of the drivers that stay where they start are made once.
BoardsInit ==
    /\ board \in {"ath", "stp", "serdev", "bmp280", "dt_i2c", "read_write",
                  "gpio2", "lcd_i2c"}
    /\ AthInit /\ StpInit /\ SerdevInit /\ RegsInit /\ DtInit /\ BufferInit
    /\ LedInit /\ LcdI2cInit
    /\ board = "serdev" \/ driver = CHOOSE d \in Variants : TRUE
    /\ board = "bmp280" \/ bus = CHOOSE b \in Buses : TRUE
    /\ board = "gpio2" \/ button = "0"

BoardsNext ==
    \/ board = "ath" /\ AthNext /\ OnlyAth
    \/ board = "stp" /\ StpNext /\ OnlyStp
    \/ board = "serdev" /\ SerdevNext /\ OnlySerdev
    \/ board = "bmp280" /\ RegsNext /\ OnlyRegs
    \/ board = "dt_i2c" /\ DtNext /\ OnlyDt
    \/ board = "read_write" /\ BufferNext /\ OnlyBuffer
    \/ board = "gpio2" /\ LedNext /\ OnlyLed
    \/ board = "lcd_i2c" /\ LcdI2cNext /\ OnlyLcd

BoardsSpec == BoardsInit /\ [][BoardsNext]_boardVars /\ AthFairness /\ SerdevFairness
=============================================================================
