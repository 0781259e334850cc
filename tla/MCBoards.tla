------------------------------- MODULE MCBoards -------------------------------
(***************************************************************************)
(* Small values for the drivers of Boards.                                 *)
(***************************************************************************)
EXTENDS Boards, Bmp280Math

\* A byte of the display with its lowest and its last bit: bits 0 and 1 here.
MCHello == <<{0}>>
MCLcdInputs == {<<{}>>, <<{1}, {0}>>}

\* The arithmetic of the BMP280 drivers on some readings and calibrations, with
\* a word of 19 bits, and as far as the numbers of TLC go: the first term on both
\* sides of the reference, the whole above it, and the raw value.
ASSUME LinearSample ==
    \A adc \in {0, 40, 159, 160, 168, 320}, T1 \in {0, 7, 10}, T2 \in {0, 1, 999} :
        Var1(adc, T1, T2) = SheetVar1(adc, T1, T2)
            + (IF Linear(adc, T1) * T2 < 0 THEN Word \div 2048 ELSE 0)

ASSUME FineSample ==
    \A adc \in {160, 168, 1600, 10000}, T1 \in {0, 7, 10}, T2 \in {1, 99},
       T3 \in {0, 99, 32767, 32768, 65535} :
        Fits(adc, T1, T2, T3) =>
            TFine(adc, T1, T2, T3) = SheetFine(adc, T1, T2, T3)
                                     + FineError(adc, T1, T2, T3)

ASSUME RawSample ==
    \A b \in [1..3 -> {0, 1, 15, 16, 127, 128, 255}] : RawPressure(b) = RawTemperature(b)
=============================================================================
