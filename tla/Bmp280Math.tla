----------------------------- MODULE Bmp280Math -----------------------------
(***************************************************************************)
(* How the BMP280 drivers turn the bytes of a reading into a temperature.  *)
(* bmp280_spi.c, bmp280_spi_simple.c and bmp280.c share these lines.       *)
(*                                                                         *)
(* The formula is the one of the data sheet, which is written for signed   *)
(* numbers.  Here adc_T is a u32, which makes every product unsigned, and  *)
(* dig_T2 and dig_T3, two's complement numbers in the sensor, are u16.     *)
(***************************************************************************)
EXTENDS Integers

CONSTANT Word       \* an unsigned int is taken modulo Word: 2^32 in the code

\* The right shifts of the formula divide what a wrapped number gains.
ASSUME WordAssumption == Word \in Nat \ {0} /\ Word % 524288 = 0

Wrapped(x) == x % Word

\* dig_T1, dig_T2 and dig_T3: the less significant byte comes first.
DigWord(b) == b[2] * 256 + b[1]

\* adc_T is put together from three bytes, of which the last has four bits ...
RawTemperature(b) == b[1] * 4096 + b[2] * 16 + b[3] \div 16

\* ... and adc_P with its bytes shifted further and back.
RawPressure(b) == (b[1] * 65536 + b[2] * 256 + (b[3] \div 16) * 16) \div 16

\* The first term of t_fine, linear in the distance from the reference ...
Linear(adc, T1) == adc \div 8 - 2 * T1
Var1(adc, T1, T2) == Wrapped(Wrapped(Linear(adc, T1)) * T2) \div 2048

\* ... and the second one, its square.
Distance(adc, T1) == adc \div 16 - T1
Squared(adc, T1) == Wrapped(Wrapped(Distance(adc, T1)) * Wrapped(Distance(adc, T1)))
Var2(adc, T1, T3) == Wrapped((Squared(adc, T1) \div 4096) * T3) \div 16384

TFine(adc, T1, T2, T3) == Var1(adc, T1, T2) + Var2(adc, T1, T3)

\* What read_raw reports, in hundredths of a degree.
Hundredths(fine) == (fine * 5 + 128) \div 256
Temperature(adc, T1, T2, T3) == Hundredths(TFine(adc, T1, T2, T3))
-----------------------------------------------------------------------------
(* The formula over signed numbers, with signed coefficients.              *)

Signed16(x) == IF x < 32768 THEN x ELSE x - 65536

SheetVar1(adc, T1, T2) == (Linear(adc, T1) * Signed16(T2)) \div 2048
SheetVar2(adc, T1, T3) ==
    (((Distance(adc, T1) * Distance(adc, T1)) \div 4096) * Signed16(T3)) \div 16384
SheetFine(adc, T1, T2, T3) == SheetVar1(adc, T1, T2) + SheetVar2(adc, T1, T3)

\* How far t_fine is off: below the reference the unsigned product has gained
\* Word, and a negative dig_T3 has gained 65536.
FineError(adc, T1, T2, T3) ==
    (IF Linear(adc, T1) * T2 < 0 THEN Word \div 2048 ELSE 0)
    + (IF T3 < 32768 THEN 0
       ELSE 4 * ((Distance(adc, T1) * Distance(adc, T1)) \div 4096))

\* The products of the formula are small enough for an unsigned int.
Fits(adc, T1, T2, T3) ==
    LET d == Distance(adc, T1)
    IN  /\ Linear(adc, T1) * T2 \in (-Word)..(Word - 1)
        /\ d * d < Word
        /\ ((d * d) \div 4096) * T3 < Word
=============================================================================
