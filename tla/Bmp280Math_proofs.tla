-------------------------- MODULE Bmp280Math_proofs --------------------------
(***************************************************************************)
(* Theorems about the arithmetic of the BMP280 drivers: how far the        *)
(* temperature they report is from the formula of the data sheet, for      *)
(* every reading and every calibration; and about how the two simpler      *)
(* drivers read the registers, for any number of readers.                  *)
(***************************************************************************)
EXTENDS Bmp280Math, Bmp280Regs, SequenceTheorems, TLAPS

\* A number is its quotient times Word, and its remainder.
LEMMA WordDivides ==
  ASSUME NEW x \in Int
  PROVE  /\ Word \in Nat \ {0}
         /\ x = Word * (x \div Word) + (x % Word)
         /\ x % Word \in 0..(Word - 1) /\ x \div Word \in Int
<1>1. Word \in Nat \ {0}
  BY WordAssumption, SMT
<1> QED
  BY <1>1, Z3

\* Two multiples of a number that are less than the number apart are equal.
LEMMA MultiplesApart ==
  ASSUME NEW w \in Nat \ {0}, NEW q \in Int, NEW d \in Int,
         q * w - w * d < w, w * d - q * w < w
  PROVE  q = d
<1> DEFINE e == q - d
<1>1. e \in Int /\ q * w - w * d = w * e
  OBVIOUS
<1>2. w * e \in Int /\ w * e < w /\ -(w * e) < w
  BY <1>1
<1> HIDE DEF e
<1>3. e >= 1 => w * e >= w
  BY <1>1
<1>4. e <= -1 => w * e <= -w
  BY <1>1
<1>5. e = 0
  BY <1>1, <1>2, <1>3, <1>4
<1> QED
  BY <1>5 DEF e

\* Remainder and quotient are unique.
LEMMA RemainderUnique ==
  ASSUME NEW x \in Int, NEW q \in Int, NEW r \in Int, 0 <= r, r < Word,
         x = q * Word + r
  PROVE  Wrapped(x) = r
<1>1. PICK d \in Int, m \in Int : d = x \div Word /\ m = x % Word
  BY WordDivides
<1>2. Word \in Nat \ {0} /\ x = Word * d + m /\ 0 <= m /\ m < Word
  BY <1>1, WordDivides
<1>3. q * Word \in Int /\ Word * d \in Int
  BY <1>2
<1>4. q = d
  <2>1. q * Word - Word * d = m - r
    BY <1>2, <1>3
  <2>2. q * Word - Word * d < Word /\ Word * d - q * Word < Word
    BY <1>2, <1>3, <2>1
  <2> QED
    BY <1>2, <2>2, MultiplesApart
<1>5. m = r
  BY <1>2, <1>3, <1>4
<1> QED
  BY <1>1, <1>5 DEF Wrapped

\* Wrapping takes a multiple of Word away.
LEMMA WrappedSplits ==
  ASSUME NEW a \in Int
  PROVE  /\ Word \in Nat \ {0}
         /\ \E k \in Int, m \in Int : m = Wrapped(a) /\ 0 <= m /\ m < Word
                                      /\ a = Word * k + m
<1>1. PICK k \in Int, m \in Int : k = a \div Word /\ m = a % Word
  <2>1. /\ a \div Word \in Int /\ Word \in Nat \ {0}
        /\ a % Word \in 0..(Word - 1)
    BY WordDivides
  <2>2. a % Word \in Int
    BY <2>1
  <2> QED
    BY <2>1, <2>2
<1>2. Word \in Nat \ {0} /\ a = Word * k + m /\ 0 <= m /\ m < Word
  BY <1>1, WordDivides
<1>3. m = Wrapped(a)
  BY <1>1 DEF Wrapped
<1> QED
  BY <1>2, <1>3

\* What an unsigned product of a wrapped number is.
LEMMA WrappedProduct ==
  ASSUME NEW a \in Int, NEW b \in Int
  PROVE  /\ 0 <= a * b /\ a * b < Word => Wrapped(Wrapped(a) * b) = a * b
         /\ -Word <= a * b /\ a * b < 0 => Wrapped(Wrapped(a) * b) = a * b + Word
<1>1. PICK k \in Int, m \in Int : m = Wrapped(a) /\ a = Word * k + m
  BY WrappedSplits
<1>2. Word \in Nat \ {0}
  BY WrappedSplits
<1>3. PICK p \in Int, y \in Int, n \in Int : p = a * b /\ y = m * b /\ n = k * b
  BY <1>1
<1>4. y = p - Word * n
  <2>1. a * b = (Word * k) * b + m * b
    BY <1>1, <1>2
  <2>2. (Word * k) * b = Word * (k * b)
    BY <1>1, <1>2
  <2> QED
    BY <1>2, <1>3, <2>1, <2>2
<1>5. PICK q \in Int : q = -n
  BY <1>3
<1>6. y = q * Word + p
  BY <1>2, <1>3, <1>4, <1>5
<1>7. y = (q - 1) * Word + (p + Word)
  BY <1>2, <1>3, <1>5, <1>6
<1>8. 0 <= p /\ p < Word => Wrapped(y) = p
  BY <1>3, <1>5, <1>6, RemainderUnique
<1>9. -Word <= p /\ p < 0 => Wrapped(y) = p + Word
  <2> PICK r \in Int, z \in Int : r = q - 1 /\ z = p + Word
    BY <1>2, <1>3, <1>5
  <2>1. y = r * Word + z
    BY <1>7
  <2>2. -Word <= p /\ p < 0 => 0 <= z /\ z < Word
    BY <1>2, <1>3
  <2> QED
    BY <1>3, <2>1, <2>2, RemainderUnique
<1> QED
  BY <1>1, <1>3, <1>8, <1>9

\* A square that fits is not changed by the wrapping of its factors.
LEMMA WrappedSquare ==
  ASSUME NEW a \in Int, a * a < Word
  PROVE  Wrapped(Wrapped(a) * Wrapped(a)) = a * a
<1>1. PICK k \in Int, m \in Int : m = Wrapped(a) /\ a = Word * k + m
  BY WrappedSplits
<1>2. Word \in Nat \ {0}
  BY WrappedSplits
<1>3. PICK p \in Int, y \in Int : p = a * a /\ y = m * m
  BY <1>1
<1>4. PICK q \in Int : q = k * (k * Word) - 2 * (a * k)
  BY <1>1, <1>2
<1>5. y = q * Word + p
  <2>1. m = a - Word * k
    BY <1>1, <1>2
  <2>2. (a - Word * k) * (a - Word * k)
        = a * a - 2 * ((a * k) * Word) + (k * (k * Word)) * Word
    BY <1>1, <1>2
  <2>3. q * Word = (k * (k * Word)) * Word - 2 * ((a * k) * Word)
    BY <1>1, <1>2, <1>4
  <2>4. m * m = (a - Word * k) * (a - Word * k)
    BY <2>1
  <2>a. PICK u \in Int, v \in Int : u = (a * k) * Word /\ v = (k * (k * Word)) * Word
    BY <1>1, <1>2
  <2>5. y = p - 2 * u + v /\ q * Word = v - 2 * u
    BY <1>3, <2>2, <2>3, <2>4, <2>a
  <2>b. PICK t \in Int : t = q * Word
    BY <1>2, <1>4
  <2>6. y = p - 2 * u + v /\ t = v - 2 * u
    BY <2>5, <2>b
  <2>7. y = t + p
    BY <2>6
  <2> QED
    BY <2>7, <2>b
<1>6. 0 <= p /\ p < Word
  BY <1>3
<1> QED
  BY <1>1, <1>3, <1>4, <1>5, <1>6, RemainderUnique

\* A sign that a shift keeps: what a product has gained, shifted.
LEMMA ShiftedGain ==
  ASSUME NEW x \in Int
  PROVE  /\ (x + Word) \div 2048 = x \div 2048 + Word \div 2048
         /\ Word \div 2048 \in Int /\ 256 * (Word \div 524288) = Word \div 2048
         /\ Word \div 524288 \in Int
<1> DEFINE n == Word \div 524288
<1>1. /\ Word \in Nat /\ Word % 524288 = 0 /\ n \in Nat
      /\ Word = 524288 * n + (Word % 524288)
  BY WordAssumption, SMT
<1>2. n \in Nat /\ Word = 524288 * n /\ n = Word \div 524288
  BY <1>1, SMT
<1> HIDE DEF n
<1> QED
  BY <1>2, SMT

\* The two ways in which the drivers put a raw value together agree, and the
\* value has 20 bits: the pressure of bmp280_spi.c:100-103 is not shifted out of
\* place.
THEOREM OneRawValue ==
  ASSUME NEW b \in [1..3 -> 0..255]
  PROVE  RawPressure(b) = RawTemperature(b) /\ RawTemperature(b) \in Nat /\ RawTemperature(b) < 1048576
<1>1. PICK x \in 0..255, y \in 0..255, z \in 0..255 : x = b[1] /\ y = b[2] /\ z = b[3]
  <2>1. b[1] \in 0..255 /\ b[2] \in 0..255 /\ b[3] \in 0..255
    OBVIOUS
  <2> QED
    BY <2>1
<1>a. PICK h \in 0..15 : h = z \div 16
  <2>1. z \div 16 \in 0..15
    BY SMT
  <2> QED
    BY <2>1, SMT
<1>2. /\ RawPressure(b) = (x * 65536 + y * 256 + h * 16) \div 16
      /\ RawTemperature(b) = x * 4096 + y * 16 + h
  BY <1>1, <1>a, SMT DEF RawPressure, RawTemperature
<1>3. PICK n \in Int : n = x * 4096 + y * 16 + h /\ n >= 0 /\ n <= 1048575
  BY SMT
<1>4. x * 65536 + y * 256 + h * 16 = 16 * n
  BY <1>3, SMT
<1>5. (16 * n) \div 16 = n
  BY SMT
<1>6. RawPressure(b) = n /\ RawTemperature(b) = n
  BY <1>2, <1>3, <1>4, <1>5, SMT
<1>7. n \in Nat /\ n < 1048576
  BY <1>3, SMT
<1> QED
  BY <1>6, <1>7, SMT

\* The first term of the formula: exact at and above the reference, and too
\* large by a wrapped word, shifted, below it.
LEMMA LinearTerm ==
  ASSUME NEW adc \in Nat, NEW T1 \in Nat, NEW T2 \in Nat, T2 < 32768,
         -Word <= Linear(adc, T1) * T2, Linear(adc, T1) * T2 < Word
  PROVE  Var1(adc, T1, T2) = SheetVar1(adc, T1, T2)
             + (IF Linear(adc, T1) * T2 < 0 THEN Word \div 2048 ELSE 0)
<1>1. PICK d \in Int : d = Linear(adc, T1)
  BY SMT DEF Linear
<1>2. PICK p \in Int : p = d * T2
  OBVIOUS
<1>3. SheetVar1(adc, T1, T2) = p \div 2048
  BY <1>1, <1>2, SMT DEF SheetVar1, Signed16
<1>4. Var1(adc, T1, T2) = Wrapped(Wrapped(d) * T2) \div 2048
  BY <1>1, SMT DEF Var1
<1>5. CASE p >= 0
  <2>1. Wrapped(Wrapped(d) * T2) = p
    BY <1>1, <1>2, <1>5, WrappedProduct, SMT
  <2> QED
    BY <1>1, <1>2, <1>3, <1>4, <1>5, <2>1, SMT
<1>6. CASE p < 0
  <2>1. Wrapped(Wrapped(d) * T2) = p + Word
    <3>1. -Word <= d * T2 /\ d * T2 < 0
      BY <1>1, <1>2, <1>6, SMT
    <3> QED
      BY <1>2, <3>1, WrappedProduct, SMT
  <2>2. (p + Word) \div 2048 = p \div 2048 + Word \div 2048
    BY ShiftedGain, SMT
  <2> QED
    BY <1>1, <1>2, <1>3, <1>4, <1>6, <2>1, <2>2, SMT
<1> QED
  BY <1>5, <1>6, SMT

\* The second term: exact for a coefficient that is not negative, and too large
\* by 65536 times the shifted square for a negative one, shifted.
LEMMA SquareTerm ==
  ASSUME NEW adc \in Nat, NEW T1 \in Nat, NEW T3 \in Nat, T3 < 65536,
         Distance(adc, T1) * Distance(adc, T1) < Word,
         ((Distance(adc, T1) * Distance(adc, T1)) \div 4096) * T3 < Word
  PROVE  Var2(adc, T1, T3) = SheetVar2(adc, T1, T3)
             + (IF T3 < 32768 THEN 0
                ELSE 4 * ((Distance(adc, T1) * Distance(adc, T1)) \div 4096))
<1>1. PICK d \in Int : d = Distance(adc, T1)
  BY SMT DEF Distance
<1>2. d * d \in Nat
  OBVIOUS
<1>3. PICK x \in Nat : x = (d * d) \div 4096
  BY <1>2, SMT
<1>4. Squared(adc, T1) = d * d
  BY <1>1, WrappedSquare, SMT DEF Squared
<1>5. PICK p \in Nat : p = x * T3
  OBVIOUS
<1>6. Wrapped(p) = p
  <2>1. p = 0 * Word + p /\ Word \in Nat
    BY WrappedSplits, SMT
  <2> QED
    BY <1>1, <1>3, <1>5, <2>1, RemainderUnique, SMT
<1>7. Var2(adc, T1, T3) = p \div 16384
  BY <1>3, <1>4, <1>5, <1>6, SMT DEF Var2
<1>8. SheetVar2(adc, T1, T3) = (x * Signed16(T3)) \div 16384
  BY <1>1, <1>3, SMT DEF SheetVar2
<1>9. CASE T3 < 32768
  <2>1. x * Signed16(T3) = p
    BY <1>5, <1>9, SMT DEF Signed16
  <2> QED
    BY <1>7, <1>8, <1>9, <2>1, SMT
<1>10. CASE T3 >= 32768
  <2>1. x * Signed16(T3) = p - 65536 * x
    BY <1>5, <1>10, SMT DEF Signed16
  <2>2. (p - 65536 * x) \div 16384 = p \div 16384 - 4 * x
    BY SMT
  <2> QED
    BY <1>1, <1>3, <1>7, <1>8, <1>10, <2>1, <2>2, SMT
<1> QED
  BY <1>9, <1>10, SMT

\* How far t_fine is off, for every reading and calibration whose products fit
\* and whose linear coefficient is positive: exactly by FineError.
THEOREM FineErrorIsExact ==
  ASSUME NEW adc \in Nat, NEW T1 \in Nat, NEW T2 \in Nat, NEW T3 \in Nat,
         T2 < 32768, T3 < 65536, Fits(adc, T1, T2, T3)
  PROVE  TFine(adc, T1, T2, T3) = SheetFine(adc, T1, T2, T3) + FineError(adc, T1, T2, T3)
<1>1. Linear(adc, T1) \in Int /\ Distance(adc, T1) \in Int
  BY SMT DEF Linear, Distance
<1>2. Linear(adc, T1) * T2 \in Int /\ Word \in Nat
  BY <1>1, WrappedSplits, SMT
<1>3. /\ -Word <= Linear(adc, T1) * T2 /\ Linear(adc, T1) * T2 < Word
      /\ Distance(adc, T1) * Distance(adc, T1) < Word
      /\ ((Distance(adc, T1) * Distance(adc, T1)) \div 4096) * T3 < Word
  BY <1>2, SMT DEF Fits
<1>4. PICK s1 \in Int, s2 \in Int :
        s1 = SheetVar1(adc, T1, T2) /\ s2 = SheetVar2(adc, T1, T3)
  <2>1. Signed16(T2) \in Int /\ Signed16(T3) \in Int
    BY SMT DEF Signed16
  <2>2. (Distance(adc, T1) * Distance(adc, T1)) \div 4096 \in Int
    BY <1>1, SMT
  <2>3. /\ Linear(adc, T1) * Signed16(T2) \in Int
        /\ ((Distance(adc, T1) * Distance(adc, T1)) \div 4096) * Signed16(T3) \in Int
    BY <1>1, <2>1, <2>2, SMT
  <2> QED
    BY <2>3, SMT DEF SheetVar1, SheetVar2
<1>5. PICK e1 \in Int, e2 \in Int :
        /\ e1 = IF Linear(adc, T1) * T2 < 0 THEN Word \div 2048 ELSE 0
        /\ e2 = IF T3 < 32768 THEN 0
                ELSE 4 * ((Distance(adc, T1) * Distance(adc, T1)) \div 4096)
  BY <1>1, <1>2, SMT
<1>6. Var1(adc, T1, T2) = s1 + e1
  BY <1>3, <1>4, <1>5, LinearTerm, SMT
<1>7. Var2(adc, T1, T3) = s2 + e2
  BY <1>3, <1>4, <1>5, SquareTerm, SMT
<1>8. SheetFine(adc, T1, T2, T3) = s1 + s2 /\ FineError(adc, T1, T2, T3) = e1 + e2
  BY <1>4, <1>5, SMT DEF SheetFine, FineError
<1> QED
  BY <1>6, <1>7, <1>8, SMT DEF TFine

\* Both temperatures are numbers.
LEMMA SheetFineIsInt ==
  ASSUME NEW adc \in Nat, NEW T1 \in Nat, NEW T2 \in Nat, NEW T3 \in Nat
  PROVE  SheetFine(adc, T1, T2, T3) \in Int
<1>1. PICK l \in Int, d \in Int, c2 \in Int, c3 \in Int :
        l = Linear(adc, T1) /\ d = Distance(adc, T1)
        /\ c2 = Signed16(T2) /\ c3 = Signed16(T3)
  BY SMT DEF Linear, Distance, Signed16
<1>2. d * d \in Int /\ l * c2 \in Int
  BY <1>1, SMT
<1>3. PICK x \in Int : x = (d * d) \div 4096
  BY <1>2, SMT
<1>4. x * c3 \in Int
  BY <1>1, <1>3, SMT
<1>5. SheetVar1(adc, T1, T2) = (l * c2) \div 2048
      /\ SheetVar2(adc, T1, T3) = (x * c3) \div 16384
  BY <1>1, <1>3, SMT DEF SheetVar1, SheetVar2
<1> QED
  BY <1>2, <1>4, <1>5, SMT DEF SheetFine

\* With a coefficient dig_T3 that is not negative, a reading at or above the
\* reference temperature is the data sheet's.
THEOREM ExactAboveReference ==
  ASSUME NEW adc \in Nat, NEW T1 \in Nat, NEW T2 \in Nat, NEW T3 \in Nat,
         T2 < 32768, T3 < 32768, Fits(adc, T1, T2, T3),
         ~(Linear(adc, T1) * T2 < 0)
  PROVE  Temperature(adc, T1, T2, T3) = Hundredths(SheetFine(adc, T1, T2, T3))
<1>1. FineError(adc, T1, T2, T3) = 0
  BY SMT DEF FineError
<1>2. TFine(adc, T1, T2, T3) = SheetFine(adc, T1, T2, T3) + 0
  <2>1. T3 < 65536
    BY SMT
  <2> QED
    BY <1>1, <2>1, FineErrorIsExact, SMT
<1>3. TFine(adc, T1, T2, T3) = SheetFine(adc, T1, T2, T3)
  BY <1>2, SheetFineIsInt, SMT
<1> QED
  BY <1>3, SMT DEF Temperature

\* Below the reference temperature, about freezing, every reading of the drivers
\* is too high, whatever the sign of dig_T3: by at least 40960 hundredths of a
\* degree for a Word of 2^32, and by exactly that with a dig_T3 that is not
\* negative.
THEOREM ColdReadsHot ==
  ASSUME NEW adc \in Nat, NEW T1 \in Nat, NEW T2 \in Nat, NEW T3 \in Nat,
         T2 < 32768, T3 < 65536, Fits(adc, T1, T2, T3),
         Linear(adc, T1) * T2 < 0
  PROVE  LET sheet == Hundredths(SheetFine(adc, T1, T2, T3))
             gain  == 5 * (Word \div 524288)
         IN  /\ Temperature(adc, T1, T2, T3) >= sheet + gain
             /\ T3 < 32768 => Temperature(adc, T1, T2, T3) = sheet + gain
<1>1. PICK w \in Int : w = Word \div 524288 /\ 256 * w = Word \div 2048
  <2>1. 0 \in Int
    OBVIOUS
  <2> QED
    BY <2>1, ShiftedGain, SMT
<1>2. PICK s \in Int : s = SheetFine(adc, T1, T2, T3)
  BY SheetFineIsInt, SMT
<1>3. PICK x \in Nat : x = (Distance(adc, T1) * Distance(adc, T1)) \div 4096
  <2>1. PICK d \in Int : d = Distance(adc, T1)
    BY SMT DEF Distance
  <2>2. d * d \in Nat
    OBVIOUS
  <2> QED
    BY <2>1, <2>2, SMT
<1>4. PICK e \in Nat : e = IF T3 < 32768 THEN 0 ELSE 4 * x
  BY SMT
<1>5. FineError(adc, T1, T2, T3) = 256 * w + e
  BY <1>1, <1>3, <1>4, SMT DEF FineError
<1>6. TFine(adc, T1, T2, T3) = s + (256 * w + e)
  BY <1>2, <1>5, FineErrorIsExact, SMT
<1>7. ((s + (256 * w + e)) * 5 + 128) \div 256 = ((s + e) * 5 + 128) \div 256 + 5 * w
  BY SMT
<1>8. ((s + e) * 5 + 128) \div 256 >= (s * 5 + 128) \div 256
  BY SMT
<1>9. Temperature(adc, T1, T2, T3) = ((s + e) * 5 + 128) \div 256 + 5 * w
  BY <1>6, <1>7, SMT DEF Temperature, Hundredths
<1>10. Hundredths(SheetFine(adc, T1, T2, T3)) = (s * 5 + 128) \div 256
  BY <1>2, SMT DEF Hundredths
<1>11. T3 < 32768 => e = 0
  BY <1>4, SMT
<1>12. PICK h \in Int, k \in Int :
         h = ((s + e) * 5 + 128) \div 256 /\ k = (s * 5 + 128) \div 256
  BY SMT
<1>13. h >= k /\ (T3 < 32768 => h = k)
  <2>1. CASE T3 < 32768
    BY <1>11, <1>12, <2>1, SMT
  <2>2. CASE ~(T3 < 32768)
    BY <1>8, <1>12, <2>2, SMT
  <2> QED
    BY <2>1, <2>2
<1>14. /\ Temperature(adc, T1, T2, T3) = h + 5 * w
       /\ Hundredths(SheetFine(adc, T1, T2, T3)) = k
  BY <1>9, <1>10, <1>12
<1>15. /\ Temperature(adc, T1, T2, T3)
            >= Hundredths(SheetFine(adc, T1, T2, T3)) + 5 * (Word \div 524288)
       /\ T3 < 32768 =>
            Temperature(adc, T1, T2, T3)
            = Hundredths(SheetFine(adc, T1, T2, T3)) + 5 * (Word \div 524288)
  <2>1. h + 5 * w >= k + 5 * w /\ (T3 < 32768 => h + 5 * w = k + 5 * w)
    BY <1>13
  <2> QED
    BY <1>1, <1>14, <2>1
<1> QED
  BY <1>15

\* Whatever the sensor measures and whatever its calibration, the drivers never
\* report a temperature below zero.
THEOREM NeverBelowZero ==
  ASSUME NEW adc \in Nat, NEW T1 \in Nat, NEW T2 \in Nat, NEW T3 \in Nat
  PROVE  Temperature(adc, T1, T2, T3) >= 0
<1>1. PICK l \in Int, d \in Int : l = Linear(adc, T1) /\ d = Distance(adc, T1)
  BY SMT DEF Linear, Distance
<1>2. ASSUME NEW x \in Int PROVE Wrapped(x) \in Nat
  <2>1. PICK k \in Int, m \in Int : m = Wrapped(x) /\ 0 <= m
    BY WrappedSplits, SMT
  <2> QED
    BY <2>1, SMT
<1>3. PICK y \in Nat : y = Wrapped(Wrapped(l) * T2)
  <2>1. Wrapped(l) * T2 \in Int
    BY <1>1, <1>2, SMT
  <2> QED
    BY <1>2, <2>1, SMT
<1>4. PICK q \in Nat : q = Wrapped(Wrapped(d) * Wrapped(d))
  <2>1. Wrapped(d) * Wrapped(d) \in Int
    BY <1>1, <1>2, SMT
  <2> QED
    BY <1>2, <2>1, SMT
<1>5. PICK x \in Nat : x = q \div 4096
  BY SMT
<1>6. PICK z \in Nat : z = Wrapped(x * T3)
  <2>1. x * T3 \in Int
    OBVIOUS
  <2> QED
    BY <1>2, <2>1, SMT
<1>7. TFine(adc, T1, T2, T3) = y \div 2048 + z \div 16384
  BY <1>1, <1>3, <1>4, <1>5, <1>6, SMT DEF TFine, Var1, Var2, Squared
<1>8. PICK f \in Nat : f = y \div 2048 + z \div 16384
  <2>1. y \div 2048 \in Nat /\ z \div 16384 \in Nat
    BY SMT
  <2> QED
    BY <2>1, SMT
<1>9. (f * 5 + 128) \div 256 >= 0
  BY SMT
<1> QED
  BY <1>7, <1>8, <1>9, SMT DEF Temperature, Hundredths
-----------------------------------------------------------------------------
(* The reading of the registers by bmp280.c and bmp280_spi_simple.c.       *)

RegCalls ==
    [at : {"out", "mode", "adc", "calib", "done"}, chan : IioChannels, bytes : Seq(Int),
     calib : {"none", "T", "P", "garbled", "uninit"}, error : BOOLEAN, failed : BOOLEAN]

\* The bytes are of conversions that have ended, in their order.
Measured(bytes) ==
    \A j, k \in 1..Len(bytes) :
       /\ 0 <= bytes[k] /\ bytes[k] <= conversion
       /\ j <= k => bytes[j] <= bytes[k]

\* How far a call has come in its buffers, and what it may rely on.
SpiReading(c) ==
    /\ c.at # "out" => ~asleep
    /\ c.at # "mode" /\ ~c.error
    /\ c.at = "adc" => Len(c.bytes) < 3
    /\ c.at \in {"calib", "done"} => Len(c.bytes) = 3
    /\ ~c.failed => Measured(c.bytes)
    /\ c.at = "done" => c.calib = IF c.failed THEN c.calib
                                  ELSE IF c.chan = "temp" THEN "T" ELSE "P"
    /\ c.calib \in {"garbled", "uninit"} => c.failed

I2cReading(c) ==
    /\ c.at \in {"adc", "calib", "done"} /\ c.chan = "temp" /\ ~c.failed => ~asleep
    /\ c.error => c.failed /\ c.at = "done"
    /\ c.at \in {"calib", "done"} /\ ~c.error =>
         Measured(c.bytes) /\ Len(c.bytes) = 3 /\ c.bytes[1] = c.bytes[3]
    /\ c.calib \in {"garbled", "uninit"} => c.failed
    /\ c.at \in {"mode", "adc", "calib"} => c.calib = "none"
    /\ c.at = "done" /\ ~c.failed => c.calib = "T"

ReadingOK(c) == (bus = "spi" => SpiReading(c)) /\ (bus = "i2c" => I2cReading(c))

RegsInv ==
    /\ bus \in {"spi", "i2c"} /\ asleep \in BOOLEAN
    /\ conversion \in 0..MaxConversions
    /\ bus = "spi" /\ registered => ~asleep
    /\ call \in [Readers -> RegCalls]
    /\ \A r \in Readers : ReadingOK(call[r])

LEMMA NoCallIsOK == NoCall \in RegCalls /\ ReadingOK(NoCall)
<1>1. Measured(<<>>)
  BY DEF Measured
<1> QED
  BY <1>1 DEF NoCall, RegCalls, IioChannels, ReadingOK, SpiReading, I2cReading

LEMMA RegsInvInit == RegsInit => RegsInv
<1> SUFFICES ASSUME RegsInit PROVE RegsInv
  OBVIOUS
<1>1. 0 \in 0..MaxConversions
  BY Bmp280Assumption
<1> QED
  BY <1>1, NoCallIsOK, Bmp280Assumption DEF RegsInit, RegsInv

\* The sensor's conversions go on and nothing puts it to sleep again: what a call
\* has read stays as good as it was.
LEMMA ReadingStays ==
  ASSUME RegsInv, NEW c \in RegCalls, ReadingOK(c), bus' = bus,
         conversion' \in 0..MaxConversions, conversion <= conversion', asleep' \in {asleep, FALSE}
  PROVE  ReadingOK(c)'
<1>1. conversion \in Int /\ conversion' \in Int /\ c.bytes \in Seq(Int)
  BY DEF RegsInv, RegCalls
<1>2. ASSUME Measured(c.bytes) PROVE Measured(c.bytes)'
  <2>1. \A k \in 1..Len(c.bytes) : c.bytes[k] \in Int
    BY <1>1, ElementOfSeq
  <2> QED
    BY <1>1, <1>2, <2>1 DEF Measured
<1>3. SpiReading(c) => SpiReading(c)'
  BY <1>2 DEF SpiReading
<1>4. I2cReading(c) => I2cReading(c)'
  BY <1>2 DEF I2cReading
<1> QED
  BY <1>3, <1>4 DEF ReadingOK

\* The driver comes and goes, and the sensor converts.
LEMMA SensorKeeps ==
  ASSUME RegsInv, SpiProbe \/ I2cProbe \/ RegsRemove \/ Convert
  PROVE  RegsInv'
<1>1. bus' = bus /\ call' = call
  BY DEF SpiProbe, I2cProbe, RegsRemove, Convert
<1>2. conversion' \in 0..MaxConversions /\ conversion <= conversion'
  <2>1. conversion \in 0..MaxConversions /\ MaxConversions \in Nat
    BY Bmp280Assumption DEF RegsInv
  <2>2. CASE Convert
    BY <2>1, <2>2 DEF Convert
  <2>3. CASE SpiProbe \/ I2cProbe \/ RegsRemove
    <3>1. conversion' = conversion
      BY <2>3 DEF SpiProbe, I2cProbe, RegsRemove
    <3> QED
      BY <2>1, <3>1
  <2> QED
    BY <2>2, <2>3
<1>3. asleep' \in {asleep, FALSE} /\ asleep' \in BOOLEAN
  BY DEF SpiProbe, I2cProbe, RegsRemove, Convert, RegsInv
<1>4. bus = "spi" /\ registered' => ~asleep'
  BY <1>3 DEF SpiProbe, I2cProbe, RegsRemove, Convert, RegsInv
<1>5. ASSUME NEW r \in Readers PROVE ReadingOK(call[r])'
  <2>1. PICK c \in RegCalls : c = call[r] /\ ReadingOK(c)
    BY DEF RegsInv
  <2>2. ReadingOK(c)'
    BY <1>1, <1>2, <1>3, <2>1, ReadingStays
  <2> QED
    BY <1>1, <2>1, <2>2
<1> QED
  BY <1>1, <1>2, <1>3, <1>4, <1>5 DEF RegsInv

\* A step of a call; only I2cMode touches the sensor.
LEMMA CallKeeps ==
  ASSUME RegsInv, NEW r \in Readers, NEW c \in RegCalls, Goes(r, c), ReadingOK(c)',
         UNCHANGED <<bus, registered, conversion>>, asleep' \in {asleep, FALSE}
  PROVE  RegsInv'
<1>1. conversion \in 0..MaxConversions /\ conversion <= conversion
  BY DEF RegsInv
<1>2. call' \in [Readers -> RegCalls] /\ call'[r] = c
        /\ \A q \in Readers \ {r} : call'[q] = call[q]
  BY DEF Goes, RegsInv
<1>3. ASSUME NEW q \in Readers, q # r PROVE ReadingOK(call[q])'
  <2>1. PICK d \in RegCalls : d = call[q] /\ ReadingOK(d)
    BY DEF RegsInv
  <2>2. ReadingOK(d)'
    BY <1>1, <2>1, ReadingStays
  <2> QED
    BY <1>2, <1>3, <2>1, <2>2
<1>4. ReadingOK(call[r])'
  BY <1>2
<1>5. asleep' \in BOOLEAN /\ (bus' = "spi" /\ registered' => ~asleep')
  <2>1. CASE asleep' = asleep
    BY <2>1 DEF RegsInv
  <2>2. CASE asleep' = FALSE
    BY <2>2
  <2> QED
    BY <2>1, <2>2
<1>6. \A q \in Readers : ReadingOK(call[q])'
  BY <1>3, <1>4
<1> QED
  BY <1>1, <1>2, <1>5, <1>6 DEF RegsInv

LEMMA BeginKeeps ==
  ASSUME RegsInv, NEW r \in Readers, NEW ch \in IioChannels, SpiBegin(r, ch) \/ I2cBegin(r, ch)
  PROVE  RegsInv'
<1>1. PICK p \in {"adc", "mode"} :
        /\ Goes(r, [NoCall EXCEPT !.at = p, !.chan = ch])
        /\ UNCHANGED <<bus, registered, conversion, asleep>>
        /\ bus = "spi" => p = "adc" /\ ~asleep
        /\ bus = "i2c" /\ ch = "temp" => p = "mode"
  BY DEF SpiBegin, I2cBegin, RegsInv
<1>c. PICK c : c = [NoCall EXCEPT !.at = p, !.chan = ch]
  OBVIOUS
<1>2. /\ c \in RegCalls /\ c.at = p /\ c.chan = ch /\ c.bytes = <<>> /\ c.calib = "none"
      /\ ~c.error /\ ~c.failed /\ Len(c.bytes) = 0
  <2>1. c = [at |-> p, chan |-> ch, bytes |-> <<>>, calib |-> "none", error |-> FALSE,
             failed |-> FALSE]
    BY <1>c DEF NoCall
  <2>2. c \in RegCalls
    BY <2>1 DEF RegCalls
  <2> QED
    BY <2>1, <2>2
<1>3. Measured(<<>>)'
  BY DEF Measured
<1>4. ReadingOK(c)'
  BY <1>1, <1>2, <1>3 DEF ReadingOK, SpiReading, I2cReading
<1> QED
  BY <1>1, <1>c, <1>2, <1>4, CallKeeps

\* The next byte is of the conversion that has ended last.
LEMMA SpiByteKeeps ==
  ASSUME RegsInv, NEW r \in Readers, SpiByte(r)
  PROVE  RegsInv'
<1>0. PICK d \in RegCalls : d = call[r] /\ ReadingOK(d)
  BY DEF RegsInv
<1>1. PICK failed \in BOOLEAN :
        Goes(r, [d EXCEPT
               !.bytes = Append(d.bytes, IF failed THEN Errno ELSE conversion),
               !.failed = @ \/ failed,
               !.at = IF Len(Append(d.bytes, IF failed THEN Errno ELSE conversion)) = 3
                      THEN "calib" ELSE @])
  BY <1>0 DEF SpiByte
<1>2. bus = "spi" /\ d.at = "adc" /\ UNCHANGED <<bus, registered, conversion, asleep>>
  BY <1>0 DEF SpiByte, IsAt
<1> DEFINE v == IF failed THEN Errno ELSE conversion
<1>3. conversion \in Int /\ conversion >= 0
  BY Bmp280Assumption DEF RegsInv
<1>4. d.bytes \in Seq(Int) /\ Len(d.bytes) \in Nat /\ Len(d.bytes) < 3
  BY <1>0, <1>2 DEF RegCalls, ReadingOK, SpiReading
<1>5. PICK n \in Nat : n = Len(d.bytes) /\ n < 3
  BY <1>4
<1>6. v \in Int /\ (~failed => v = conversion)
  BY <1>3 DEF Errno
<1> HIDE DEF v
<1>b. PICK b : b = Append(d.bytes, v)
  OBVIOUS
<1>8. /\ b \in Seq(Int) /\ Len(b) = n + 1
      /\ \A k \in 1..(n + 1) : b[k] = IF k = n + 1 THEN v ELSE d.bytes[k]
  BY <1>4, <1>5, <1>6, <1>b
<1>p. PICK p : p = IF Len(b) = 3 THEN "calib" ELSE "adc"
  OBVIOUS
<1>9. /\ p \in {"calib", "adc"} /\ (p = "calib" => Len(b) = 3) /\ (p = "adc" => Len(b) < 3)
  BY <1>5, <1>8, <1>p
<1>c. PICK c : c = [d EXCEPT !.bytes = b, !.failed = @ \/ failed, !.at = p]
  OBVIOUS
<1>10. /\ c \in RegCalls /\ c.at = p /\ c.chan = d.chan /\ c.bytes = b /\ c.calib = d.calib
       /\ c.error = d.error /\ (c.failed <=> d.failed \/ failed)
  BY <1>8, <1>9, <1>c DEF RegCalls
<1>7. Goes(r, c)
  <2> USE DEF v
  <2> QED
    BY <1>1, <1>2, <1>b, <1>p, <1>c
<1>11. SpiReading(d)
  BY <1>0, <1>2 DEF ReadingOK
<1>12. ~d.failed /\ ~failed => Measured(b)'
  <2> SUFFICES ASSUME ~d.failed, ~failed PROVE Measured(b)'
    OBVIOUS
  <2>1. Measured(d.bytes)
    BY <1>11 DEF SpiReading
  <2>2. PICK m \in Int : m = conversion /\ 0 <= m
    BY <1>3
  <2>3. ASSUME NEW k \in 1..(n + 1)
        PROVE  b[k] \in Int /\ 0 <= b[k] /\ b[k] <= m
    <3>1. CASE k = n + 1
      BY <1>6, <1>8, <2>2, <3>1
    <3>2. CASE k \in 1..n
      <4>1. k # n + 1 /\ d.bytes[k] \in Int
        BY <1>4, <1>5, <3>2, ElementOfSeq
      <4> QED
        BY <1>5, <1>8, <2>1, <2>2, <3>2, <4>1 DEF Measured
    <3> QED
      BY <1>5, <3>1, <3>2
  <2>4. ASSUME NEW j \in 1..(n + 1), NEW k \in 1..(n + 1), j <= k
        PROVE  b[j] <= b[k]
    <3>1. CASE k = n + 1
      BY <1>6, <1>8, <2>2, <2>3, <3>1
    <3>2. CASE k \in 1..n
      <4>1. j \in 1..n /\ j # n + 1 /\ k # n + 1
        BY <1>5, <2>4, <3>2
      <4>2. b[j] = d.bytes[j] /\ b[k] = d.bytes[k] /\ d.bytes[j] <= d.bytes[k]
        BY <1>5, <1>8, <2>1, <2>4, <3>2, <4>1 DEF Measured
      <4> QED
        BY <4>2
    <3> QED
      BY <1>5, <3>1, <3>2
  <2> QED
    BY <1>2, <1>8, <2>2, <2>3, <2>4 DEF Measured
<1>13. ReadingOK(c)'
  BY <1>2, <1>9, <1>10, <1>11, <1>12 DEF ReadingOK, SpiReading
<1> QED
  BY <1>2, <1>7, <1>10, <1>13, CallKeeps

LEMMA SpiCalibKeeps ==
  ASSUME RegsInv, NEW r \in Readers, SpiCalib(r)
  PROVE  RegsInv'
<1>0. PICK d \in RegCalls : d = call[r] /\ ReadingOK(d)
  BY DEF RegsInv
<1>1. PICK failed \in BOOLEAN :
        Goes(r, [d EXCEPT !.calib = IF failed THEN "garbled"
                                    ELSE IF d.chan = "temp" THEN "T" ELSE "P",
                          !.failed = @ \/ failed, !.at = "done"])
  BY <1>0 DEF SpiCalib
<1>2. bus = "spi" /\ d.at = "calib" /\ UNCHANGED <<bus, registered, conversion, asleep>>
  BY <1>0 DEF SpiCalib, IsAt
<1> DEFINE k == IF failed THEN "garbled" ELSE IF d.chan = "temp" THEN "T" ELSE "P"
<1>c. PICK c : c = [d EXCEPT !.calib = k, !.failed = @ \/ failed, !.at = "done"]
  OBVIOUS
<1>3. Goes(r, c)
  BY <1>1, <1>c
<1>4. /\ k \in {"garbled", "T", "P"} /\ (k = "garbled" => failed)
      /\ (~failed => k = IF d.chan = "temp" THEN "T" ELSE "P")
  OBVIOUS
<1> HIDE DEF k
<1>5. /\ c \in RegCalls /\ c.at = "done" /\ c.chan = d.chan /\ c.bytes = d.bytes
      /\ c.calib = k /\ c.error = d.error /\ (c.failed <=> d.failed \/ failed)
  BY <1>4, <1>c DEF RegCalls
<1>6. SpiReading(d)
  BY <1>0, <1>2 DEF ReadingOK
<1>7. ~c.failed => Measured(c.bytes)'
  BY <1>2, <1>5, <1>6 DEF SpiReading, Measured
<1>8. ReadingOK(c)'
  BY <1>2, <1>4, <1>5, <1>6, <1>7 DEF ReadingOK, SpiReading
<1> QED
  BY <1>2, <1>3, <1>5, <1>8, CallKeeps

LEMMA I2cModeKeeps ==
  ASSUME RegsInv, NEW r \in Readers, I2cMode(r)
  PROVE  RegsInv'
<1>0. PICK d \in RegCalls : d = call[r] /\ ReadingOK(d)
  BY DEF RegsInv
<1>1. PICK failed \in BOOLEAN :
        /\ asleep' \in IF failed THEN {asleep, FALSE} ELSE {FALSE}
        /\ Goes(r, [d EXCEPT !.failed = failed, !.at = "adc"])
  BY <1>0 DEF I2cMode
<1>2. bus = "i2c" /\ d.at = "mode" /\ UNCHANGED <<bus, registered, conversion>>
  BY <1>0 DEF I2cMode, IsAt
<1>3. asleep' \in {asleep, FALSE} /\ (~failed => ~asleep')
  BY <1>1
<1>c. PICK c : c = [d EXCEPT !.failed = failed, !.at = "adc"]
  OBVIOUS
<1>4. Goes(r, c)
  BY <1>1, <1>c
<1>5. /\ c \in RegCalls /\ c.at = "adc" /\ c.chan = d.chan
      /\ c.calib = d.calib /\ c.error = d.error /\ c.failed = failed
  BY <1>c DEF RegCalls
<1>6. I2cReading(d)
  BY <1>0, <1>2 DEF ReadingOK
<1>8. ReadingOK(c)'
  BY <1>2, <1>3, <1>5, <1>6 DEF ReadingOK, I2cReading
<1> QED
  BY <1>2, <1>3, <1>4, <1>5, <1>8, CallKeeps

LEMMA I2cBurstKeeps ==
  ASSUME RegsInv, NEW r \in Readers, I2cBurst(r)
  PROVE  RegsInv'
<1>0. PICK d \in RegCalls : d = call[r] /\ ReadingOK(d)
  BY DEF RegsInv
<1>2. bus = "i2c" /\ d.at = "adc" /\ UNCHANGED <<bus, registered, conversion, asleep>>
  BY <1>0 DEF I2cBurst, IsAt
<1>3. I2cReading(d)
  BY <1>0, <1>2 DEF ReadingOK
<1>4. conversion \in Int /\ 0 <= conversion
  BY Bmp280Assumption DEF RegsInv
<1>5. CASE Goes(r, [d EXCEPT !.bytes = [k \in 1..3 |-> conversion], !.at = "calib"])
  <2>b. PICK b : b = [k \in 1..3 |-> conversion]
    OBVIOUS
  <2>c. PICK c : c = [d EXCEPT !.bytes = b, !.at = "calib"]
    OBVIOUS
  <2>1. b \in Seq(Int) /\ Len(b) = 3 /\ \A k \in 1..3 : b[k] = conversion
    BY <1>4, <2>b
  <2>2. Goes(r, c)
    BY <1>5, <2>b, <2>c
  <2>3. /\ c \in RegCalls /\ c.at = "calib" /\ c.chan = d.chan /\ c.bytes = b
        /\ c.calib = d.calib /\ c.error = d.error /\ c.failed = d.failed
    BY <2>1, <2>c DEF RegCalls
  <2>4. Measured(b)'
    BY <1>2, <1>4, <2>1 DEF Measured
  <2>5. b[1] = b[3]
    BY <2>1
  <2>6. ReadingOK(c)'
    BY <1>2, <1>3, <2>1, <2>3, <2>4, <2>5 DEF ReadingOK, I2cReading
  <2> QED
    BY <1>2, <2>2, <2>3, <2>6, CallKeeps
<1>6. CASE Goes(r, [d EXCEPT !.error = TRUE, !.failed = TRUE, !.at = "done"])
  <2>c. PICK c : c = [d EXCEPT !.error = TRUE, !.failed = TRUE, !.at = "done"]
    OBVIOUS
  <2>1. /\ c \in RegCalls /\ c.at = "done" /\ c.calib = d.calib /\ c.error /\ c.failed
    BY <2>c DEF RegCalls
  <2>2. Goes(r, c)
    BY <1>6, <2>c
  <2>3. ReadingOK(c)'
    BY <1>2, <1>3, <2>1 DEF ReadingOK, I2cReading
  <2> QED
    BY <1>2, <2>1, <2>2, <2>3, CallKeeps
<1> QED
  BY <1>0, <1>5, <1>6 DEF I2cBurst

LEMMA I2cCalibKeeps ==
  ASSUME RegsInv, NEW r \in Readers, I2cCalib(r)
  PROVE  RegsInv'
<1>0. PICK d \in RegCalls : d = call[r] /\ ReadingOK(d)
  BY DEF RegsInv
<1>1. PICK failed \in BOOLEAN :
        Goes(r, [d EXCEPT !.calib = IF failed THEN "uninit" ELSE "T",
                          !.failed = @ \/ failed, !.at = "done"])
  BY <1>0 DEF I2cCalib
<1>2. bus = "i2c" /\ d.at = "calib" /\ UNCHANGED <<bus, registered, conversion, asleep>>
  BY <1>0 DEF I2cCalib, IsAt
<1> DEFINE k == IF failed THEN "uninit" ELSE "T"
<1>c. PICK c : c = [d EXCEPT !.calib = k, !.failed = @ \/ failed, !.at = "done"]
  OBVIOUS
<1>3. Goes(r, c)
  BY <1>1, <1>c
<1>4. k \in {"uninit", "T"} /\ (k = "uninit" => failed) /\ (~failed => k = "T")
  OBVIOUS
<1> HIDE DEF k
<1>5. /\ c \in RegCalls /\ c.at = "done" /\ c.chan = d.chan /\ c.bytes = d.bytes
      /\ c.calib = k /\ c.error = d.error /\ (c.failed <=> d.failed \/ failed)
  BY <1>4, <1>c DEF RegCalls
<1>6. I2cReading(d) /\ ~d.error
  BY <1>0, <1>2 DEF ReadingOK, I2cReading
<1>7. Measured(c.bytes)' /\ Len(c.bytes) = 3 /\ c.bytes[1] = c.bytes[3]
  BY <1>2, <1>5, <1>6 DEF I2cReading, Measured
<1>8. ReadingOK(c)'
  BY <1>2, <1>4, <1>5, <1>6, <1>7 DEF ReadingOK, I2cReading
<1> QED
  BY <1>2, <1>3, <1>5, <1>8, CallKeeps

LEMMA RegsInvStep == RegsInv /\ [RegsNext]_regsVars => RegsInv'
<1> SUFFICES ASSUME RegsInv, [RegsNext]_regsVars PROVE RegsInv'
  OBVIOUS
<1>1. ASSUME NEW r \in Readers, RegsReturn(r) PROVE RegsInv'
  <2>1. Goes(r, NoCall) /\ UNCHANGED <<bus, registered, conversion, asleep>>
    BY <1>1 DEF RegsReturn
  <2>2. ReadingOK(NoCall)'
    BY <2>1, NoCallIsOK DEF ReadingOK, SpiReading, I2cReading, Measured
  <2> QED
    BY <2>1, <2>2, NoCallIsOK, CallKeeps
<1>2. CASE UNCHANGED regsVars
  BY <1>2 DEF regsVars, RegsInv, ReadingOK, SpiReading, I2cReading, Measured
<1> QED
  BY <1>1, <1>2, SensorKeeps, BeginKeeps, SpiByteKeeps, SpiCalibKeeps, I2cModeKeeps,
     I2cBurstKeeps, I2cCalibKeeps DEF RegsNext

LEMMA RegsInvariant == RegsSpec => []RegsInv
  BY RegsInvInit, RegsInvStep, PTL DEF RegsSpec

\* A call whose transfers all succeeded has the bytes of one conversion, or in the
\* byte-wise driver of conversions in their order, the calibration its channel is
\* given, and a temperature only of a sensor that is awake: for any number of
\* readers and of conversions meanwhile.
THEOREM GoodTransfersRead == RegsSpec => []GoodReading
<1>1. RegsInv => GoodReading
  <2> SUFFICES ASSUME RegsInv, NEW r \in Readers, call[r].at = "done", ~call[r].failed
               PROVE  /\ \A j, k \in 1..3 : j <= k => call[r].bytes[j] <= call[r].bytes[k]
                      /\ bus = "i2c" => call[r].bytes[1] = call[r].bytes[3]
                      /\ call[r].calib = IF call[r].chan = "pressure" /\ bus = "spi" THEN "P"
                                         ELSE "T"
                      /\ call[r].chan = "temp" => ~asleep
    BY DEF GoodReading
  <2>1. PICK c \in RegCalls : c = call[r] /\ ReadingOK(c)
    BY DEF RegsInv
  <2>2. c.chan \in {"temp", "pressure"}
    BY DEF RegCalls, IioChannels
  <2>3. Measured(c.bytes) /\ Len(c.bytes) = 3
    BY <2>1 DEF RegsInv, ReadingOK, SpiReading, I2cReading
  <2>4. \A j, k \in 1..3 : j <= k => c.bytes[j] <= c.bytes[k]
    BY <2>3 DEF Measured
  <2> QED
    BY <2>1, <2>2, <2>4 DEF RegsInv, ReadingOK, SpiReading, I2cReading
<1> QED
  BY <1>1, RegsInvariant, PTL

\* A call reports an error only if its measurement has failed, and in the I2C
\* driver a value it returns is made of measured bytes, even if the set-up of the
\* mode or the calibration has failed unnoticed.
THEOREM ErrorsAreMeasured == RegsSpec => []ErrorsStayPut
<1>1. RegsInv => ErrorsStayPut
  <2> SUFFICES ASSUME RegsInv, NEW r \in Readers, call[r].at = "done"
               PROVE  /\ call[r].error => call[r].failed /\ bus = "i2c"
                      /\ ~call[r].error /\ bus = "i2c" =>
                           \A k \in 1..3 : call[r].bytes[k] \in 0..MaxConversions
                      /\ call[r].calib \in {"garbled", "uninit"} => call[r].failed
    BY DEF ErrorsStayPut
  <2>1. PICK c \in RegCalls : c = call[r] /\ ReadingOK(c)
    BY DEF RegsInv
  <2>2. ASSUME ~c.error, bus = "i2c", NEW k \in 1..3 PROVE c.bytes[k] \in 0..MaxConversions
    <3>1. Measured(c.bytes) /\ Len(c.bytes) = 3
      BY <2>1, <2>2 DEF ReadingOK, I2cReading
    <3>2. c.bytes[k] \in Int /\ 0 <= c.bytes[k] /\ c.bytes[k] <= conversion
      BY <3>1, ElementOfSeq DEF RegCalls, Measured
    <3>3. conversion \in 0..MaxConversions /\ MaxConversions \in Nat
      BY Bmp280Assumption DEF RegsInv
    <3> QED
      BY <3>2, <3>3
  <2> QED
    BY <2>1, <2>2 DEF RegsInv, ReadingOK, SpiReading, I2cReading
<1> QED
  BY <1>1, RegsInvariant, PTL
=============================================================================
