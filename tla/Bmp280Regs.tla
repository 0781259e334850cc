----------------------------- MODULE Bmp280Regs -----------------------------
(***************************************************************************)
(* The two BMP280 drivers that read the sensor's registers without a       *)
(* message of their own: bmp280_spi/bmp280_spi_simple.c, one exchange per  *)
(* byte, and bmp280/bmp280.c, one I2C transfer per block.  Both are IIO    *)
(* drivers: any number of threads may be inside read_raw, whose buffers    *)
(* are on the stack; what they share is the sensor.                        *)
(*                                                                         *)
(* A byte of a measurement is the number of the conversion it comes from.  *)
(* The calibration is the block it was read from.  The formulas are not    *)
(* modelled here.  The sensor and the IIO core are external.               *)
(***************************************************************************)
EXTENDS Integers, Sequences

CONSTANTS
    Readers,            \* the threads that read a channel
    Buses,              \* the drivers: a subset of {"spi", "i2c"}
    MaxConversions      \* a bound on the conversions of the sensor

ASSUME Bmp280Assumption ==
    /\ Buses \subseteq {"spi", "i2c"}
    /\ MaxConversions \in Nat

IioChannels == {"temp", "pressure"}

\* What stands for a measurement byte is its conversion, or a negative error
\* number cut to a byte, or nothing that was ever written.
Errno == -1
Uninit == -2

\* What stands for the calibration is "T" or "P", the block at 0x88 or the one
\* at 0x8E, or "garbled", some bytes of it error numbers, or "uninit", what the
\* stack held.

VARIABLES
    bus,            \* which driver it is
    registered,     \* whether read_raw can be called
    regmap_ok,      \* whether devm_regmap_init_i2c has returned a regmap
    asleep,         \* whether the sensor is in sleep mode, as after a reset
    conversion,     \* the conversion in the data registers, 0 after a reset
    call,           \* the call of read_raw of each thread
    oops            \* whether a NULL or error pointer was followed

regsVars == <<bus, registered, regmap_ok, asleep, conversion, call, oops>>

NoCall == [at |-> "out", chan |-> "temp", bytes |-> <<>>, calib |-> "none",
           error |-> FALSE, failed |-> FALSE]

RegsInit ==
    /\ bus \in Buses
    /\ registered = FALSE /\ regmap_ok = FALSE /\ oops = FALSE
    /\ asleep = TRUE /\ conversion = 0
    /\ call = [r \in Readers |-> NoCall]

\* The next conversion ends.
Convert ==
    /\ ~asleep /\ conversion < MaxConversions
    /\ conversion' = conversion + 1
    /\ UNCHANGED <<bus, registered, regmap_ok, asleep, call, oops>>
-----------------------------------------------------------------------------
\* bmp280_probe of the SPI driver: an error of spi_setup or of one of the two
\* writes is returned; after a successful registration there is no return
\* statement, and the driver core may take the result for an error, which
\* takes the registration back.
SpiProbe ==
    /\ bus = "spi" /\ ~registered /\ ~oops
    /\ \/ UNCHANGED asleep /\ registered' = FALSE
       \/ asleep' = FALSE /\ registered' \in BOOLEAN
    /\ UNCHANGED <<bus, regmap_ok, conversion, call, oops>>

\* bmp280_probe of the I2C driver: neither the allocation nor the regmap nor
\* the two writes that start the sensor are checked, the registration is.
I2cProbe ==
    /\ bus = "i2c" /\ ~registered /\ ~oops
    /\ \/ oops' = TRUE /\ UNCHANGED <<registered, regmap_ok, asleep>>
       \/ /\ regmap_ok' \in BOOLEAN
          /\ asleep' \in {asleep, FALSE}
          /\ registered' \in BOOLEAN
          /\ UNCHANGED oops
    /\ UNCHANGED <<bus, conversion, call>>

\* bmp280_remove; unregistering waits for the calls.
RegsRemove ==
    /\ registered /\ \A r \in Readers : call[r].at = "out"
    /\ registered' = FALSE
    /\ UNCHANGED <<bus, regmap_ok, asleep, conversion, call, oops>>
-----------------------------------------------------------------------------
(* bmp280_read_raw of the SPI driver.                                      *)

IsAt(r, place) == call[r].at = place /\ ~oops
Goes(r, c) == call' = [call EXCEPT ![r] = c]

SpiBegin(r, ch) ==
    /\ bus = "spi" /\ registered /\ IsAt(r, "out")
    /\ Goes(r, [NoCall EXCEPT !.at = "adc", !.chan = ch])
    /\ UNCHANGED <<bus, registered, regmap_ok, asleep, conversion, oops>>

\* spi_w8r8 of one of the three data registers, its result stored in a byte.
SpiByte(r) ==
    /\ bus = "spi" /\ IsAt(r, "adc")
    /\ \E failed \in BOOLEAN :
         LET c == call[r]
             bytes == Append(c.bytes, IF failed THEN Errno ELSE conversion)
         IN  Goes(r, [c EXCEPT !.bytes = bytes, !.failed = @ \/ failed,
                              !.at = IF Len(bytes) = 3 THEN "calib" ELSE @])
    /\ UNCHANGED <<bus, registered, regmap_ok, asleep, conversion, oops>>

\* spi_w8r8 of the 6 or 18 calibration registers, which never change.
SpiCalib(r) ==
    /\ bus = "spi" /\ IsAt(r, "calib")
    /\ \E failed \in BOOLEAN :
         Goes(r, [call[r] EXCEPT
                   !.calib = IF failed THEN "garbled"
                             ELSE IF call[r].chan = "temp" THEN "T" ELSE "P",
                   !.failed = @ \/ failed, !.at = "done"])
    /\ UNCHANGED <<bus, registered, regmap_ok, asleep, conversion, oops>>
-----------------------------------------------------------------------------
(* bmp280_read_raw of the I2C driver.                                      *)

\* Mutant: the temperature is read without setting the mode again.
I2cBeginAtOnce(r, ch) ==
    /\ bus = "i2c" /\ registered /\ IsAt(r, "out")
    /\ oops' = ~regmap_ok
    /\ Goes(r, [NoCall EXCEPT !.at = "adc", !.chan = ch])
    /\ UNCHANGED <<bus, registered, regmap_ok, asleep, conversion>>

\* The first access follows the regmap pointer, which may be an error number.
I2cBegin(r, ch) ==
    /\ bus = "i2c" /\ registered /\ IsAt(r, "out")
    /\ oops' = ~regmap_ok
    /\ Goes(r, [NoCall EXCEPT !.at = IF ch = "temp" THEN "mode" ELSE "adc",
                             !.chan = ch])
    /\ UNCHANGED <<bus, registered, regmap_ok, asleep, conversion>>

\* The temperature starts the sensor again; both results are overwritten.
I2cMode(r) ==
    /\ bus = "i2c" /\ IsAt(r, "mode")
    /\ \E failed \in BOOLEAN :
         /\ asleep' \in IF failed THEN {asleep, FALSE} ELSE {FALSE}
         /\ Goes(r, [call[r] EXCEPT !.failed = failed, !.at = "adc"])
    /\ UNCHANGED <<bus, registered, regmap_ok, conversion, oops>>

\* Mutant: the result of the first block read is not looked at.
I2cBurstUnchecked(r) ==
    /\ bus = "i2c" /\ IsAt(r, "adc")
    /\ \E failed \in BOOLEAN :
         Goes(r, [call[r] EXCEPT
                   !.bytes = [k \in 1..3 |-> IF failed THEN Uninit ELSE conversion],
                   !.failed = @ \/ failed, !.at = "calib"])
    /\ UNCHANGED <<bus, registered, regmap_ok, asleep, conversion, oops>>

\* regmap_bulk_read of the three data registers, which the sensor holds still
\* during a transfer; its error ends the call.
I2cBurst(r) ==
    /\ bus = "i2c" /\ IsAt(r, "adc")
    /\ \/ Goes(r, [call[r] EXCEPT !.bytes = [k \in 1..3 |-> conversion],
                                 !.at = "calib"])
       \/ Goes(r, [call[r] EXCEPT !.error = TRUE, !.failed = TRUE, !.at = "done"])
    /\ UNCHANGED <<bus, registered, regmap_ok, asleep, conversion, oops>>

\* regmap_bulk_read of the calibration, its result not looked at: both channels
\* start at BMP280_DIG_T.
I2cCalib(r) ==
    /\ bus = "i2c" /\ IsAt(r, "calib")
    /\ \E failed \in BOOLEAN :
         Goes(r, [call[r] EXCEPT !.calib = IF failed THEN "uninit" ELSE "T",
                                !.failed = @ \/ failed, !.at = "done"])
    /\ UNCHANGED <<bus, registered, regmap_ok, asleep, conversion, oops>>

\* The call returns its value or its error.
RegsReturn(r) ==
    /\ IsAt(r, "done")
    /\ Goes(r, NoCall)
    /\ UNCHANGED <<bus, registered, regmap_ok, asleep, conversion, oops>>

RegsNext ==
    \/ SpiProbe \/ I2cProbe \/ RegsRemove \/ Convert
    \/ \E r \in Readers, ch \in IioChannels : SpiBegin(r, ch) \/ I2cBegin(r, ch)
    \/ \E r \in Readers :
         SpiByte(r) \/ SpiCalib(r) \/ I2cMode(r) \/ I2cBurst(r) \/ I2cCalib(r)
         \/ RegsReturn(r)

RegsSpec == RegsInit /\ [][RegsNext]_regsVars
-----------------------------------------------------------------------------
\* What a call whose transfers all succeeded returns: the bytes of one
\* conversion, except that the byte-wise driver may mix bytes of conversions
\* that ended while it read, in their order; the calibration of the channel,
\* except that the I2C driver takes the block of the temperature for the
\* pressure; and a temperature only from a sensor that is awake.
GoodReading ==
    \A r \in Readers :
        LET c == call[r]
        IN  c.at = "done" /\ ~c.failed =>
              /\ \A j, k \in 1..3 : j <= k => c.bytes[j] <= c.bytes[k]
              /\ bus = "i2c" => c.bytes[1] = c.bytes[3]
              /\ c.calib = IF c.chan = "pressure" /\ bus = "spi" THEN "P" ELSE "T"
              /\ c.chan = "temp" => ~asleep

\* What a failed transfer may do: the I2C driver reports it when it was the
\* measurement, so that a value it returns has measured bytes; the SPI driver
\* reports none.  Neither reports a failure that did not happen.
ErrorsStayPut ==
    \A r \in Readers :
        LET c == call[r]
        IN  c.at = "done" =>
              /\ c.error => c.failed /\ bus = "i2c"
              /\ ~c.error /\ bus = "i2c" => \A k \in 1..3 : c.bytes[k] \in 0..MaxConversions
              /\ c.calib \in {"garbled", "uninit"} => c.failed
=============================================================================
