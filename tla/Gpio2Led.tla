------------------------------- MODULE Gpio2Led -------------------------------
(***************************************************************************)
(* The device file of GPIO_drv/gpio2.c: driver_write takes one byte from   *)
(* its caller and sets the LED to it, driver_read returns the level of the *)
(* button.  The byte is a local variable that nothing initialises.         *)
(***************************************************************************)
EXTENDS Integers

CONSTANTS LedUsers      \* the processes inside the driver

\* What the byte may be: a digit, a zero byte, or another character.
Digits == {"0", "1"}
LedBytes == Digits \cup {"zero", "other"}

VARIABLES
    led,            \* the level of GPIO_W
    button,         \* the level of GPIO_R
    led_io          \* the call each process is in

ledVars == <<led, button, led_io>>

NoLedIo == [op |-> "none", count |-> 0, value |-> "zero", delta |-> 0]

\* ModuleInit has made GPIO_W an output, low.
LedInit ==
    /\ led = "0"
    /\ button \in Digits
    /\ led_io = [u \in LedUsers |-> NoLedIo]

\* driver_write up to copy_from_user: with a count of 0 nothing is copied and
\* the value is what the stack held; from a page that is missing it is zero.
LedWrite(u, count, byte) ==
    /\ led_io[u].op = "none"
    /\ \E copied \in 0..count, left \in LedBytes :
         led_io' = [led_io EXCEPT ![u] =
           [op |-> "write", count |-> count, delta |-> copied,
            value |-> IF copied = 1 THEN byte
                      ELSE IF count = 1 THEN "zero" ELSE left]]
    /\ UNCHANGED <<led, button>>

\* Mutant: whatever is not the digit 0 turns the LED on.
LedSetNonzero(u) ==
    /\ led_io[u].op = "write"
    /\ led' = IF led_io[u].value = "0" THEN "0" ELSE "1"
    /\ led_io' = [led_io EXCEPT ![u] = NoLedIo]
    /\ UNCHANGED button

\* The rest of driver_write: only a digit reaches the pin.
LedSet(u) ==
    /\ led_io[u].op = "write"
    /\ led' = IF led_io[u].value \in Digits THEN led_io[u].value ELSE led
    /\ led_io' = [led_io EXCEPT ![u] = NoLedIo]
    /\ UNCHANGED button

\* driver_read: the level is sampled and becomes the first character.
LedRead(u) ==
    /\ led_io[u].op = "none"
    /\ led_io' = [led_io EXCEPT ![u] = [op |-> "read", count |-> 1,
                                        value |-> button, delta |-> 1]]
    /\ UNCHANGED <<led, button>>

LedReadEnds(u) ==
    /\ led_io[u].op = "read"
    /\ led_io' = [led_io EXCEPT ![u] = NoLedIo]
    /\ UNCHANGED <<led, button>>

\* Somebody presses or releases the button.
Press ==
    /\ button' \in Digits \ {button}
    /\ UNCHANGED <<led, led_io>>

LedNext ==
    \/ Press
    \/ \E u \in LedUsers :
         \/ \E count \in 0..1, byte \in LedBytes : LedWrite(u, count, byte)
         \/ LedSet(u) \/ LedRead(u) \/ LedReadEnds(u)

LedSpec == LedInit /\ [][LedNext]_ledVars
-----------------------------------------------------------------------------
\* What a write reports and what it does go together, whoever else writes: a
\* write that reports a byte taken has set the LED to that digit or left it
\* alone, and one that reports none has left it alone, unless its count was 0,
\* when the uninitialised byte may set it.
LedAsReported ==
    [][\A u \in LedUsers :
         led_io[u].op = "write" /\ led_io'[u].op = "none" /\ led' # led =>
           IF led_io[u].delta = 1 THEN led_io[u].value = led' ELSE led_io[u].count = 0]_ledVars
=============================================================================
