------------------------------- MODULE Pcf8574 -------------------------------
(***************************************************************************)
(* The PCF8574 port expander driver, pcf8574_i2c_client_driver/pcf8574.c:  *)
(* a gpio_chip of quasi-bidirectional pins behind one I2C byte.  The chip  *)
(* has a single output latch and no register to read it back, so the driver*)
(* keeps a shadow of the latch, gpio_state, and writes the whole byte for  *)
(* every pin.  gpiolib calls the chip's handlers without a lock, so two    *)
(* consumers that own different pins run pcf8574_gpio_set concurrently:    *)
(* the shadow is loaded, stored, and evaluated again as the argument of    *)
(* the transfer in separate steps.  A byte is the set of its 1 bits.       *)
(***************************************************************************)
EXTENDS Naturals, FiniteSets

CONSTANTS
    Consumers,      \* the threads that call gpiolib
    Pins,           \* the pins of the chip (ngpio = 8 in the code)
    PinsOf,         \* the pins each consumer has requested
    Straps,         \* the pins that something outside may pull low
    I2cErrors,      \* whether a transfer may fail
    Rebinding,      \* whether the driver may be unbound and bound again
    NoRequest       \* the request of a consumer that is in no call

Requests == [pin : Pins, high : BOOLEAN, out : BOOLEAN]

\* gpiolib refuses a pin that somebody else has requested (-EBUSY).
ASSUME PinsAssumption ==
    /\ PinsOf \in [Consumers -> SUBSET Pins]
    /\ \A c, d \in Consumers : c # d => PinsOf[c] \cap PinsOf[d] = {}
    /\ Straps \subseteq Pins
    /\ I2cErrors \in BOOLEAN
    /\ Rebinding \in BOOLEAN
    /\ NoRequest \notin Requests

VARIABLES
    driver,         \* "unbound", "bound", or "chipless": bound, no gpio_chip
    gpio_state,     \* the shadow: the pins the driver believes to be high
    port,           \* the latch of the chip: the pins it drives high
    inputs,         \* the pins whose consumer asked for direction_input
    strap,          \* the pins that are pulled low from outside
    pc,             \* where each consumer is inside pcf8574_gpio_set
    req,            \* the request a consumer is carrying out
    reg,            \* the byte a consumer holds in a register
    asked,          \* history: the pins some call has asked to drive low
    solo,           \* history: the consumer whose call overlapped no other
    dirty           \* history: something may have parted shadow and latch

vars == <<driver, gpio_state, port, inputs, strap, pc, req, reg,
          asked, solo, dirty>>

ghosts == <<asked, solo, dirty>>

Idle(c) == pc[c] = "idle"
AllIdle == \A c \in Consumers : Idle(c)
OthersIdle(c) == \A d \in Consumers \ {c} : Idle(d)

\* Mutant: clearing a bit without the complement, gpio_state &= 1 << offset.
WithPinNoComplement(pins, r) ==
    IF r.high THEN pins \cup {r.pin} ELSE pins \cap {r.pin}

\* The byte with the bit of a request set or cleared.
WithPin(pins, r) == IF r.high THEN pins \cup {r.pin} ELSE pins \ {r.pin}

\* What pcf8574_gpio_get returns: the bit of the shadow.
GpioGet(p) == p \in gpio_state

\* The level on the pin: the weak pull-up of the chip loses against a strap.
Level(p) == p \in port /\ p \notin strap
-----------------------------------------------------------------------------
\* The chip has just been powered: its latch comes up with every pin high.
Init ==
    /\ driver = "unbound"
    /\ gpio_state = Pins
    /\ port = Pins
    /\ inputs = {}
    /\ strap = {}
    /\ pc = [c \in Consumers |-> "idle"]
    /\ req = [c \in Consumers |-> NoRequest]
    /\ reg = [c \in Consumers |-> {}]
    /\ asked = {}
    /\ solo = {}
    /\ dirty = FALSE

\* Mutant: the shadow starts as kzalloc leaves it.
ProbeZeroed ==
    /\ driver = "unbound"
    /\ gpio_state' = {}
    /\ driver' \in {"bound", "chipless"}
    /\ inputs' = {}
    /\ dirty' = (port # Pins)
    /\ UNCHANGED <<port, strap, pc, req, reg, asked, solo>>

\* pcf8574_probe.  The shadow is reset, the chip is not written.  The result
\* of devm_gpiochip_add_data is ignored: without a chip no handler is ever
\* called, and the device stays bound.  (A failed allocation changes nothing.)
Probe ==
    /\ driver = "unbound"
    /\ gpio_state' = Pins
    /\ driver' \in {"bound", "chipless"}
    /\ inputs' = {}
    /\ dirty' = (port # Pins)
    /\ UNCHANGED <<port, strap, pc, req, reg, asked, solo>>

\* pcf8574_remove, then the managed release of the gpio_chip.  The model
\* unbinds only between calls: the code has nothing that waits for them.
Remove ==
    /\ Rebinding
    /\ driver # "unbound"
    /\ AllIdle
    /\ driver' = "unbound"
    /\ UNCHANGED <<gpio_state, port, inputs, strap, pc, req, reg, ghosts>>

\* pcf8574_gpio_set is entered, by gpiolib or through direction_output, and
\* the read-modify-write of the shadow has loaded the byte and changed a bit.
SetLoad(c, r) ==
    /\ driver = "bound"
    /\ Idle(c)
    /\ r.pin \in PinsOf[c]
    /\ reg' = [reg EXCEPT ![c] = WithPin(gpio_state, r)]
    /\ req' = [req EXCEPT ![c] = r]
    /\ pc' = [pc EXCEPT ![c] = "loaded"]
    /\ asked' = IF r.high THEN asked ELSE asked \cup {r.pin}
    /\ solo' = IF OthersIdle(c) THEN {c} ELSE {}
    /\ dirty' = (dirty \/ ~OthersIdle(c))
    /\ UNCHANGED <<driver, gpio_state, port, inputs, strap>>

\* Mutant: the new byte is computed but never stored in the shadow.
SetStoreNowhere(c) ==
    /\ pc[c] = "loaded"
    /\ pc' = [pc EXCEPT ![c] = "stored"]
    /\ UNCHANGED <<driver, gpio_state, port, inputs, strap, req, reg, ghosts>>

\* The read-modify-write stores the byte.
SetStore(c) ==
    /\ pc[c] = "loaded"
    /\ gpio_state' = reg[c]
    /\ pc' = [pc EXCEPT ![c] = "stored"]
    /\ UNCHANGED <<driver, port, inputs, strap, req, reg, ghosts>>

\* The argument of i2c_smbus_write_byte: the compiler may keep the byte it
\* has just stored or load the shadow again, an unsynchronised access.
SetArgument(c) ==
    /\ pc[c] = "stored"
    /\ \E byte \in {reg[c], gpio_state} : reg' = [reg EXCEPT ![c] = byte]
    /\ pc' = [pc EXCEPT ![c] = "queued"]
    /\ UNCHANGED <<driver, gpio_state, port, inputs, strap, req, ghosts>>

\* The call returns to the consumer; direction_output reports success
\* whatever became of the transfer, so gpiolib marks the pin an output.
Return(c) ==
    /\ pc' = [pc EXCEPT ![c] = "idle"]
    /\ req' = [req EXCEPT ![c] = NoRequest]
    /\ reg' = [reg EXCEPT ![c] = {}]
    /\ inputs' = IF req[c].out THEN inputs \ {req[c].pin} ELSE inputs
    /\ solo' = solo \ {c}

\* The adapter carries out one transfer at a time and the chip latches the
\* byte.
I2cWrite(c) ==
    /\ pc[c] = "queued"
    /\ port' = reg[c]
    /\ dirty' = (dirty /\ c \notin solo)
    /\ Return(c)
    /\ UNCHANGED <<driver, gpio_state, strap, asked>>

\* Mutant: a failed transfer is tried again until it succeeds.
I2cFailRetried(c) ==
    /\ I2cErrors
    /\ pc[c] = "queued"
    /\ dirty' = TRUE
    /\ pc' = [pc EXCEPT ![c] = "stored"]
    /\ UNCHANGED <<driver, gpio_state, port, inputs, strap, req, reg, asked,
                   solo>>

\* The transfer fails; the driver does not look at the result.
I2cFail(c) ==
    /\ I2cErrors
    /\ pc[c] = "queued"
    /\ dirty' = TRUE
    /\ Return(c)
    /\ UNCHANGED <<driver, gpio_state, port, strap, asked>>

\* pcf8574_gpio_direction_input: nothing is told to the chip.
DirectionInput(c, p) ==
    /\ driver = "bound"
    /\ Idle(c)
    /\ p \in PinsOf[c]
    /\ inputs' = inputs \cup {p}
    /\ UNCHANGED <<driver, gpio_state, port, strap, pc, req, reg, ghosts>>

\* The world: a strap pin is pulled low or released.
ExternalDrive(p) ==
    /\ strap' = IF p \in strap THEN strap \ {p} ELSE strap \cup {p}
    /\ UNCHANGED <<driver, gpio_state, port, inputs, pc, req, reg, ghosts>>

Step(c) == SetStore(c) \/ SetArgument(c) \/ I2cWrite(c) \/ I2cFail(c)

Next ==
    \/ Probe
    \/ Remove
    \/ \E c \in Consumers :
         \/ \E r \in Requests : SetLoad(c, r)
         \/ Step(c)
         \/ \E p \in Pins : DirectionInput(c, p)
    \/ \E p \in Straps : ExternalDrive(p)

Spec == Init /\ [][Next]_vars

\* A thread inside a call is scheduled, and the adapter completes or times
\* out every transfer: nothing in pcf8574_gpio_set waits for anything else.
FairSpec == Spec /\ \A c \in Consumers : WF_vars(Step(c))
-----------------------------------------------------------------------------
\* Every variable has its type, and a consumer carries a request exactly
\* while it is inside pcf8574_gpio_set.
TypeOK ==
    /\ driver \in {"unbound", "bound", "chipless"}
    /\ gpio_state \subseteq Pins
    /\ port \subseteq Pins
    /\ inputs \subseteq Pins
    /\ strap \subseteq Straps
    /\ pc \in [Consumers -> {"idle", "loaded", "stored", "queued"}]
    /\ req \in [Consumers -> Requests \cup {NoRequest}]
    /\ reg \in [Consumers -> SUBSET Pins]
    /\ asked \subseteq Pins
    /\ solo \subseteq Consumers
    /\ dirty \in BOOLEAN
    /\ \A c \in Consumers : Idle(c) <=> req[c] = NoRequest

\* However the calls interleave, and whatever transfers fail, a pin that no
\* call ever asked to drive low is high in the shadow and on the chip: lost
\* updates bring back old levels, they never invent one.
NoInventedLevel == Pins \ asked \subseteq port \cap gpio_state

\* Between calls the shadow and the latch agree unless an overlap, a failed
\* transfer or a re-probe has parted them since the last call that ran alone
\* and got its byte through: one such call repairs every pin, not only its own.
SelfHealing == AllIdle /\ driver = "bound" /\ ~dirty => gpio_state = port

\* A call that no other overlaps and whose transfer succeeds drives its own pin
\* to the level it was given, and moves no other pin of the chip unless shadow
\* and latch had been parted before: the whole byte it sends is the latch with
\* one bit changed, from the first call after any probe on.
LoneCallIsOnePin ==
    [][\A c \in solo : I2cWrite(c) =>
         /\ req[c].pin \in port' <=> req[c].high
         /\ ~dirty => port' \ {req[c].pin} = port \ {req[c].pin}]_vars

\* Between calls, gpio_state is the "Current state of GPIO pins" that the
\* declaration of the field says it is.
ShadowIsPort == AllIdle /\ driver = "bound" => gpio_state = port

\* The consumer of an input pin reads the level that is on the pin.
GetReadsPin ==
    AllIdle /\ driver = "bound" => \A p \in inputs : GpioGet(p) = Level(p)

\* Every call returns, with the bus contended and transfers failing.
CallReturns == \A c \in Consumers : ~Idle(c) ~> Idle(c)

\* The driver implements a port whose pins are independent registers.
Latch == INSTANCE PinLatch WITH latch <- port, pending <- req
LatchSpec == Latch!Spec
=============================================================================
