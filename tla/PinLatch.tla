------------------------------ MODULE PinLatch ------------------------------
(***************************************************************************)
(* What the consumers of an output port expect of its driver: every pin is *)
(* a register of its own.  A request to drive a pin stays pending for a    *)
(* while, then takes effect in one step that changes that pin and no other.*)
(* Pcf8574 is shown to implement this module when its calls do not overlap.*)
(***************************************************************************)
EXTENDS Naturals

CONSTANTS Consumers, Pins, NoRequest

VARIABLES latch,        \* the set of pins that are driven high
          pending       \* the request each consumer waits for, or NoRequest

latchVars == <<latch, pending>>

Requests == [pin : Pins, high : BOOLEAN, out : BOOLEAN]

WithPin(pins, r) == IF r.high THEN pins \cup {r.pin} ELSE pins \ {r.pin}

Init == /\ latch = Pins
        /\ pending = [c \in Consumers |-> NoRequest]

Ask(c, r) == /\ pending[c] = NoRequest
             /\ pending' = [pending EXCEPT ![c] = r]
             /\ UNCHANGED latch

TakeEffect(c) == /\ pending[c] # NoRequest
                 /\ latch' = WithPin(latch, pending[c])
                 /\ pending' = [pending EXCEPT ![c] = NoRequest]

Next == \E c \in Consumers : (\E r \in Requests : Ask(c, r)) \/ TakeEffect(c)

Spec == Init /\ [][Next]_latchVars
=============================================================================
