\* An input pin is pulled low from outside.
CONSTANTS
    c1 = c1
    c2 = c2
    p1 = p1
    p2 = p2
    p3 = p3
    Consumers = {c1}
    Pins = {p1, p2, p3}
    PinsOf <- OneOwner
    Straps = {p1}
    I2cErrors = FALSE
    Rebinding = FALSE
    NoRequest = NoRequest
SPECIFICATION Spec
INVARIANT GetReadsPin
