\* Two consumers of different pins, no errors.
CONSTANTS
    c1 = c1
    c2 = c2
    p1 = p1
    p2 = p2
    p3 = p3
    Consumers = {c1, c2}
    Pins = {p1, p2, p3}
    PinsOf <- TwoOwners
    Straps = {}
    I2cErrors = FALSE
    Rebinding = FALSE
    NoRequest = NoRequest
SPECIFICATION Spec
INVARIANT ShadowIsPort
\* A device whose gpio_chip was not registered stops here.
CHECK_DEADLOCK FALSE
