\* Two consumers, failing transfers, rebinding and a pin pulled from outside.
CONSTANTS
    c1 = c1
    c2 = c2
    p1 = p1
    p2 = p2
    p3 = p3
    Consumers = {c1, c2}
    Pins = {p1, p2, p3}
    PinsOf <- TwoOwners
    Straps = {p3}
    I2cErrors = TRUE
    Rebinding = TRUE
    NoRequest = NoRequest
SPECIFICATION FairSpec
INVARIANTS
    NoInventedLevel
    SelfHealing
PROPERTIES
    LoneCallIsOnePin
    CallReturns
