\* read_write.c alone; its class or its device file cannot be created.
CONSTANTS
    u1 = u1
    Users = {u1}
    Driver <- AllDrivers
    Selections <- Alone
    Faulty <- Classes
SPECIFICATION Spec
INVARIANT LiveMeansRegistered
CHECK_DEADLOCK FALSE
