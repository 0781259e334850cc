----------------------------- MODULE SerdevEcho -----------------------------
(***************************************************************************)
(* The serial drivers for the HC-05 module: hc05_uart/hc05.c, which prints *)
(* what it receives, hc05/serdev.c and its copy hc05/hc05.first.draft.c,   *)
(* which send it back, and hc05/test.c, whose receive function has no      *)
(* return statement.                                                       *)
(*                                                                         *)
(* What receive_buf returns is how many of the offered bytes the driver    *)
(* has consumed.  The serial core, which is external, keeps the others and *)
(* offers them again at once; after a call that consumed nothing it waits  *)
(* until more bytes arrive.  A byte is its place in what was received.     *)
(***************************************************************************)
EXTENDS Integers, Sequences

CONSTANTS
    Variants,       \* the drivers: a subset of {"hc05", "echo", "test"}
    MaxBytes,       \* a bound on the bytes received while the driver is bound
    PortRoom,       \* the bytes that the port takes before it sends
    Greeting        \* the bytes that probe writes

ASSUME SerdevAssumption ==
    /\ Variants \subseteq {"hc05", "echo", "test"}
    /\ MaxBytes \in Nat /\ PortRoom \in Nat /\ Greeting \in Nat

VARIABLES
    driver,         \* which driver it is
    bound,          \* whether it is bound, its port open
    received,       \* the bytes that have arrived
    consumed,       \* those the driver has said it consumed
    pushed,         \* whether the serial core is offering bytes
    space,          \* the bytes the port can take now
    echoed,         \* history: the bytes the echo has sent back
    turnedAway      \* history: receive_buf last found the port without room

serdevVars == <<driver, bound, received, consumed, pushed, space, echoed, turnedAway>>

AtMost(m, n) == IF m < n THEN m ELSE n

SerdevInit ==
    /\ driver \in Variants
    /\ bound = FALSE
    /\ received = 0 /\ consumed = 0 /\ pushed = FALSE
    /\ space = PortRoom /\ echoed = <<>> /\ turnedAway = FALSE

\* hc05_probe and serdev_echo_probe: when the port can be opened, the AT
\* command or the greeting is written, as far as the port has room; test.c
\* writes nothing.  An error of serdev_device_open changes nothing.
SerdevProbe ==
    /\ ~bound
    /\ bound' = TRUE
    /\ received' = 0 /\ consumed' = 0 /\ pushed' = FALSE
    /\ echoed' = <<>> /\ turnedAway' = FALSE
    /\ space' = IF driver = "test" THEN PortRoom
                ELSE PortRoom - AtMost(Greeting, PortRoom)
    /\ UNCHANGED driver

\* Another byte arrives, and the serial core offers what it holds.
ByteArrives ==
    /\ bound /\ received < MaxBytes
    /\ received' = received + 1
    /\ pushed' = TRUE
    /\ UNCHANGED <<driver, bound, consumed, space, echoed, turnedAway>>

Offered == received - consumed

\* hc05_recv says that it has consumed one byte, whatever it was offered.
Hc05Recv ==
    /\ driver = "hc05"
    /\ consumed' = consumed + 1
    /\ pushed' = TRUE
    /\ UNCHANGED <<space, echoed>>

\* The bytes that are written back when the port takes n.
SendBack(n) == echoed \o [i \in 1..n |-> consumed + i]

\* Mutant: everything counts as consumed, whatever the port took.
EchoRecvAll ==
    /\ driver = "echo"
    /\ consumed' = received
    /\ space' = space - AtMost(Offered, space)
    /\ echoed' = SendBack(AtMost(Offered, space))
    /\ pushed' = TRUE

\* Mutant: nothing is written before the port has room for all of it.
EchoRecvWhole ==
    /\ driver = "echo"
    /\ LET n == IF Offered <= space THEN Offered ELSE 0
       IN  /\ consumed' = consumed + n
           /\ space' = space - n
           /\ echoed' = SendBack(n)
           /\ pushed' = (n > 0)

\* serdev_echo_recv returns what serdev_device_write_buf took.
EchoRecv ==
    /\ driver = "echo"
    /\ LET n == AtMost(Offered, space)
       IN  /\ consumed' = consumed + n
           /\ space' = space - n
           /\ echoed' = SendBack(n)
           /\ pushed' = (n > 0)

\* hc05_recv of test.c returns whatever its register holds; the serial core
\* takes a negative number for none and a large one for all.
TestRecv ==
    /\ driver = "test"
    /\ \E n \in 0..Offered :
         /\ consumed' = consumed + n
         /\ pushed' = (n > 0)
    /\ UNCHANGED <<space, echoed>>

\* The serial core calls receive_buf.
Receive ==
    /\ bound /\ pushed /\ Offered > 0
    /\ Hc05Recv \/ EchoRecv \/ TestRecv
    /\ turnedAway' = (space = 0)
    /\ UNCHANGED <<driver, bound, received>>

\* The serial core has nothing left.
PushEnds ==
    /\ bound /\ pushed /\ Offered = 0
    /\ pushed' = FALSE
    /\ UNCHANGED <<driver, bound, received, consumed, space, echoed, turnedAway>>

\* The port has sent what it held; the drivers have no write_wakeup.
PortSends ==
    /\ bound /\ space < PortRoom
    /\ space' = PortRoom
    /\ UNCHANGED <<driver, bound, received, consumed, pushed, echoed, turnedAway>>

\* hc05_remove and serdev_echo_remove: the port is closed.
SerdevRemove ==
    /\ bound
    /\ bound' = FALSE
    /\ received' = 0 /\ consumed' = 0 /\ pushed' = FALSE
    /\ space' = PortRoom /\ echoed' = <<>> /\ turnedAway' = FALSE
    /\ UNCHANGED driver

SerdevNext ==
    \/ SerdevProbe \/ ByteArrives \/ Receive \/ PushEnds \/ PortSends
    \/ SerdevRemove

SerdevFairness == WF_serdevVars(Receive) /\ WF_serdevVars(PushEnds)

SerdevSpec == SerdevInit /\ [][SerdevNext]_serdevVars /\ SerdevFairness
-----------------------------------------------------------------------------
\* No byte is lost between the two directions: however the bytes come and the
\* port fills up and empties, the echo has sent back what it counts as consumed,
\* byte for byte, from the first one received on and none of them twice.  And
\* received bytes lie in the serial core without being offered only where a port
\* without room refused them all to the echo, or where the result of receive_buf
\* is undefined: never because of a port that took a part of them, and never for
\* hc05.c, whose bytes are offered until it has seen each.
NoByteLost ==
    /\ driver = "echo" => echoed = [i \in 1..consumed |-> i]
    /\ bound /\ ~pushed /\ consumed < received =>
         driver = "test" \/ (driver = "echo" /\ turnedAway)
=============================================================================
