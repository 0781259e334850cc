---------------------------- MODULE Pcf8574_proofs ----------------------------
(***************************************************************************)
(* Proofs about Pcf8574, for any set of consumers and any set of pins.     *)
(*                                                                         *)
(* Three inductive invariants are used.  TypeOK is inductive by itself.    *)
(* LevelInv extends NoInventedLevel to the bytes consumers hold in         *)
(* registers.  RepairInv ties the history variable solo to the one call    *)
(* that may repair the chip, and says what byte that call is about to send.*)
(* ExclusiveInv holds only when calls never overlap and nothing fails; it  *)
(* carries the refinement of PinLatch.                                     *)
(***************************************************************************)
EXTENDS Pcf8574, TLAPS

\* A byte with one bit changed is a byte.
LEMMA WithPinType ==
    ASSUME NEW S \in SUBSET Pins, NEW r \in Requests
    PROVE  WithPin(S, r) \in SUBSET Pins
  BY DEF WithPin, Requests

\* Every variable keeps its type.
THEOREM TypeCorrect == Spec => []TypeOK
<1>1. Init => TypeOK
  BY PinsAssumption DEF Init, TypeOK, Idle
<1>2. TypeOK /\ [Next]_vars => TypeOK'
  <2> SUFFICES ASSUME TypeOK, [Next]_vars PROVE TypeOK'
    OBVIOUS
  <2> USE DEF TypeOK, ghosts
  <2>1. CASE Probe
    BY <2>1 DEF Probe, Idle
  <2>2. CASE Remove
    BY <2>2 DEF Remove, Idle
  <2>3. ASSUME NEW c \in Consumers, NEW r \in Requests, SetLoad(c, r)
        PROVE  TypeOK'
    <3>1. WithPin(gpio_state, r) \in SUBSET Pins
      BY WithPinType
    <3>2. /\ reg' \in [Consumers -> SUBSET Pins]
          /\ req' \in [Consumers -> Requests \cup {NoRequest}]
          /\ pc' \in [Consumers -> {"idle", "loaded", "stored", "queued"}]
      BY <2>3, <3>1 DEF SetLoad
    <3>3. asked' \subseteq Pins /\ solo' \subseteq Consumers /\ dirty' \in BOOLEAN
      BY <2>3 DEF SetLoad, Requests
    <3>4. \A d \in Consumers : Idle(d)' <=> (req[d] = NoRequest)'
      BY <2>3, PinsAssumption DEF SetLoad, Idle
    <3> QED
      BY <2>3, <3>2, <3>3, <3>4 DEF SetLoad
  <2>4. ASSUME NEW c \in Consumers, SetStore(c) PROVE TypeOK'
    BY <2>4 DEF SetStore, Idle
  <2>5. ASSUME NEW c \in Consumers, SetArgument(c) PROVE TypeOK'
    BY <2>5 DEF SetArgument, Idle
  <2>6. ASSUME NEW c \in Consumers, I2cWrite(c) PROVE TypeOK'
    BY <2>6 DEF I2cWrite, Return, Idle
  <2>7. ASSUME NEW c \in Consumers, I2cFail(c) PROVE TypeOK'
    BY <2>7 DEF I2cFail, Return, Idle
  <2>8. ASSUME NEW c \in Consumers, NEW p \in Pins, DirectionInput(c, p)
        PROVE  TypeOK'
    BY <2>8 DEF DirectionInput, Idle
  <2>9. ASSUME NEW p \in Straps, ExternalDrive(p) PROVE TypeOK'
    BY <2>9 DEF ExternalDrive, Idle
  <2>10. CASE UNCHANGED vars
    BY <2>10 DEF vars, Idle
  <2> QED
    BY <2>1, <2>2, <2>3, <2>4, <2>5, <2>6, <2>7, <2>8, <2>9, <2>10
       DEF Next, Step
<1> QED
  BY <1>1, <1>2, PTL DEF Spec
-----------------------------------------------------------------------------
\* A pin nobody asked to drive low is high in every byte in flight as well.
LevelInv ==
    /\ NoInventedLevel
    /\ \A c \in Consumers : ~Idle(c) => Pins \ asked \subseteq reg[c]

\* However calls interleave in pcf8574_gpio_set and whatever transfers fail,
\* a pin that no call asked to drive low is high in shadow and latch.
THEOREM LevelsAreAsked == Spec => []NoInventedLevel
<1>1. Init => LevelInv
  BY DEF Init, LevelInv, NoInventedLevel, Idle
<1>2. TypeOK /\ LevelInv /\ [Next]_vars => LevelInv'
  <2> SUFFICES ASSUME TypeOK, LevelInv, [Next]_vars PROVE LevelInv'
    OBVIOUS
  <2> USE DEF TypeOK, ghosts, LevelInv, NoInventedLevel
  <2>1. CASE Probe
    BY <2>1 DEF Probe, Idle
  <2>2. CASE Remove
    BY <2>2 DEF Remove, Idle
  <2>3. ASSUME NEW c \in Consumers, NEW r \in Requests, SetLoad(c, r)
        PROVE  LevelInv'
    <3>1. Pins \ asked' \subseteq WithPin(gpio_state, r)
      BY <2>3 DEF SetLoad, WithPin
    <3>2. \A d \in Consumers : Idle(d)' \/ Pins \ asked' \subseteq reg'[d]
      BY <2>3, <3>1 DEF SetLoad, Idle
    <3> QED
      BY <2>3, <3>2 DEF SetLoad, Idle
  <2>4. ASSUME NEW c \in Consumers, SetStore(c) PROVE LevelInv'
    BY <2>4 DEF SetStore, Idle
  <2>5. ASSUME NEW c \in Consumers, SetArgument(c) PROVE LevelInv'
    BY <2>5 DEF SetArgument, Idle
  <2>6. ASSUME NEW c \in Consumers, I2cWrite(c) PROVE LevelInv'
    BY <2>6 DEF I2cWrite, Return, Idle
  <2>7. ASSUME NEW c \in Consumers, I2cFail(c) PROVE LevelInv'
    BY <2>7 DEF I2cFail, Return, Idle
  <2>8. ASSUME NEW c \in Consumers, NEW p \in Pins, DirectionInput(c, p)
        PROVE  LevelInv'
    BY <2>8 DEF DirectionInput, Idle
  <2>9. ASSUME NEW p \in Straps, ExternalDrive(p) PROVE LevelInv'
    BY <2>9 DEF ExternalDrive, Idle
  <2>10. CASE UNCHANGED vars
    BY <2>10 DEF vars, Idle
  <2> QED
    BY <2>1, <2>2, <2>3, <2>4, <2>5, <2>6, <2>7, <2>8, <2>9, <2>10
       DEF Next, Step
<1>3. LevelInv => NoInventedLevel
  BY DEF LevelInv
<1> QED
  BY <1>1, <1>2, <1>3, TypeCorrect, PTL DEF Spec
-----------------------------------------------------------------------------
\* A call in progress needs a bound chip; the solo call is in progress and
\* alone, it holds the level asked for its pin, and of the others what the chip
\* has unless the two had parted; once it has stored its byte it sends what the
\* shadow holds.  Any other call in progress has marked the chip dirty.
RepairInv ==
    /\ SelfHealing
    /\ \A c \in Consumers : ~Idle(c) => driver = "bound"
    /\ \A c \in Consumers : ~Idle(c) /\ c \notin solo => dirty
    /\ \A c \in solo :
         /\ ~Idle(c)
         /\ OthersIdle(c)
         /\ pc[c] \in {"stored", "queued"} => reg[c] = gpio_state
         /\ req[c].pin \in reg[c] <=> req[c].high
         /\ pc[c] = "loaded" /\ ~dirty => gpio_state = port
         /\ ~dirty => reg[c] \ {req[c].pin} = port \ {req[c].pin}

\* The invariant of repairs holds throughout.
LEMMA RepairInvariance == Spec => []RepairInv
<1>1. Init => RepairInv
  BY DEF Init, RepairInv, SelfHealing, Idle
<1>2. TypeOK /\ RepairInv /\ [Next]_vars => RepairInv'
  <2> SUFFICES ASSUME TypeOK, RepairInv, [Next]_vars PROVE RepairInv'
    OBVIOUS
  <2> USE DEF TypeOK, ghosts, RepairInv, SelfHealing, Idle, AllIdle, OthersIdle
  <2>1. CASE Probe
    BY <2>1 DEF Probe
  <2>2. CASE Remove
    BY <2>2 DEF Remove
  <2>3. ASSUME NEW c \in Consumers, NEW r \in Requests, SetLoad(c, r)
        PROVE  RepairInv'
    <3>1. req'[c] = r /\ reg'[c] = WithPin(gpio_state, r) /\ pc'[c] = "loaded"
      BY <2>3 DEF SetLoad
    <3>2. \A d \in solo' : /\ d = c /\ OthersIdle(c)
                           /\ ~dirty' => ~dirty /\ AllIdle
      BY <2>3 DEF SetLoad
    <3>3. ~dirty /\ AllIdle => gpio_state = port
      BY <2>3 DEF SetLoad
    <3>4. /\ r.pin \in WithPin(gpio_state, r) <=> r.high
          /\ WithPin(gpio_state, r) \ {r.pin} = gpio_state \ {r.pin}
      BY DEF WithPin, Requests
    <3>5. \A d \in solo' :
            /\ req'[d].pin \in reg'[d] <=> req'[d].high
            /\ ~dirty' => reg'[d] \ {req'[d].pin} = port' \ {req'[d].pin}
            /\ ~dirty' => gpio_state' = port'
      BY <2>3, <3>1, <3>2, <3>3, <3>4 DEF SetLoad
    <3>6. /\ SelfHealing'
          /\ \A d \in Consumers : ~Idle(d)' => driver' = "bound"
          /\ \A d \in Consumers : ~Idle(d)' /\ d \notin solo' => dirty'
      BY <2>3 DEF SetLoad
    <3>7. \A d \in solo' : /\ ~Idle(d)' /\ OthersIdle(d)'
                           /\ pc'[d] = "loaded"
      BY <2>3, <3>1, <3>2 DEF SetLoad
    <3> QED
      BY <3>5, <3>6, <3>7
  <2>4. ASSUME NEW c \in Consumers, SetStore(c) PROVE RepairInv'
    BY <2>4 DEF SetStore
  <2>5. ASSUME NEW c \in Consumers, SetArgument(c) PROVE RepairInv'
    BY <2>5 DEF SetArgument
  <2>6. ASSUME NEW c \in Consumers, I2cWrite(c) PROVE RepairInv'
    BY <2>6 DEF I2cWrite, Return
  <2>7. ASSUME NEW c \in Consumers, I2cFail(c) PROVE RepairInv'
    BY <2>7 DEF I2cFail, Return
  <2>8. ASSUME NEW c \in Consumers, NEW p \in Pins, DirectionInput(c, p)
        PROVE  RepairInv'
    BY <2>8 DEF DirectionInput
  <2>9. ASSUME NEW p \in Straps, ExternalDrive(p) PROVE RepairInv'
    BY <2>9 DEF ExternalDrive
  <2>10. CASE UNCHANGED vars
    BY <2>10 DEF vars
  <2> QED
    BY <2>1, <2>2, <2>3, <2>4, <2>5, <2>6, <2>7, <2>8, <2>9, <2>10
       DEF Next, Step
<1> QED
  BY <1>1, <1>2, TypeCorrect, PTL DEF Spec

\* One call that runs alone and gets its byte through repairs the whole port,
\* after any number of overlaps, failed transfers and re-probes.
THEOREM OneCallRepairs == Spec => []SelfHealing
<1>1. RepairInv => SelfHealing
  BY DEF RepairInv
<1> QED
  BY <1>1, RepairInvariance, PTL

\* The byte such a call sends gives its pin the level asked for, and differs
\* from the latch in no other pin when the two agreed before.
THEOREM LoneCallMovesItsPin == Spec => LoneCallIsOnePin
<1>1. RepairInv /\ [Next]_vars =>
        [\A c \in solo : I2cWrite(c) =>
           /\ req[c].pin \in port' <=> req[c].high
           /\ ~dirty => port' \ {req[c].pin} = port \ {req[c].pin}]_vars
  BY DEF RepairInv, I2cWrite
<1> QED
  BY <1>1, RepairInvariance, PTL DEF Spec, LoneCallIsOnePin
-----------------------------------------------------------------------------
\* Calls are serialised, no transfer fails and the driver stays bound.
Exclusive ==
    /\ \A c, d \in Consumers : c = d
    /\ ~I2cErrors
    /\ ~Rebinding

\* Shadow and latch part only between the store and the transfer of the one
\* call in progress, and then by the pin of its request alone.
ExclusiveInv ==
    /\ driver = "unbound" => port = Pins
    /\ \A c \in Consumers : ~Idle(c) => driver = "bound"
    /\ ShadowIsPort
    /\ \A c \in Consumers :
         /\ pc[c] = "loaded" => /\ gpio_state = port
                                /\ reg[c] = WithPin(port, req[c])
         /\ pc[c] \in {"stored", "queued"} => /\ reg[c] = gpio_state
                                              /\ reg[c] = WithPin(port, req[c])

\* Under exclusive use the invariant holds throughout.
LEMMA ExclusiveInvariance == ASSUME Exclusive PROVE Spec => []ExclusiveInv
<1>1. Init => ExclusiveInv
  BY DEF Init, ExclusiveInv, ShadowIsPort, Idle
<1>2. TypeOK /\ ExclusiveInv /\ [Next]_vars => ExclusiveInv'
  <2> SUFFICES ASSUME TypeOK, ExclusiveInv, [Next]_vars PROVE ExclusiveInv'
    OBVIOUS
  <2> USE Exclusive DEF Exclusive, TypeOK, ghosts, ExclusiveInv, ShadowIsPort,
                        Idle, AllIdle
  <2>1. CASE Probe
    BY <2>1 DEF Probe
  <2>2. CASE Remove
    BY <2>2 DEF Remove
  <2>3. ASSUME NEW c \in Consumers, NEW r \in Requests, SetLoad(c, r)
        PROVE  ExclusiveInv'
    BY <2>3 DEF SetLoad
  <2>4. ASSUME NEW c \in Consumers, SetStore(c) PROVE ExclusiveInv'
    BY <2>4 DEF SetStore
  <2>5. ASSUME NEW c \in Consumers, SetArgument(c) PROVE ExclusiveInv'
    BY <2>5 DEF SetArgument
  <2>6. ASSUME NEW c \in Consumers, I2cWrite(c) PROVE ExclusiveInv'
    BY <2>6 DEF I2cWrite, Return
  <2>7. ASSUME NEW c \in Consumers, I2cFail(c) PROVE ExclusiveInv'
    BY <2>7 DEF I2cFail
  <2>8. ASSUME NEW c \in Consumers, NEW p \in Pins, DirectionInput(c, p)
        PROVE  ExclusiveInv'
    BY <2>8 DEF DirectionInput
  <2>9. ASSUME NEW p \in Straps, ExternalDrive(p) PROVE ExclusiveInv'
    BY <2>9 DEF ExternalDrive
  <2>10. CASE UNCHANGED vars
    BY <2>10 DEF vars
  <2> QED
    BY <2>1, <2>2, <2>3, <2>4, <2>5, <2>6, <2>7, <2>8, <2>9, <2>10
       DEF Next, Step
<1> QED
  BY <1>1, <1>2, TypeCorrect, PTL DEF Spec

\* Under exclusive use gpio_state is the current state of the pins whenever
\* no call is in progress.
THEOREM ShadowExact == ASSUME Exclusive PROVE Spec => []ShadowIsPort
<1>1. ExclusiveInv => ShadowIsPort
  BY DEF ExclusiveInv
<1> QED
  BY <1>1, ExclusiveInvariance, PTL

\* Under exclusive use pcf8574_gpio_set implements a port of independent pins:
\* entering a call is asking for a level, the transfer is its taking effect,
\* and every other step of the driver leaves the other pins alone.
THEOREM ImplementsLatch == ASSUME Exclusive PROVE Spec => LatchSpec
<1> USE DEF Latch!latchVars
<1>1. Init => Latch!Init
  BY DEF Init, Latch!Init
<1>2. TypeOK /\ ExclusiveInv /\ [Next]_vars => [Latch!Next]_(Latch!latchVars)
  <2> SUFFICES ASSUME TypeOK, ExclusiveInv, [Next]_vars
               PROVE  [Latch!Next]_(Latch!latchVars)
    OBVIOUS
  <2>1. CASE Probe
    BY <2>1 DEF Probe
  <2>2. CASE Remove
    BY <2>2 DEF Remove
  <2>3. ASSUME NEW c \in Consumers, NEW r \in Requests, SetLoad(c, r)
        PROVE  Latch!Next
    <3>1. Latch!Ask(c, r)
      BY <2>3 DEF SetLoad, Latch!Ask, TypeOK, Idle
    <3> QED
      BY <3>1 DEF Latch!Next, Latch!Requests, Requests
  <2>4. ASSUME NEW c \in Consumers, SetStore(c) PROVE UNCHANGED Latch!latchVars
    BY <2>4 DEF SetStore
  <2>5. ASSUME NEW c \in Consumers, SetArgument(c)
        PROVE  UNCHANGED Latch!latchVars
    BY <2>5 DEF SetArgument
  <2>6. ASSUME NEW c \in Consumers, I2cWrite(c) PROVE Latch!Next
    <3>1. port' = Latch!WithPin(port, req[c])
      BY <2>6 DEF I2cWrite, ExclusiveInv, WithPin, Latch!WithPin
    <3>2. req[c] # NoRequest /\ req' = [req EXCEPT ![c] = NoRequest]
      BY <2>6 DEF I2cWrite, Return, TypeOK, Idle
    <3> QED
      BY <3>1, <3>2 DEF Latch!TakeEffect, Latch!Next
  <2>7. ASSUME NEW c \in Consumers, I2cFail(c) PROVE FALSE
    BY <2>7, Exclusive DEF I2cFail, Exclusive
  <2>8. ASSUME NEW c \in Consumers, NEW p \in Pins, DirectionInput(c, p)
        PROVE  UNCHANGED Latch!latchVars
    BY <2>8 DEF DirectionInput
  <2>9. ASSUME NEW p \in Straps, ExternalDrive(p)
        PROVE  UNCHANGED Latch!latchVars
    BY <2>9 DEF ExternalDrive
  <2>10. CASE UNCHANGED vars
    BY <2>10 DEF vars
  <2> QED
    BY <2>1, <2>2, <2>3, <2>4, <2>5, <2>6, <2>7, <2>8, <2>9, <2>10
       DEF Next, Step
<1> QED
  BY <1>1, <1>2, TypeCorrect, ExclusiveInvariance, PTL
     DEF Spec, LatchSpec, Latch!Spec
=============================================================================
