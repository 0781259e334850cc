------------------------------ MODULE Bmp280Spi ------------------------------
(***************************************************************************)
(* The BMP280 driver that forms its own SPI messages                       *)
(* (bmp280_spi/bmp280_spi.c).  A reading takes two messages, one for the   *)
(* measurement and one for the calibration.  Each is put together in the   *)
(* fields of the one bmp280_state of the device, sent with spi_sync, and   *)
(* its answer is copied out of rx_buf.  The IIO core calls read_raw for    *)
(* every read of a sysfs file and takes no lock.                           *)
(***************************************************************************)
EXTENDS Integers, Sequences

CONSTANTS
    Readers,            \* the processes that read the sysfs files
    TempBytes,          \* 3 in the driver
    TempDigits,         \* 6
    PressureBytes,      \* 3
    PressureDigits,     \* 18
    BufferCells,        \* 18, the size of rx_buf and of ring_xfer
    SpiErrors,          \* whether transfers may fail
    KeepsSelected,      \* whether the controller heeds cs_change at the end
                        \* of a message: the sensor then stays selected
    MaxOverlaps         \* bound on the calls that find another one running

Cells == 0..(BufferCells - 1)

ASSUME SpiAssumption ==
    /\ TempBytes \in 1..3 /\ TempDigits \in 1..6
    /\ PressureBytes \in 1..3 /\ PressureDigits \in 1..18
    /\ BufferCells \in 2..18
    /\ \A n \in {TempBytes, TempDigits} : 2 * n <= BufferCells
    /\ \A n \in {PressureBytes, PressureDigits} : n <= BufferCells
    /\ SpiErrors \in BOOLEAN
    /\ KeepsSelected \in BOOLEAN
    /\ MaxOverlaps \in Nat
    /\ Readers \cap {"free", "nobody"} = {}

VARIABLES
    driver,             \* "unbound", the writes of the probe, or "bound"
    converting,         \* the sensor is in normal mode
    chip,               \* the register the sensor answers from, and whether it
                        \* has been sent one since it was selected
    ring_xfer, rx_buf, ring_msg,        \* the fields of bmp280_state
    bus,                \* who holds the controller's bus_lock_mutex
    th,                 \* the state of each reader
    alone,              \* history: readers whose call has met no other call
    overlaps            \* history: calls that found another one running

state == <<ring_xfer, rx_buf, ring_msg>>
vars == <<driver, converting, chip, state, bus, th, alone, overlaps>>

Deselected == [addressed |-> FALSE, reg |-> 0]
Free == "free"
Nobody == "nobody"
ListHead == -1          \* the list head of the message

\* A message is a list of the elements of ring_xfer, linked through them.
EmptyMsg == [next |-> [n \in Cells \cup {ListHead} |-> ListHead], last |-> ListHead,
             status |-> "ok", waiter |-> Nobody]

\* A byte in rx_buf is known by the register of the sensor it was read from;
\* the address counts up within a burst, and wraps.
Registers == 0..255

\* An element of ring_xfer sends the address of a register, with cs_change 0.
Send(r) == [reg |-> r, at |-> 0, len |-> 0, cs_change |-> FALSE]

\* Mutant: the answers have cs_change 0 as well.
ReceiveOn(at, len) == [reg |-> 0, at |-> at, len |-> len, cs_change |-> FALSE]

\* Or it receives len bytes from rx_buf[at] on, with cs_change 1.
Receive(at, len) == [reg |-> 0, at |-> at, len |-> len, cs_change |-> TRUE]

\* Mutant: each byte is received one cell too far.
OneByOneShifted(r, n) == [i \in 1..n |-> [reg |-> r + i - 1, at |-> 2 * i, len |-> 1]]

\* One command reads a burst, or one command for every byte.
Burst(r, n) == <<[reg |-> r, at |-> 0, len |-> n]>>
OneByOne(r, n) == [i \in 1..n |-> [reg |-> r + i - 1, at |-> 2 * i - 1, len |-> 1]]

Channels == {"pressure", "temp"}
Exchange(channel, half) ==
    CASE channel = "pressure" /\ half = 1 -> Burst(247, PressureBytes)
      [] channel = "pressure" /\ half = 2 -> Burst(142, PressureDigits)
      [] channel = "temp" /\ half = 1 -> OneByOne(250, TempBytes)
      [] channel = "temp" /\ half = 2 -> OneByOne(136, TempDigits)

Commands(r) == Exchange(th[r].channel, th[r].half)

\* The cells the answers of an exchange are copied from.
Answers(commands) ==
    IF Len(commands) = 1 THEN [i \in 1..commands[1].len |-> commands[1].at + i - 1]
    ELSE [i \in 1..Len(commands) |-> commands[i].at]

Resting == [step |-> "idle", channel |-> "temp", half |-> 1, k |-> 0,
            bytes |-> <<>>, failed |-> FALSE]

Busy(r) == th[r].step # "idle"
OthersIdle(r) == \A u \in Readers \ {r} : ~Busy(u)
-----------------------------------------------------------------------------
Init ==
    /\ driver = "unbound"
    /\ converting = FALSE
    /\ chip = Deselected
    /\ ring_xfer = [k \in Cells |-> Send(0)]
    /\ rx_buf = [k \in Cells |-> 0]
    /\ ring_msg = EmptyMsg
    /\ bus = Free
    /\ th = [r \in Readers |-> Resting]
    /\ alone = {}
    /\ overlaps = 0

\* bmp280_probe, with a zeroed bmp280_state; then the write of the filter
\* setting, and the write that starts the conversions; one that fails ends the
\* probe.  The results of the allocation and of spi_setup are ignored; the model
\* lets both succeed.  spi_setup and every spi_write leave the sensor deselected.
Probe ==
    /\ driver = "unbound"
    /\ driver' = "config"
    /\ chip' = Deselected
    /\ UNCHANGED <<converting, state, bus, th, alone, overlaps>>

ProbeWrite ==
    /\ \/ driver = "config" /\ driver' = "ctrl_meas" /\ UNCHANGED converting
       \/ driver = "ctrl_meas" /\ driver' = "register" /\ converting' = TRUE
    /\ UNCHANGED <<chip, state, bus, th, alone, overlaps>>

\* Mutant: the probe goes on after a write that failed.
ProbeGoesOn ==
    /\ \/ SpiErrors /\ driver = "config" /\ driver' = "ctrl_meas"
       \/ SpiErrors /\ driver = "ctrl_meas" /\ driver' = "register"
       \/ driver = "register" /\ driver' = "unbound"
    /\ UNCHANGED <<converting, chip, state, bus, th, alone, overlaps>>

\* A write fails, or iio_device_register does.
ProbeFails ==
    /\ \/ SpiErrors /\ driver \in {"config", "ctrl_meas"}
       \/ driver = "register"
    /\ driver' = "unbound"
    /\ UNCHANGED <<converting, chip, state, bus, th, alone, overlaps>>

Registered ==
    /\ driver = "register"
    /\ driver' = "bound"
    /\ UNCHANGED <<converting, chip, state, bus, th, alone, overlaps>>

\* bmp280_remove: the removal of the sysfs files waits for their readers, and
\* bmp280_state is freed.  The sensor goes on converting, and stays selected.
Remove ==
    /\ driver = "bound"
    /\ \A r \in Readers : ~Busy(r)
    /\ driver' = "unbound"
    /\ ring_xfer' = [k \in Cells |-> Send(0)]
    /\ rx_buf' = [k \in Cells |-> 0]
    /\ ring_msg' = EmptyMsg
    /\ UNCHANGED <<converting, chip, bus, th, alone, overlaps>>

\* bmp280_read_raw is entered for one of the two channels.
ReadRaw(r, channel) ==
    /\ driver = "bound"
    /\ ~Busy(r)
    /\ th' = [th EXCEPT ![r] = [Resting EXCEPT !.step = "fill", !.channel = channel]]
    /\ alone' = IF OthersIdle(r) THEN {r} ELSE {}
    /\ IF OthersIdle(r) THEN UNCHANGED overlaps
       ELSE overlaps < MaxOverlaps /\ overlaps' = overlaps + 1
    /\ UNCHANGED <<driver, converting, chip, state, bus>>

\* Mutant: the length is set once, for a transfer that has none yet.
FillOnce(r) ==
    LET k == th[r].k
        c == Commands(r)[k + 1]
        len == ring_xfer[2 * k + 1].len
    IN  /\ th[r].step = "fill"
        /\ k < Len(Commands(r))
        /\ ring_xfer' = [ring_xfer EXCEPT ![2 * k] = Send(c.reg),
                                          ![2 * k + 1] = Receive(c.at, IF len = 0 THEN c.len ELSE len)]
        /\ th' = [th EXCEPT ![r].k = k + 1]
        /\ UNCHANGED <<driver, converting, chip, rx_buf, ring_msg, bus, alone, overlaps>>

\* The two transfers of the next command.
Fill(r) ==
    LET k == th[r].k
        c == Commands(r)[k + 1]
    IN  /\ th[r].step = "fill"
        /\ k < Len(Commands(r))
        /\ ring_xfer' = [ring_xfer EXCEPT ![2 * k] = Send(c.reg),
                                          ![2 * k + 1] = Receive(c.at, c.len)]
        /\ th' = [th EXCEPT ![r].k = k + 1]
        /\ UNCHANGED <<driver, converting, chip, rx_buf, ring_msg, bus, alone, overlaps>>

\* spi_message_init clears the whole message, whoever is sending it.
MessageInit(r) ==
    /\ th[r].step = "fill"
    /\ th[r].k = Len(Commands(r))
    /\ ring_msg' = EmptyMsg
    /\ th' = [th EXCEPT ![r].step = "link", ![r].k = 0]
    /\ UNCHANGED <<driver, converting, chip, ring_xfer, rx_buf, bus, alone, overlaps>>

\* spi_message_add_tail: an element that is in the list already is linked to
\* itself if it is the last one, and cuts the list short if it is not.
Linked(msg, k) == [msg EXCEPT !.next[k] = ListHead, !.next[msg.last] = k, !.last = k]

\* Mutant: the command is linked twice, its answer not at all.
AddTailTwice(r) ==
    LET k == th[r].k
    IN  /\ th[r].step = "link"
        /\ k < Len(Commands(r))
        /\ ring_msg' = Linked(Linked(ring_msg, 2 * k), 2 * k)
        /\ th' = [th EXCEPT ![r].k = k + 1]
        /\ UNCHANGED <<driver, converting, chip, ring_xfer, rx_buf, bus, alone, overlaps>>

\* The two transfers of the next command are linked.
AddTail(r) ==
    LET k == th[r].k
    IN  /\ th[r].step = "link"
        /\ k < Len(Commands(r))
        /\ ring_msg' = Linked(Linked(ring_msg, 2 * k), 2 * k + 1)
        /\ th' = [th EXCEPT ![r].k = k + 1]
        /\ UNCHANGED <<driver, converting, chip, ring_xfer, rx_buf, bus, alone, overlaps>>

\* spi_sync waits for the bus and hands the message over; an empty message is
\* refused.
Sync(r) ==
    /\ th[r].step = "link"
    /\ th[r].k = Len(Commands(r))
    /\ bus = Free
    /\ IF ring_msg.next[ListHead] = ListHead
       THEN /\ th' = [th EXCEPT ![r].step = "error"]
            /\ UNCHANGED <<ring_msg, bus>>
       ELSE /\ th' = [th EXCEPT ![r].step = "transfer", ![r].k = ring_msg.next[ListHead]]
            /\ ring_msg' = [ring_msg EXCEPT !.status = "in progress", !.waiter = r]
            /\ bus' = r
    /\ UNCHANGED <<driver, converting, chip, ring_xfer, rx_buf, alone, overlaps>>

\* The SPI core carries out the next transfer of the list.  One that is linked
\* to itself is repeated for ever: the model leaves the repetitions out.
Transferring(r) == th[r].step = "transfer" /\ ring_msg.waiter = r

\* The core has left the list of the message.
Off(t) == [t EXCEPT !.k = 0]

\* The sensor takes the first byte after its selection for the address of a
\* register.  From then on every byte exchanged moves it one register on, an
\* address that is sent to it included.
Addressed(x) ==
    IF x.len > 0 THEN (chip.reg + x.len) % 256
    ELSE IF chip.addressed THEN (chip.reg + 1) % 256 ELSE x.reg

\* cs_change deselects the sensor for a moment after a transfer that others
\* follow.  After the last one it asks to keep it selected, which is what the
\* end of a message does not do by itself.
StaysSelected(x, next) ==
    IF x.cs_change THEN next = ListHead /\ KeepsSelected ELSE next # ListHead

Transfer(r) ==
    LET k == th[r].k
        x == ring_xfer[k]
    IN  /\ Transferring(r)
        /\ k # ListHead
        /\ ring_msg.next[k] # k
        /\ th' = [th EXCEPT ![r].k = ring_msg.next[k]]
        /\ chip' = IF StaysSelected(x, ring_msg.next[k])
                   THEN [addressed |-> TRUE, reg |-> Addressed(x)] ELSE Deselected
        /\ rx_buf' = [i \in Cells |-> IF i \in x.at..(x.at + x.len - 1)
                                      THEN (chip.reg + i - x.at) % 256 ELSE rx_buf[i]]
        /\ UNCHANGED <<driver, converting, ring_xfer, ring_msg, bus, alone, overlaps>>

\* A transfer fails; the sensor is deselected whatever cs_change says.
TransferFails(r) ==
    /\ SpiErrors
    /\ Transferring(r)
    /\ th[r].k # ListHead
    /\ ring_msg' = [ring_msg EXCEPT !.status = "error"]
    /\ th' = [th EXCEPT ![r] = [Off(@) EXCEPT !.step = "wake", !.failed = TRUE]]
    /\ chip' = Deselected
    /\ UNCHANGED <<driver, converting, ring_xfer, rx_buf, bus, alone, overlaps>>

\* The message is complete: its waiter is woken.
Complete(r) ==
    /\ Transferring(r)
    /\ th[r].k = ListHead
    /\ ring_msg' = [ring_msg EXCEPT !.status = "ok"]
    /\ th' = [th EXCEPT ![r] = [Off(@) EXCEPT !.step = "wake"]]
    /\ UNCHANGED <<driver, converting, chip, ring_xfer, rx_buf, bus, alone, overlaps>>

\* The message has been cleared under the SPI core, which follows its device
\* pointer or looks for its waiter in vain: the call never returns, and the bus
\* stays locked.
Lose(r) ==
    /\ th[r].step = "transfer"
    /\ ring_msg.waiter # r
    /\ th' = [th EXCEPT ![r] = [Off(@) EXCEPT !.step = "lost"]]
    /\ UNCHANGED <<driver, converting, chip, state, bus, alone, overlaps>>

\* Mutant: the result of spi_sync is not looked at.
WakeAnyway(r) ==
    /\ th[r].step = "wake"
    /\ bus' = Free
    /\ th' = [th EXCEPT ![r].step = "copy"]
    /\ UNCHANGED <<driver, converting, chip, state, alone, overlaps>>

\* spi_sync reads the status of the message, unlocks the bus and returns.
Wake(r) ==
    /\ th[r].step = "wake"
    /\ bus' = Free
    /\ th' = [th EXCEPT ![r].step = IF ring_msg.status = "ok" THEN "copy" ELSE "error"]
    /\ UNCHANGED <<driver, converting, chip, state, alone, overlaps>>

\* The answers are copied out of rx_buf; after the second message the value is
\* computed from both.
Copy(r) ==
    LET cells == Answers(Commands(r))
    IN  /\ th[r].step = "copy"
        /\ th' = [th EXCEPT ![r].bytes = @ \o [i \in DOMAIN cells |-> rx_buf[cells[i]]],
                            ![r].step = IF th[r].half = 1 THEN "fill" ELSE "value",
                            ![r].half = 2, ![r].k = 0]
        /\ UNCHANGED <<driver, converting, chip, state, bus, alone, overlaps>>

Return(r) ==
    /\ th[r].step \in {"value", "error"}
    /\ th' = [th EXCEPT ![r] = Resting]
    /\ alone' = alone \ {r}
    /\ UNCHANGED <<driver, converting, chip, state, bus, overlaps>>

Step(r) ==
    \/ Fill(r) \/ MessageInit(r) \/ AddTail(r) \/ Sync(r)
    \/ Transfer(r) \/ Complete(r) \/ Lose(r)
    \/ Wake(r) \/ Copy(r) \/ Return(r)

Next ==
    \/ Probe \/ ProbeWrite \/ ProbeFails \/ Registered \/ Remove
    \/ \E r \in Readers : Step(r) \/ TransferFails(r) \/ \E channel \in Channels : ReadRaw(r, channel)

Spec == Init /\ [][Next]_vars

\* A process inside read_raw is scheduled, and a transfer ends: nothing but the
\* bus makes it wait.  No transfer has to fail.
FairSpec == Spec /\ \A r \in Readers : WF_vars(Step(r))
-----------------------------------------------------------------------------
\* Every variable has its type, and the bus is held exactly by a reader between
\* the start of its message and the return of spi_sync.
TypeOK ==
    /\ driver \in {"unbound", "config", "ctrl_meas", "register", "bound"}
    /\ converting \in BOOLEAN
    /\ chip \in [addressed : BOOLEAN, reg : Registers]
    /\ ring_xfer \in [Cells -> [reg : Registers, at : Cells, len : 0..18,
                               cs_change : BOOLEAN]]
    /\ rx_buf \in [Cells -> Registers]
    /\ ring_msg.next \in [Cells \cup {ListHead} -> Cells \cup {ListHead}]
    /\ ring_msg.last \in Cells \cup {ListHead}
    /\ alone \subseteq Readers
    /\ overlaps \in 0..MaxOverlaps
    /\ bus \in Readers \cup {Free}
    /\ \A r \in Readers : bus = r <=> th[r].step \in {"transfer", "wake", "lost"}

\* What a reading of a channel should be made of.
Wanted(channel) ==
    [i \in 1..(IF channel = "pressure" THEN PressureBytes ELSE TempBytes) |->
        (IF channel = "pressure" THEN 247 ELSE 250) + i - 1]
    \o [i \in 1..(IF channel = "pressure" THEN PressureDigits ELSE TempDigits) |->
        (IF channel = "pressure" THEN 142 ELSE 136) + i - 1]

\* A call that overlaps no other computes its value from its own registers,
\* one byte of each, in their order, whatever other calls have left behind in
\* the shared transfers, message and buffer, and in the sensor; and the sensor
\* has been told to convert.  Every answer is that of the command before it:
\* "this value would be received in the spi_transfer structure following".
LoneReading ==
    \A r \in alone : th[r].step = "value" =>
      converting /\ th[r].bytes = Wanted(th[r].channel)

\* Such a call returns an error exactly if a transfer has failed: "Something
\* wrong here buddy".
LoneErrors ==
    \A r \in alone :
      /\ th[r].step = "value" => ~th[r].failed
      /\ th[r].step = "error" => th[r].failed

\* A call comes to its end unless it meets another one: neither the order in
\* which it links the transfers nor the message that an earlier overlap has left
\* makes the SPI core go round in it, or wait for the bus, for ever.
LoneCallReturns == \A r \in Readers : r \in alone ~> r \notin alone
=============================================================================
