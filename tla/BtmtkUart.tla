------------------------------ MODULE BtmtkUart ------------------------------
(***************************************************************************)
(* The MediaTek Bluetooth driver on a serial port, hc05/btmtkuart.c: how   *)
(* frames reach the port and how the device is powered up and down.        *)
(*                                                                         *)
(* Three contexts share tx_state and txq.  The thread that powers the      *)
(* device sends vendor commands and waits for their events; the Bluetooth  *)
(* core sends data; the port calls write_wakeup when it has room.  All of  *)
(* them end in btmtkuart_tx_wakeup, and one work item, tx_work, moves the  *)
(* frames from txq to the port, which may take a part of a frame.          *)
(*                                                                         *)
(* A frame has FrameLen units; what it says is left out.  A vendor command *)
(* is "cur" while the thread that sent it waits for it and "old" when that *)
(* thread has given it up.  The Bluetooth core, the serial port and the    *)
(* controller are external.                                                *)
(***************************************************************************)
EXTENDS Integers, Sequences

CONSTANTS
    Data,           \* the frames the Bluetooth core may send, each once per power-up
    FrameLen,       \* the units of a frame
    Room,           \* the units the port takes at most at once
    MaxPieces,      \* the pieces the firmware may have
    MaxAnswers,     \* a bound on the commands the controller has not answered
    NoFrame         \* no frame

Ids == Data \cup {"cur", "old", "reset"}
Frames == [id : Ids, left : 1..FrameLen]

ASSUME BtAssumption ==
    /\ FrameLen \in Nat \ {0}
    /\ Room \in Nat \ {0}
    /\ MaxPieces \in Nat
    /\ MaxAnswers \in Nat \ {0}
    /\ Data \cap {"cur", "old", "reset", "cmd"} = {}
    /\ NoFrame \notin Frames /\ NoFrame \notin Data \cup {"reset", "cmd"}

VARIABLES
    phase,          \* what the Bluetooth core does with the device: see Phases
    after,          \* where the device is to be after the flush: see Goals
    ports, powers, clocks,      \* open ports, runtime PM references, enabled clocks
    portOn,         \* whether the port calls the driver and takes its bytes
    active, wakeup, wait_vnd,   \* the three bits of tx_state
    txq,            \* the queue of frames
    skb,            \* the frame tx_work has taken from it
    work,           \* where tx_work is
    pending,        \* whether tx_work is scheduled
    cancelling,     \* whether cancel_work_sync is waiting for it
    waker,          \* where each caller is inside btmtkuart_tx_wakeup
    notify,         \* whether the port holds units and will call write_wakeup
    wmt,            \* where the thread is inside mtk_hci_wmt_sync
    cmds,           \* the commands btmtkuart_setup has left to send
    fresh,          \* the data the core has not sent since power-up
    answers,        \* the commands the controller is going to answer
    by,             \* history: whose event ended the wait
    open_failed,    \* history: btmtkuart_open failed behind serdev_device_open
    late            \* history: write_wakeup scheduled tx_work after the last flush

tx == <<txq, skb, work, pending, active, wakeup, waker>>
port == <<notify, portOn>>
power == <<ports, powers, clocks, open_failed>>
vendor == <<wait_vnd, wmt, cmds, answers, by>>
btVars == <<phase, after, tx, port, power, vendor, cancelling, fresh, late>>

Callers == {"power", "core", "port"}

Phases == {"absent", "down", "setup", "up", "shutdown",
           "flush", "cancel", "drain", "close"}

\* Powered down, removed, or up again: what a flush is a part of.
Goals == {"down", "absent", "up"}

\* The phases in which btmtkuart_open has succeeded and close has not run.
Powered == {"setup", "up", "shutdown", "flush", "cancel", "drain", "close"}

Frame(id) == [id |-> id, left |-> FrameLen]

\* The commands and data that have not left, and the one in the worker's hand.
InHand == IF skb = NoFrame THEN <<>> ELSE <<skb>>

\* The thread gives its command up: whatever is left of it becomes old.
AgedId(id) == IF id = "cur" THEN "old" ELSE id
Aged(f) == [f EXCEPT !.id = AgedId(@)]
-----------------------------------------------------------------------------
BtInit ==
    /\ phase = "absent" /\ after = "down"
    /\ ports = 0 /\ powers = 0 /\ clocks = 0 /\ portOn = FALSE
    /\ active = FALSE /\ wakeup = FALSE /\ wait_vnd = FALSE
    /\ txq = <<>> /\ skb = NoFrame
    /\ work = "idle" /\ pending = FALSE /\ cancelling = FALSE
    /\ waker = [c \in Callers |-> "out"]
    /\ notify = FALSE
    /\ wmt = "out" /\ cmds = 0 /\ fresh = {} /\ answers = <<>>
    /\ by = "none"
    /\ open_failed = FALSE /\ late = FALSE

\* btmtkuart_probe, of a zeroed structure; a failure leaves nothing behind.
\* What runs on the structure of a device that is gone is not modelled.
BtProbe ==
    /\ phase = "absent"
    /\ work = "idle" /\ ~pending /\ ~portOn /\ waker["port"] = "out"
    /\ phase' = "down"
    /\ active' = FALSE /\ wakeup' = FALSE /\ wait_vnd' = FALSE
    /\ txq' = <<>>
    /\ UNCHANGED <<after, skb, work, pending, waker, port, power, wmt, cmds,
                   answers, by, cancelling, fresh, late>>

\* btmtkuart_open: the port, the power domain and the clock.  What a second
\* serdev_device_open does to a port that is open is not modelled.
BtOpen ==
    /\ phase = "down" /\ ports = 0
    /\ phase' = "setup"
    /\ ports' = ports + 1 /\ powers' = powers + 1 /\ clocks' = clocks + 1
    /\ portOn' = TRUE
    /\ wmt' = "firmware"
    /\ fresh' = Data
    /\ UNCHANGED <<after, tx, notify, open_failed, wait_vnd, cmds,
                   answers, by, cancelling, late>>

\* Mutant: the error path of a failed clk_prepare_enable forgets the power.
BtOpenFailsPowered ==
    /\ phase = "down" /\ ports = 0
    /\ ports' = ports + 1
    /\ powers' = powers + 1
    /\ portOn' = TRUE
    /\ open_failed' = TRUE
    /\ UNCHANGED <<phase, after, tx, notify, clocks, vendor, cancelling,
                   fresh, late>>

\* btmtkuart_open fails at the power domain or at the clock: the labels give
\* the power back and leave the port open.  (A port that cannot be opened
\* changes nothing.)
BtOpenFails ==
    /\ phase = "down" /\ ports = 0
    /\ ports' = ports + 1
    /\ portOn' = TRUE
    /\ open_failed' = TRUE
    /\ UNCHANGED <<phase, after, tx, notify, powers, clocks, vendor,
                   cancelling, fresh, late>>
-----------------------------------------------------------------------------
(* mtk_hci_wmt_sync, and btmtkuart_setup and btmtkuart_shutdown around it. *)

\* mtk_setup_fw: the firmware is cut into pieces of 250 bytes; two commands
\* follow them.
LoadFirmware ==
    /\ wmt = "firmware"
    /\ \E n \in 0..MaxPieces : cmds' = n + 2
    /\ wmt' = "send"
    /\ UNCHANGED <<phase, after, tx, port, power, wait_vnd, answers, by,
                   cancelling, fresh, late>>

\* A step of the thread ends in an error: what follows is the clean-up of
\* hci_dev_do_open, or, whatever shutdown returned, that of hci_dev_do_close.
WmtFails ==
    /\ phase' = "flush" /\ after' = "down"
    /\ wmt' = "out" /\ cmds' = 0

\* No firmware file, or one without its 30 bytes of header.
FirmwareFails ==
    /\ wmt = "firmware"
    /\ WmtFails
    /\ UNCHANGED <<tx, port, power, wait_vnd, answers, by, cancelling, fresh, late>>

\* btmtkuart_send_frame up to its call of btmtkuart_tx_wakeup.
Queue(c, id) ==
    /\ waker[c] = "out"
    /\ txq' = Append(txq, Frame(id))
    /\ waker' = [waker EXCEPT ![c] = "test"]

\* Mutant: the bit is not set before the command is sent.
WmtSendNoWait ==
    /\ wmt = "send"
    /\ wmt' = "wait"
    /\ \/ Queue("power", "cur")
       \/ UNCHANGED <<txq, waker>>
    /\ UNCHANGED <<phase, after, skb, work, pending, active, wakeup, port,
                   power, wait_vnd, cmds, answers, by, cancelling, fresh, late>>

\* The thread sets the bit it will wait for and sends.  __hci_cmd_send does not
\* say whether the driver's send function could enlarge the buffer: a command
\* that could not be queued is lost silently.
WmtSend ==
    /\ wmt = "send"
    /\ wmt' = "wait"
    /\ wait_vnd' = TRUE
    /\ \/ Queue("power", "cur")
       \/ UNCHANGED <<txq, waker>>
    /\ UNCHANGED <<phase, after, skb, work, pending, active, wakeup, port,
                   power, cmds, answers, by, cancelling, fresh, late>>

\* __hci_cmd_send has no memory for the command; the bit is cleared again.
WmtSendFails ==
    /\ wmt = "send"
    /\ WmtFails
    /\ UNCHANGED <<tx, port, power, wait_vnd, answers, by, cancelling, fresh,
                   late>>

\* The bit is clear: the command is taken to be answered.
WmtAnswered ==
    /\ wmt = "wait" /\ waker["power"] = "out"
    /\ ~wait_vnd
    /\ IF cmds > 1
       THEN wmt' = "send" /\ UNCHANGED <<phase, after>>
       ELSE /\ wmt' = "out"
            /\ IF phase = "setup"
               THEN phase' = "up" /\ UNCHANGED after
               ELSE phase' = "flush" /\ after' = "down"
    /\ cmds' = cmds - 1
    /\ by' = "none"
    /\ UNCHANGED <<tx, port, power, wait_vnd, answers, cancelling, fresh,
                   late>>

\* Mutant: the wait has no time-out.
WmtGivesUpLate ==
    /\ wmt = "wait" /\ waker["power"] = "out"
    /\ ~wait_vnd
    /\ txq' = [k \in DOMAIN txq |-> Aged(txq[k])]
    /\ skb' = IF skb = NoFrame THEN skb ELSE Aged(skb)
    /\ answers' = [k \in DOMAIN answers |-> AgedId(answers[k])]
    /\ by' = "none"
    /\ WmtFails
    /\ UNCHANGED <<work, pending, active, wakeup, waker, port, power,
                   wait_vnd, cancelling, fresh, late>>

\* HCI_INIT_TIMEOUT passes or a signal arrives.  The event may still come,
\* and may have come just before the bit is cleared.
WmtGivesUp ==
    /\ wmt = "wait" /\ waker["power"] = "out"
    /\ wait_vnd' = FALSE
    /\ txq' = [k \in DOMAIN txq |-> Aged(txq[k])]
    /\ skb' = IF skb = NoFrame THEN skb ELSE Aged(skb)
    /\ answers' = [k \in DOMAIN answers |-> AgedId(answers[k])]
    /\ by' = "none"
    /\ WmtFails
    /\ UNCHANGED <<work, pending, active, wakeup, waker, port, power,
                   cancelling, fresh, late>>
-----------------------------------------------------------------------------
(* btmtkuart_tx_wakeup, in whichever context calls it.                     *)

\* Mutant: the work is scheduled only by a caller that has set ACTIVE itself.
WakerTestsOnce(c) ==
    /\ waker[c] = "test"
    /\ active' = TRUE
    /\ waker' = [waker EXCEPT ![c] = IF active THEN "out" ELSE "schedule"]
    /\ wakeup' = (wakeup \/ active)
    /\ UNCHANGED <<phase, after, txq, skb, work, pending, port, power, vendor,
                   cancelling, fresh, late>>

\* test_and_set_bit(ACTIVE).
WakerTests(c) ==
    /\ waker[c] = "test"
    /\ active' = TRUE
    /\ waker' = [waker EXCEPT ![c] = IF active THEN "flag" ELSE "schedule"]
    /\ UNCHANGED <<phase, after, txq, skb, work, pending, wakeup, port,
                   power, vendor, cancelling, fresh, late>>

\* schedule_work, which does nothing while cancel_work_sync waits.
Schedules(c) ==
    /\ pending' = (pending \/ ~cancelling)
    /\ waker' = [waker EXCEPT ![c] = "out"]
    /\ late' = (late \/ (c = "port" /\ phase \in {"close", "down", "absent"}))

\* The bit was clear: schedule_work.
WakerSchedules(c) ==
    /\ waker[c] = "schedule"
    /\ Schedules(c)
    /\ UNCHANGED <<phase, after, txq, skb, work, active, wakeup, port, power,
                   vendor, cancelling, fresh>>

\* The bit was set: set_bit(WAKEUP), and schedule_work in the same step.
WakerFlags(c) ==
    /\ waker[c] = "flag"
    /\ wakeup' = TRUE
    /\ Schedules(c)
    /\ UNCHANGED <<phase, after, txq, skb, work, active, port, power, vendor,
                   cancelling, fresh>>
-----------------------------------------------------------------------------
(* btmtkuart_tx_work.                                                      *)

\* The work item runs: clear_bit(WAKEUP).
WorkStarts ==
    /\ work = "idle" /\ pending /\ pending' = FALSE
    /\ work' = "dequeue"
    /\ wakeup' = FALSE
    /\ UNCHANGED <<phase, after, txq, skb, active, waker, port, power,
                   vendor, cancelling, fresh, late>>

\* skb_dequeue.
WorkDequeues ==
    /\ work = "dequeue"
    /\ IF txq = <<>>
       THEN work' = "test" /\ UNCHANGED <<txq, skb>>
       ELSE work' = "write" /\ skb' = Head(txq) /\ txq' = Tail(txq)
    /\ UNCHANGED <<phase, after, pending, active, wakeup, waker, port,
                   power, vendor, cancelling, fresh, late>>

\* The units the port takes of the frame in hand: none once it is closed, and
\* perhaps none while it still holds some.
Taken ==
    {n \in 0..skb.left : n <= Room /\ IF portOn THEN n > 0 \/ notify ELSE n = 0}

\* A vendor command that has left: the controller answers it or does not.
Ask(id) ==
    \/ UNCHANGED answers
    \/ /\ id \in {"cur", "old"} /\ Len(answers) < MaxAnswers
       /\ answers' = Append(answers, id)

\* Mutant: a frame that has left is put back with no unit in it.
WorkWritesBack ==
    /\ work = "write"
    /\ notify' = portOn
    /\ \E n \in Taken : skb' = [skb EXCEPT !.left = @ - n]
    /\ work' = "requeue"
    /\ UNCHANGED <<phase, after, txq, pending, active, wakeup, waker, portOn,
                   power, vendor, cancelling, fresh, late>>

\* serdev_device_write_buf, which has the port call back when it has
\* sent, skb_pull, and kfree_skb of a frame that has left.
WorkWrites ==
    /\ work = "write"
    /\ notify' = portOn
    /\ \E n \in Taken :
         IF n = skb.left
         THEN /\ work' = "dequeue"
              /\ skb' = NoFrame
              /\ Ask(skb.id)
         ELSE /\ work' = "requeue"
              /\ skb' = [skb EXCEPT !.left = @ - n]
              /\ UNCHANGED answers
    /\ UNCHANGED <<phase, after, txq, pending, active, wakeup, waker, portOn,
                   power, wait_vnd, wmt, cmds, by, cancelling, fresh,
                   late>>

\* Mutant: the rest of a frame goes to the end of the queue.
WorkRequeuesLast ==
    /\ work = "requeue"
    /\ work' = "test"
    /\ txq' = Append(txq, skb)
    /\ skb' = NoFrame
    /\ UNCHANGED <<phase, after, pending, active, wakeup, waker, port,
                   power, vendor, cancelling, fresh, late>>

\* skb_queue_head of what the port did not take.
WorkRequeues ==
    /\ work = "requeue"
    /\ work' = "test"
    /\ txq' = <<skb>> \o txq
    /\ skb' = NoFrame
    /\ UNCHANGED <<phase, after, pending, active, wakeup, waker, port,
                   power, vendor, cancelling, fresh, late>>

\* test_bit(WAKEUP), and clear_bit if it was set: a caller that sets it
\* between the two finds the queue looked at once more all the same.
WorkTests ==
    /\ work = "test"
    /\ work' = IF wakeup THEN "dequeue" ELSE "done"
    /\ wakeup' = FALSE
    /\ UNCHANGED <<phase, after, txq, skb, pending, active, waker,
                   port, power, vendor, cancelling, fresh, late>>

\* clear_bit(ACTIVE).
WorkEnds ==
    /\ work = "done"
    /\ work' = "idle"
    /\ active' = FALSE
    /\ late' = (late /\ pending)
    /\ UNCHANGED <<phase, after, txq, skb, pending, wakeup, waker, port,
                   power, vendor, cancelling, fresh>>

Work == WorkStarts \/ WorkDequeues \/ WorkWrites \/ WorkRequeues
        \/ WorkTests \/ WorkEnds
-----------------------------------------------------------------------------
(* The serial port, the controller and the Bluetooth core.                 *)

\* The port has sent what it held and calls btmtkuart_write_wakeup.
Drain ==
    /\ notify
    /\ portOn /\ waker["port"] = "out"
    /\ notify' = FALSE
    /\ waker' = [waker EXCEPT !["port"] = "test"]
    /\ UNCHANGED <<phase, after, txq, skb, work, pending, active, wakeup,
                   portOn, power, vendor, cancelling, fresh, late>>

\* btmtkuart_recv_event: a vendor event clears the bit, whoever set it.
RecvEvent ==
    /\ portOn
    /\ answers # <<>>
    /\ answers' = Tail(answers)
    /\ wait_vnd' = FALSE
    /\ by' = IF wait_vnd THEN Head(answers) ELSE by
    /\ UNCHANGED <<phase, after, tx, port, power, wmt, cmds, cancelling, fresh, late>>

\* The core sends data while the device is up, and during a reset; a frame whose
\* buffer cannot be enlarged is dropped.  (It may send until hci_dev_do_close has
\* waited for its transmit work: such a call that begins after that of
\* btmtkuart_shutdown is left out.)
CoreSends(d) ==
    /\ phase = "up" \/ after = "up"
    /\ d \in fresh
    /\ fresh' = fresh \ {d}
    /\ \/ Queue("core", d)
       \/ UNCHANGED <<txq, waker>>
    /\ UNCHANGED <<phase, after, skb, work, pending, active, wakeup, port, power, vendor, cancelling, late>>

\* hci_dev_do_reset waits for its command, and everything that powers the
\* device up or down waits for hci_dev_do_reset.
Settled ==
    /\ waker["power"] = "out"
    /\ \A k \in DOMAIN (InHand \o txq) : (InHand \o txq)[k].id # "reset"

\* hci_dev_do_close of a device that stays: btmtkuart_shutdown.
PowerDown ==
    /\ phase = "up" /\ Settled
    /\ phase' = "shutdown"
    /\ wmt' = "send" /\ cmds' = 1
    /\ UNCHANGED <<after, tx, port, power, wait_vnd, answers, by, cancelling, fresh, late>>

\* hci_dev_do_reset, which leaves the device powered.
Reset ==
    /\ phase = "up" /\ Settled
    /\ phase' = "flush" /\ after' = "up"
    /\ UNCHANGED <<tx, port, power, vendor, cancelling, fresh, late>>

\* btmtkuart_remove: hci_unregister_dev closes a device that is up, without
\* btmtkuart_shutdown; hci_free_dev and devres take the structures.
BtRemove ==
    /\ \/ phase = "up" /\ Settled /\ phase' = "flush" /\ after' = "absent"
       \/ phase = "down" /\ phase' = "absent" /\ UNCHANGED after
    /\ UNCHANGED <<tx, port, power, vendor, cancelling, fresh, late>>
-----------------------------------------------------------------------------
(* btmtkuart_flush and btmtkuart_close.                                    *)

\* serdev_device_write_flush and skb_queue_purge.  On the way down the core
\* has waited for its senders.
FlushPurges ==
    /\ phase = "flush"
    /\ after = "up" \/ waker["core"] = "out"
    /\ phase' = "cancel"
    /\ txq' = <<>>
    /\ UNCHANGED <<after, skb, work, pending, active, wakeup, waker, notify,
                   portOn, power, vendor, cancelling, fresh, late>>

\* cancel_work_sync takes the work back ...
FlushCancels ==
    /\ phase = "cancel"
    /\ phase' = "drain"
    /\ pending' = FALSE /\ cancelling' = TRUE
    /\ UNCHANGED <<after, txq, skb, work, active, wakeup, waker, port,
                   power, vendor, fresh, late>>

\* Mutant: cancel_work, which does not wait.
FlushWaitsNot ==
    /\ phase = "drain"
    /\ cancelling' = FALSE
    /\ late' = FALSE
    /\ IF after = "up"
       THEN /\ phase' = "up" /\ after' = "down"
            /\ Queue("power", "reset")
       ELSE /\ phase' = "close"
            /\ UNCHANGED <<after, txq, waker>>
    /\ UNCHANGED <<skb, work, pending, active, wakeup, port, power,
                   vendor, fresh>>

\* ... and waits for a run of it to end.  hci_dev_do_reset then sends a
\* command (whose buffer is taken to be large enough).
FlushWaits ==
    /\ phase = "drain"
    /\ work = "idle"
    /\ cancelling' = FALSE
    /\ late' = FALSE
    /\ IF after = "up"
       THEN /\ phase' = "up" /\ after' = "down"
            /\ Queue("power", "reset")
       ELSE /\ phase' = "close"
            /\ UNCHANGED <<after, txq, waker>>
    /\ UNCHANGED <<skb, work, pending, active, wakeup, port, power,
                   vendor, fresh>>

\* btmtkuart_close: the clock, the power domain, the port.  Closing the port
\* waits for a call of write_wakeup to return.  The controller may still answer a
\* command after the next power-up.
BtClose ==
    /\ phase = "close"
    /\ waker["port"] = "out"
    /\ phase' = after /\ after' = "down"
    /\ ports' = ports - 1 /\ powers' = powers - 1 /\ clocks' = clocks - 1
    /\ portOn' = FALSE
    /\ notify' = FALSE
    /\ fresh' = {}
    /\ UNCHANGED <<tx, open_failed, vendor, cancelling, late>>
-----------------------------------------------------------------------------
Waker(c) == WakerTests(c) \/ WakerFlags(c) \/ WakerSchedules(c)

\* The thread that powers the device up or down, until it has done so.
PowerThread ==
    \/ LoadFirmware \/ FirmwareFails
    \/ WmtSend \/ WmtSendFails \/ WmtAnswered \/ WmtGivesUp
    \/ FlushPurges \/ FlushCancels \/ FlushWaits \/ BtClose

BtNext ==
    \/ BtProbe \/ BtOpen \/ BtOpenFails
    \/ LoadFirmware \/ FirmwareFails
    \/ WmtSend \/ WmtSendFails \/ WmtAnswered \/ WmtGivesUp
    \/ \E c \in Callers : WakerTests(c) \/ WakerFlags(c) \/ WakerSchedules(c)
    \/ Work
    \/ Drain \/ RecvEvent
    \/ \E d \in Data : CoreSends(d)
    \/ PowerDown \/ Reset \/ BtRemove
    \/ FlushPurges \/ FlushCancels \/ FlushWaits \/ BtClose

BtFairness ==
    /\ WF_btVars(Work)
    /\ \A c \in Callers : WF_btVars(Waker(c))
    /\ WF_btVars(Drain)
    /\ WF_btVars(PowerThread)

BtSpec == BtInit /\ [][BtNext]_btVars /\ BtFairness
-----------------------------------------------------------------------------
\* Every variable keeps to its range.
BtTypeOK ==
    /\ phase \in Phases /\ after \in Goals
    /\ {ports, powers, clocks, cmds} \subseteq Nat
    /\ {portOn, active, wakeup, wait_vnd, pending, cancelling, notify,
        open_failed, late} \subseteq BOOLEAN
    /\ \A k \in DOMAIN txq : txq[k] \in Frames
    /\ skb \in Frames \cup {NoFrame}
    /\ work \in {"idle", "dequeue", "write", "requeue", "test", "done"}
    /\ waker \in [Callers -> {"out", "test", "flag", "schedule"}]
    /\ wmt \in {"out", "firmware", "send", "wait"}
    /\ fresh \subseteq Data
    /\ answers \in Seq({"cur", "old"}) /\ Len(answers) <= MaxAnswers
    /\ by \in {"none", "cur", "old"}

\* What the driver promises of the order of frames: those that were accepted
\* and have not left, with the one the worker holds, are a FIFO channel,
\* whatever part of a frame the port takes and whenever flush runs.
Plain(id) == IF id \in {"cur", "old"} THEN "cmd" ELSE id

Channel == INSTANCE FrameChannel WITH
    Frames <- Data \cup {"cmd", "reset"},
    waiting <- [k \in DOMAIN (InHand \o txq) |-> Plain((InHand \o txq)[k].id)]

ChannelSpec == Channel!Spec

\* btmtkuart_setup goes on, and the device is up, only after an event that a
\* vendor command caused: its own, or one that was given up before and whose
\* late event ends the wait of another.
SetupIsAnswered ==
    [][phase = "setup" /\ wmt = "wait" /\ (wmt' = "send" \/ phase' = "up")
       => by \in {"cur", "old"}]_btVars

\* The power domain and the clock are held exactly while the device is open;
\* each failed open leaves one more port open, and nothing else does.
PowerBalanced ==
    /\ powers = IF phase \in Powered THEN 1 ELSE 0
    /\ clocks = powers
    /\ ports = powers + (IF open_failed THEN 1 ELSE 0)
    /\ portOn => ports > 0
    /\ powers > 0 => portOn

\* Only write_wakeup, called between the flush and the closing of the port or
\* through a port that a failed open left open, makes tx_work run on a device
\* that is gone: cancel_work_sync catches every other caller.
LateWorkOnly == phase = "absent" /\ (pending \/ work # "idle") => late

\* Somebody is going to look at the queue, if there is anything to find: tx_work
\* before it takes WAKEUP for clear, a run of it that is scheduled, a caller
\* inside btmtkuart_tx_wakeup, or the port, which is going to call.
Attended ==
    txq # <<>> \/ work = "requeue" =>
      \/ work \in {"dequeue", "write"}
      \/ work \in {"requeue", "test"} /\ wakeup
      \/ pending \/ notify
      \/ \E c \in Callers : waker[c] # "out"

\* The phases in which frames are carried: cancel_work_sync ends them.
Carried == {"setup", "up", "shutdown", "flush", "cancel"}

\* No step of the callers, of the work item or of the port leaves frames in the
\* queue that nobody is going to look at.  (The rest of a frame that tx_work puts
\* back behind the purge of btmtkuart_flush may wait unseen, through close and
\* open, for the next caller.)
NoFrameStranded == [][phase' \in Carried /\ Attended => Attended']_btVars

\* A frame in the queue of a device that is up, if somebody is going to look at
\* it, leaves, or the device does not stay up: no interleaving of the bits of
\* tx_state and of the work item strands it, nor does the flush of a reset.
QueuedIsSent ==
    \A d \in Data :
        (\E k \in DOMAIN txq : txq[k].id = d) /\ Attended /\ phase = "up"
        ~> phase # "up" \/ \A k \in DOMAIN (InHand \o txq) : (InHand \o txq)[k].id # d

\* Powering up or down and removing come to an end, whether the controller
\* answers or not.
PowerReturns == phase \notin {"up", "down", "absent"} ~> phase \in {"up", "down", "absent"}
=============================================================================
