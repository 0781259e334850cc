------------------------------- MODULE HciAth -------------------------------
(***************************************************************************)
(* The Atheros protocol of hci_uart, hc05/hci_ath.c: frames wait in txq    *)
(* until a work item, ctxtsw, has seen that the controller is awake.       *)
(*                                                                         *)
(* hci_uart itself is external: its write work takes frames with           *)
(* ath_dequeue and gives them to the port, which may take a part; its      *)
(* function hci_uart_tx_wakeup schedules the write work unless the bit     *)
(* SENDING says that this has been done.  ath_enqueue sets that bit so     *)
(* that nothing is written before ctxtsw has run, and ctxtsw clears it.    *)
(***************************************************************************)
EXTENDS Integers, Sequences

CONSTANTS
    AthData,        \* the frames that are no sleep command
    MaxQueue,       \* a bound on the frames in txq
    NoSkb           \* no frame

\* The vendor command 0xFC04 enables or disables sleep.
SleepCommands == {"sleep_on", "sleep_off"}
AthFrames == AthData \cup SleepCommands

ASSUME AthAssumption ==
    /\ MaxQueue \in Nat \ {0}
    /\ AthData \cap SleepCommands = {}
    /\ NoSkb \notin AthFrames

VARIABLES
    line,           \* closed, open, or inside ath_close
    ath_txq,        \* the queue of frames
    tx_skb,         \* the frame of which the port has taken a part
    sending, tx_wakeup,     \* the bits of hu->tx_state
    cur_sleep,      \* whether the last sleep command enabled sleep
    sender,         \* where the sender is inside hci_uart_send_frame
    ctxtsw,         \* where ath_hci_uart_work is
    ctx_pending,    \* whether it is scheduled
    writer,         \* where the write work of hci_uart is
    write_pending,  \* whether it is scheduled
    port_busy,      \* whether the port holds something and will call back
    refused         \* history: the last run of ctxtsw found no CTS

athVars == <<line, ath_txq, tx_skb, sending, tx_wakeup, cur_sleep, sender,
             ctxtsw, ctx_pending, writer, write_pending, port_busy, refused>>

AthInit ==
    /\ line = "closed"
    /\ ath_txq = <<>> /\ tx_skb = NoSkb
    /\ sending = FALSE /\ tx_wakeup = FALSE /\ cur_sleep = FALSE
    /\ sender = "out" /\ ctxtsw = "idle" /\ writer = "idle"
    /\ ctx_pending = FALSE /\ write_pending = FALSE
    /\ port_busy = FALSE /\ refused = FALSE

\* hci_uart_tx_wakeup, which does nothing once the protocol is not ready.
TxWakeup ==
    /\ sending' = (sending \/ line = "open")
    /\ tx_wakeup' = (tx_wakeup \/ (line = "open" /\ sending))
    /\ write_pending' = (write_pending \/ (line = "open" /\ ~sending))
-----------------------------------------------------------------------------
\* ath_open, of a line discipline that has just been set up; without flow
\* control, or without memory, it fails and nothing is kept.
AthOpen ==
    /\ line = "closed"
    /\ line' = "open"
    /\ sending' = FALSE /\ tx_wakeup' = FALSE /\ cur_sleep' = FALSE
    /\ refused' = FALSE
    /\ UNCHANGED <<ath_txq, tx_skb, sender, ctxtsw, ctx_pending, writer,
                   write_pending, port_busy>>

\* The frames in the queue; the same frame is not queued twice at a time.
Waiting == {ath_txq[k] : k \in DOMAIN ath_txq}

\* Mutant: the queue is a stack.
AthEnqueueFirst(f) ==
    /\ line = "open" /\ sender = "out"
    /\ Len(ath_txq) < MaxQueue /\ f \notin Waiting
    /\ ath_txq' = <<f>> \o ath_txq
    /\ cur_sleep' = IF f \in SleepCommands THEN f = "sleep_on" ELSE cur_sleep
    /\ sender' = "set"
    /\ UNCHANGED <<line, tx_skb, sending, tx_wakeup, ctxtsw, ctx_pending,
                   writer, write_pending, port_busy, refused>>

\* ath_enqueue up to skb_queue_tail: a sleep command is noted when it is
\* queued, not when it is sent.  (SCO frames are dropped.)
AthEnqueue(f) ==
    /\ line = "open" /\ sender = "out"
    /\ Len(ath_txq) < MaxQueue /\ f \notin Waiting
    /\ ath_txq' = Append(ath_txq, f)
    /\ cur_sleep' = IF f \in SleepCommands THEN f = "sleep_on" ELSE cur_sleep
    /\ sender' = "set"
    /\ UNCHANGED <<line, tx_skb, sending, tx_wakeup, ctxtsw, ctx_pending,
                   writer, write_pending, port_busy, refused>>

\* set_bit(SENDING).
AthSetsSending ==
    /\ sender = "set"
    /\ sending' = TRUE
    /\ sender' = "schedule"
    /\ UNCHANGED <<line, ath_txq, tx_skb, tx_wakeup, cur_sleep, ctxtsw,
                   ctx_pending, writer, write_pending, port_busy, refused>>

\* schedule_work.
AthSchedules ==
    /\ sender = "schedule"
    /\ ctx_pending' = TRUE
    /\ sender' = "wakeup"
    /\ UNCHANGED <<line, ath_txq, tx_skb, sending, tx_wakeup, cur_sleep,
                   ctxtsw, writer, write_pending, port_busy, refused>>

\* hci_uart_send_frame wakes the write work after enqueue.
SenderWakes ==
    /\ sender = "wakeup"
    /\ TxWakeup
    /\ sender' = "out"
    /\ UNCHANGED <<line, ath_txq, tx_skb, cur_sleep, ctxtsw, ctx_pending,
                   writer, port_busy, refused>>
-----------------------------------------------------------------------------
(* ath_hci_uart_work.                                                      *)

CtxStarts ==
    /\ ctxtsw = "idle" /\ ctx_pending
    /\ ctx_pending' = FALSE
    /\ ctxtsw' = IF cur_sleep THEN "wake" ELSE "clear"
    /\ UNCHANGED <<line, ath_txq, tx_skb, sending, tx_wakeup, cur_sleep,
                   sender, writer, write_pending, port_busy, refused>>

\* ath_wakeup_ar3k: the controller raises CTS, at once or after RTS has been
\* toggled ...
CtxWakes ==
    /\ ctxtsw = "wake"
    /\ ctxtsw' = "clear"
    /\ UNCHANGED <<line, ath_txq, tx_skb, sending, tx_wakeup, cur_sleep,
                   sender, ctx_pending, writer, write_pending, port_busy,
                   refused>>

\* ... or does not: the work item returns and SENDING stays set.
CtxRefused ==
    /\ ctxtsw = "wake"
    /\ ctxtsw' = "idle"
    /\ refused' = TRUE
    /\ UNCHANGED <<line, ath_txq, tx_skb, sending, tx_wakeup, cur_sleep,
                   sender, ctx_pending, writer, write_pending, port_busy>>

\* Mutant: the bit is not cleared.
CtxKeeps ==
    /\ ctxtsw = "clear"
    /\ refused' = FALSE
    /\ ctxtsw' = "wakeup"
    /\ UNCHANGED <<line, ath_txq, tx_skb, sending, tx_wakeup, cur_sleep,
                   sender, ctx_pending, writer, write_pending, port_busy>>

\* clear_bit(SENDING).
CtxClears ==
    /\ ctxtsw = "clear"
    /\ sending' = FALSE
    /\ refused' = FALSE
    /\ ctxtsw' = "wakeup"
    /\ UNCHANGED <<line, ath_txq, tx_skb, tx_wakeup, cur_sleep, sender,
                   ctx_pending, writer, write_pending, port_busy>>

\* hci_uart_tx_wakeup.
CtxWakesWriter ==
    /\ ctxtsw = "wakeup"
    /\ TxWakeup
    /\ ctxtsw' = "idle"
    /\ UNCHANGED <<line, ath_txq, tx_skb, cur_sleep, sender, ctx_pending,
                   writer, port_busy, refused>>

Ctx == CtxStarts \/ CtxWakes \/ CtxRefused \/ CtxClears \/ CtxWakesWriter
-----------------------------------------------------------------------------
(* The write work of hci_uart and the port.                                *)

\* It clears WAKEUP when it starts.
WriteStarts ==
    /\ writer = "idle" /\ write_pending
    /\ write_pending' = FALSE
    /\ tx_wakeup' = FALSE
    /\ writer' = "dequeue"
    /\ UNCHANGED <<line, ath_txq, tx_skb, sending, cur_sleep, sender, ctxtsw,
                   ctx_pending, port_busy, refused>>

\* It goes on with the frame it could not finish or takes one with
\* ath_dequeue; the port takes it whole or in part.
WriteFrame ==
    /\ writer = "dequeue"
    /\ tx_skb # NoSkb \/ ath_txq # <<>>
    /\ ath_txq' = IF tx_skb = NoSkb THEN Tail(ath_txq) ELSE ath_txq
    /\ \/ tx_skb' = NoSkb /\ UNCHANGED writer
       \/ /\ tx_skb' = IF tx_skb = NoSkb THEN Head(ath_txq) ELSE tx_skb
          /\ tx_skb = NoSkb \/ port_busy
          /\ writer' = "clear"
    /\ port_busy' = TRUE
    /\ UNCHANGED <<line, sending, tx_wakeup, cur_sleep, sender, ctxtsw,
                   ctx_pending, write_pending, refused>>

\* ath_dequeue has nothing left.
WriteEmpty ==
    /\ writer = "dequeue"
    /\ tx_skb = NoSkb /\ ath_txq = <<>>
    /\ writer' = "clear"
    /\ UNCHANGED <<line, ath_txq, tx_skb, sending, tx_wakeup, cur_sleep,
                   sender, ctxtsw, ctx_pending, write_pending, port_busy,
                   refused>>

\* It clears SENDING ...
WriteClears ==
    /\ writer = "clear"
    /\ sending' = FALSE
    /\ writer' = "test"
    /\ UNCHANGED <<line, ath_txq, tx_skb, tx_wakeup, cur_sleep, sender,
                   ctxtsw, ctx_pending, write_pending, port_busy, refused>>

\* ... and starts again if it was woken meanwhile.
WriteTests ==
    /\ writer = "test"
    /\ writer' = IF tx_wakeup THEN "dequeue" ELSE "idle"
    /\ tx_wakeup' = FALSE
    /\ UNCHANGED <<line, ath_txq, tx_skb, sending, cur_sleep, sender, ctxtsw,
                   ctx_pending, write_pending, port_busy, refused>>

Write == WriteStarts \/ WriteFrame \/ WriteEmpty \/ WriteClears \/ WriteTests

\* The port has sent what it held.
PortWakes ==
    /\ port_busy
    /\ port_busy' = FALSE
    /\ TxWakeup
    /\ UNCHANGED <<line, ath_txq, tx_skb, cur_sleep, sender, ctxtsw,
                   ctx_pending, writer, refused>>
-----------------------------------------------------------------------------
\* hci_uart_flush drops the frame in hand, ath_flush the queue.
AthFlush ==
    /\ line = "open"
    /\ ath_txq # <<>> \/ tx_skb # NoSkb
    /\ ath_txq' = <<>> /\ tx_skb' = NoSkb
    /\ UNCHANGED <<line, sending, tx_wakeup, cur_sleep, sender, ctxtsw,
                   ctx_pending, writer, write_pending, port_busy, refused>>

\* hci_uart stops its senders and its write work; ath_close purges the queue ...
AthCloses ==
    /\ line = "open"
    /\ sender = "out" /\ writer = "idle"
    /\ line' = "closing"
    /\ write_pending' = FALSE
    /\ ath_txq' = <<>> /\ tx_skb' = NoSkb
    /\ port_busy' = FALSE
    /\ UNCHANGED <<sending, tx_wakeup, cur_sleep, sender, ctxtsw, ctx_pending,
                   writer, refused>>

\* ... and cancel_work_sync waits for ctxtsw.
AthClosed ==
    /\ line = "closing"
    /\ ctxtsw = "idle"
    /\ line' = "closed"
    /\ ctx_pending' = FALSE
    /\ UNCHANGED <<ath_txq, tx_skb, sending, tx_wakeup, cur_sleep, sender,
                   ctxtsw, writer, write_pending, port_busy, refused>>

AthNext ==
    \/ AthOpen
    \/ \E f \in AthFrames : AthEnqueue(f)
    \/ AthSetsSending \/ AthSchedules \/ SenderWakes
    \/ CtxStarts \/ CtxWakes \/ CtxRefused \/ CtxClears \/ CtxWakesWriter
    \/ WriteStarts \/ WriteFrame \/ WriteEmpty \/ WriteClears \/ WriteTests
    \/ PortWakes
    \/ AthFlush \/ AthCloses \/ AthClosed

AthFairness ==
    /\ WF_athVars(AthSetsSending \/ AthSchedules \/ SenderWakes)
    /\ WF_athVars(Ctx)
    /\ WF_athVars(Write)
    /\ WF_athVars(PortWakes)
    /\ WF_athVars(AthClosed)

AthSpec == AthInit /\ [][AthNext]_athVars /\ AthFairness
-----------------------------------------------------------------------------
\* Every variable keeps to its range.
AthTypeOK ==
    /\ line \in {"closed", "open", "closing"}
    /\ ath_txq \in Seq(AthFrames) /\ Len(ath_txq) <= MaxQueue
    /\ tx_skb \in AthFrames \cup {NoSkb}
    /\ sending \in BOOLEAN /\ tx_wakeup \in BOOLEAN /\ cur_sleep \in BOOLEAN
    /\ sender \in {"out", "set", "schedule", "wakeup"}
    /\ ctxtsw \in {"idle", "wake", "clear", "wakeup"}
    /\ ctx_pending \in BOOLEAN
    /\ writer \in {"idle", "dequeue", "test", "clear"}
    /\ write_pending \in BOOLEAN
    /\ port_busy \in BOOLEAN /\ refused \in BOOLEAN

\* Somebody is on the way to the queue or to the bit SENDING.
Attended ==
    \/ sender # "out"
    \/ ctx_pending \/ ctxtsw # "idle"
    \/ write_pending \/ writer # "idle"

\* Frames wait in the queue of an open line, or SENDING keeps the write work
\* from being scheduled, only while somebody is going to see to it: whatever
\* the order of enqueue, ctxtsw, the write work and the port, both are left
\* alone only by a run of ctxtsw that found no CTS, or while the rest of a
\* frame waits for the port.
NothingStranded ==
    line = "open" /\ (ath_txq # <<>> \/ tx_skb # NoSkb \/ sending)
    => Attended \/ refused \/ (tx_skb # NoSkb /\ port_busy)

\* A frame in the queue leaves it for the port, is flushed, or the controller
\* does not wake up.
AthQueuedLeaves ==
    \A f \in AthData : f \in Waiting ~> refused \/ f \notin Waiting

\* Frames reach the port in the order in which they were queued.
AthChannel == INSTANCE FrameChannel WITH
    Frames <- AthFrames,
    waiting <- (IF tx_skb = NoSkb THEN <<>> ELSE <<tx_skb>>) \o ath_txq

AthChannelSpec == AthChannel!Spec
=============================================================================
