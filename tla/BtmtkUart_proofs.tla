---------------------------- MODULE BtmtkUart_proofs ----------------------------
(***************************************************************************)
(* The safety of btmtkuart.c, for any frames, any size of a frame, any     *)
(* room in the port and any firmware, and of its receive path, for every   *)
(* stream of bytes and every way it is cut into pieces.                    *)
(***************************************************************************)
EXTENDS BtmtkUart, BtmtkStp, SequenceTheorems, WellFoundedInduction, TLAPS

-----------------------------------------------------------------------------
(* Power: what open takes and close gives back.                            *)

\* The vendor commands belong to a power-up or a power-down, and what goes up
\* again is a reset, which never closes the port.
PowerInv ==
    /\ PowerBalanced
    /\ after \in Goals
    /\ wmt # "out" => phase \in {"setup", "shutdown"}
    /\ after = "up" => phase \in {"flush", "cancel", "drain"}

LEMMA PowerInvInit == BtInit => PowerInv
  BY DEF BtInit, PowerInv, PowerBalanced, Powered, Goals

LEMMA PowerInvStep == PowerInv /\ [BtNext]_btVars => PowerInv'
<1> SUFFICES ASSUME PowerInv, [BtNext]_btVars PROVE PowerInv'
  OBVIOUS
<1> USE DEF PowerInv, PowerBalanced, Powered, Goals, port, power
<1>1. CASE BtProbe
  BY <1>1 DEF BtProbe
<1>2. CASE BtOpen
  BY <1>2 DEF BtOpen
<1>3. CASE BtOpenFails
  BY <1>3 DEF BtOpenFails, vendor
<1>4. CASE LoadFirmware
  BY <1>4 DEF LoadFirmware
<1>5. CASE FirmwareFails
  BY <1>5 DEF FirmwareFails, WmtFails
<1>6. CASE WmtSend
  BY <1>6 DEF WmtSend
<1>7. CASE WmtSendFails
  BY <1>7 DEF WmtSendFails, WmtFails
<1>8. CASE WmtAnswered
  BY <1>8 DEF WmtAnswered
<1>9. CASE WmtGivesUp
  BY <1>9 DEF WmtGivesUp, WmtFails
<1>10. ASSUME NEW c \in Callers, WakerTests(c) \/ WakerFlags(c) \/ WakerSchedules(c)
       PROVE  PowerInv'
  BY <1>10 DEF WakerTests, WakerFlags, WakerSchedules, vendor
<1>11. CASE Work
  BY <1>11 DEF Work, WorkStarts, WorkDequeues, WorkWrites, WorkRequeues,
               WorkTests, WorkEnds, vendor
<1>12. CASE Drain \/ RecvEvent
  BY <1>12 DEF Drain, RecvEvent, vendor
<1>13. ASSUME NEW d \in Data, CoreSends(d) PROVE PowerInv'
  BY <1>13 DEF CoreSends, vendor
<1>14. CASE PowerDown
  BY <1>14 DEF PowerDown
<1>15. CASE Reset
  BY <1>15 DEF Reset, vendor
<1>16. CASE BtRemove
  BY <1>16 DEF BtRemove, vendor
<1>17. CASE FlushPurges \/ FlushCancels
  BY <1>17 DEF FlushPurges, FlushCancels, vendor
<1>18. CASE FlushWaits
  BY <1>18 DEF FlushWaits, vendor
<1>19. CASE BtClose
  BY <1>19 DEF BtClose, vendor
<1>20. CASE UNCHANGED btVars
  BY <1>20 DEF btVars, vendor
<1> QED
  BY <1>1, <1>2, <1>3, <1>4, <1>5, <1>6, <1>7, <1>8, <1>9, <1>10, <1>11,
     <1>12, <1>13, <1>14, <1>15, <1>16, <1>17, <1>18, <1>19, <1>20 DEF BtNext

\* However often the device is opened, reset and removed, and wherever open or a
\* vendor command fails: power domain and clock are held exactly while it is open,
\* and one port is left behind by an open that failed.
THEOREM PowerStaysBalanced == BtSpec => []PowerBalanced
<1>1. PowerInv => PowerBalanced
  BY DEF PowerInv
<1> QED
  BY <1>1, PowerInvInit, PowerInvStep, PTL DEF BtSpec
-----------------------------------------------------------------------------
(* The types, which need to know where tx_work holds a frame and that the  *)
(* vendor commands are counted.                                            *)

HoldsFrame == work \in {"write", "requeue"} => skb \in Frames

Counted ==
    /\ wmt \in {"out", "firmware", "send", "wait"}
    /\ cmds \in Nat
    /\ wmt \in {"send", "wait"} => cmds > 0

BitsOK ==
    /\ portOn \in BOOLEAN /\ active \in BOOLEAN /\ wakeup \in BOOLEAN
    /\ wait_vnd \in BOOLEAN /\ pending \in BOOLEAN /\ cancelling \in BOOLEAN
    /\ notify \in BOOLEAN /\ open_failed \in BOOLEAN /\ late \in BOOLEAN

PlacesOK ==
    /\ phase \in Phases
    /\ work \in {"idle", "dequeue", "write", "requeue", "test", "done"}
    /\ waker \in [Callers -> {"out", "test", "flag", "schedule"}]
    /\ fresh \subseteq Data
    /\ by \in {"none", "cur", "old"}

FramesOK ==
    /\ txq \in Seq(Frames)
    /\ skb \in Frames \cup {NoFrame}
    /\ HoldsFrame

AnswersOK == answers \in Seq({"cur", "old"}) /\ Len(answers) <= MaxAnswers

TypeInv == BitsOK /\ PlacesOK /\ Counted /\ FramesOK /\ AnswersOK

LEMMA TypeInvInit == BtInit => TypeInv
<1> SUFFICES ASSUME BtInit PROVE TypeInv
  OBVIOUS
<1>1. BitsOK /\ Counted
  BY DEF BtInit, BitsOK, Counted
<1>2. PlacesOK
  BY DEF BtInit, PlacesOK, Phases
<1>3. FramesOK /\ AnswersOK
  <2>1. Len(answers) = 0
    BY DEF BtInit
  <2> QED
    BY <2>1, BtAssumption DEF BtInit, FramesOK, HoldsFrame, AnswersOK
<1> QED
  BY <1>1, <1>2, <1>3 DEF TypeInv

LEMMA BitsStep == BitsOK /\ [BtNext]_btVars => BitsOK'
<1> SUFFICES ASSUME BitsOK, [BtNext]_btVars PROVE BitsOK'
  OBVIOUS
<1> USE DEF BitsOK, port, power, vendor, tx
<1>1. CASE BtProbe \/ BtOpen \/ BtOpenFails
  BY <1>1 DEF BtProbe, BtOpen, BtOpenFails
<1>2. CASE LoadFirmware \/ FirmwareFails \/ WmtSend \/ WmtSendFails \/ WmtAnswered
  BY ZenonT(60), <1>2 DEF LoadFirmware, FirmwareFails, WmtSend, WmtSendFails, WmtAnswered
<1>3. CASE WmtGivesUp
  BY <1>3 DEF WmtGivesUp
<1>4. ASSUME NEW c \in Callers, WakerTests(c) \/ WakerFlags(c) \/ WakerSchedules(c)
      PROVE  BitsOK'
  BY <1>4 DEF WakerTests, WakerFlags, WakerSchedules, Schedules
<1>5. CASE Work
  BY ZenonT(60), <1>5 DEF Work, WorkStarts, WorkDequeues, WorkWrites, WorkRequeues,
              WorkTests, WorkEnds
<1>6. CASE Drain \/ RecvEvent
  BY <1>6 DEF Drain, RecvEvent
<1>7. ASSUME NEW d \in Data, CoreSends(d) PROVE BitsOK'
  BY <1>7 DEF CoreSends
<1>8. CASE PowerDown \/ Reset \/ BtRemove
  BY <1>8 DEF PowerDown, Reset, BtRemove
<1>9. CASE FlushPurges \/ FlushCancels \/ FlushWaits \/ BtClose
  BY ZenonT(60), <1>9 DEF FlushPurges, FlushCancels, FlushWaits, BtClose
<1>10. CASE UNCHANGED btVars
  BY <1>10 DEF btVars
<1> QED
  BY <1>1, <1>2, <1>3, <1>4, <1>5, <1>6, <1>7, <1>8, <1>9, <1>10 DEF BtNext

LEMMA CountedStep == Counted /\ [BtNext]_btVars => Counted'
<1> SUFFICES ASSUME Counted, [BtNext]_btVars PROVE Counted'
  OBVIOUS
<1> USE DEF Counted, vendor
<1>1. CASE LoadFirmware
  BY <1>1, BtAssumption DEF LoadFirmware
<1>2. CASE FirmwareFails \/ WmtSendFails \/ WmtGivesUp
  BY <1>2 DEF FirmwareFails, WmtSendFails, WmtGivesUp, WmtFails
<1>3. CASE WmtSend
  BY <1>3 DEF WmtSend
<1>4. CASE WmtAnswered
  BY <1>4 DEF WmtAnswered
<1>5. CASE BtOpen \/ BtProbe \/ BtOpenFails
  BY <1>5 DEF BtOpen, BtProbe, BtOpenFails
<1>6. ASSUME NEW c \in Callers, WakerTests(c) \/ WakerFlags(c) \/ WakerSchedules(c)
      PROVE  Counted'
  BY <1>6 DEF WakerTests, WakerFlags, WakerSchedules
<1>7. CASE Work
  BY <1>7 DEF Work, WorkStarts, WorkDequeues, WorkWrites, WorkRequeues,
              WorkTests, WorkEnds
<1>8. CASE Drain \/ RecvEvent
  BY <1>8 DEF Drain, RecvEvent
<1>9. ASSUME NEW d \in Data, CoreSends(d) PROVE Counted'
  BY <1>9 DEF CoreSends
<1>10. CASE PowerDown \/ Reset \/ BtRemove
  BY <1>10 DEF PowerDown, Reset, BtRemove
<1>11. CASE FlushPurges \/ FlushCancels \/ FlushWaits \/ BtClose
  BY <1>11 DEF FlushPurges, FlushCancels, FlushWaits, BtClose
<1>12. CASE UNCHANGED btVars
  BY <1>12 DEF btVars
<1> QED
  BY <1>1, <1>2, <1>3, <1>4, <1>5, <1>6, <1>7, <1>8, <1>9, <1>10, <1>11,
     <1>12 DEF BtNext

LEMMA PlacesStep ==
  PlacesOK /\ AnswersOK /\ after \in Goals /\ [BtNext]_btVars => PlacesOK'
<1> SUFFICES ASSUME PlacesOK, AnswersOK, after \in Goals, [BtNext]_btVars
             PROVE  PlacesOK'
  OBVIOUS
<1> USE DEF PlacesOK, Phases, vendor, tx
<1>1. CASE BtOpen \/ BtProbe \/ BtOpenFails
  BY <1>1 DEF BtOpen, BtProbe, BtOpenFails
<1>2. CASE LoadFirmware \/ FirmwareFails \/ WmtSendFails \/ WmtAnswered \/ WmtGivesUp
  BY <1>2 DEF LoadFirmware, FirmwareFails, WmtSendFails, WmtAnswered,
              WmtGivesUp, WmtFails
<1>3. CASE WmtSend
  BY <1>3 DEF WmtSend, Queue, Callers
<1>4. ASSUME NEW c \in Callers, WakerTests(c) \/ WakerFlags(c) \/ WakerSchedules(c)
      PROVE  PlacesOK'
  BY <1>4 DEF WakerTests, WakerFlags, WakerSchedules, Schedules
<1>5. CASE Work
  BY <1>5 DEF Work, WorkStarts, WorkDequeues, WorkWrites, WorkRequeues,
              WorkTests, WorkEnds
<1>6. CASE Drain
  BY <1>6 DEF Drain, Callers
<1>7. CASE RecvEvent
  <2>1. Head(answers) \in {"cur", "old"}
    BY <1>7, HeadTailProperties DEF RecvEvent, AnswersOK
  <2> QED
    BY <1>7, <2>1 DEF RecvEvent
<1>8. ASSUME NEW d \in Data, CoreSends(d) PROVE PlacesOK'
  BY <1>8 DEF CoreSends, Queue, Callers
<1>9. CASE PowerDown \/ Reset \/ BtRemove
  BY <1>9 DEF PowerDown, Reset, BtRemove
<1>10. CASE FlushPurges \/ FlushCancels \/ FlushWaits
  BY <1>10 DEF FlushPurges, FlushCancels, FlushWaits, Queue, Callers
<1>11. CASE BtClose
  BY <1>11 DEF BtClose, Goals
<1>12. CASE UNCHANGED btVars
  BY <1>12 DEF btVars
<1> QED
  BY <1>1, <1>2, <1>3, <1>4, <1>5, <1>6, <1>7, <1>8, <1>9, <1>10, <1>11,
     <1>12 DEF BtNext

\* What is queued is a frame, and one that ages stays one.
LEMMA FrameTypes ==
  /\ \A id \in Ids : Frame(id) \in Frames
  /\ \A f \in Frames : Aged(f) \in Frames /\ Aged(f).left = f.left
  /\ \A f \in Frames : f # NoFrame
<1>1. ASSUME NEW id \in Ids PROVE Frame(id) \in Frames
  BY BtAssumption DEF Frame, Frames
<1>2. ASSUME NEW f \in Frames PROVE Aged(f) \in Frames /\ Aged(f).left = f.left
  BY DEF Frames, Aged, AgedId, Ids
<1> QED
  BY <1>1, <1>2, BtAssumption

LEMMA QueueTypes ==
  ASSUME FramesOK, NEW c \in Callers, NEW id \in Ids, Queue(c, id)
  PROVE  txq' \in Seq(Frames)
  BY FrameTypes DEF Queue, FramesOK

LEMMA FramesStep == FramesOK /\ [BtNext]_btVars => FramesOK'
<1> SUFFICES ASSUME FramesOK, [BtNext]_btVars PROVE FramesOK'
  OBVIOUS
<1> USE DEF FramesOK, HoldsFrame, vendor, tx
<1>1. CASE BtProbe
  BY <1>1 DEF BtProbe
<1>2. CASE BtOpen \/ BtOpenFails \/ LoadFirmware \/ FirmwareFails
           \/ WmtSendFails \/ WmtAnswered
  BY <1>2 DEF BtOpen, BtOpenFails, LoadFirmware, FirmwareFails, WmtSendFails,
              WmtAnswered
<1>3. CASE WmtSend
  <2>1. txq' \in Seq(Frames)
    BY <1>3, QueueTypes DEF WmtSend, Callers, Ids
  <2> QED
    BY <1>3, <2>1 DEF WmtSend
<1>4. CASE WmtGivesUp
  <2>1. txq' \in Seq(Frames)
    <3>1. txq' = [k \in 1..Len(txq) |-> Aged(txq[k])]
      BY <1>4 DEF WmtGivesUp
    <3>2. \A k \in 1..Len(txq) : Aged(txq[k]) \in Frames
      BY FrameTypes
    <3>3. Len(txq) \in Nat
      OBVIOUS
    <3> QED
      BY <3>1, <3>2, <3>3, IsASeq
  <2>2. skb' \in Frames \cup {NoFrame} /\ (skb \in Frames => skb' \in Frames)
    BY <1>4, FrameTypes DEF WmtGivesUp
  <2> QED
    BY <1>4, <2>1, <2>2 DEF WmtGivesUp
<1>5. ASSUME NEW c \in Callers, WakerTests(c) \/ WakerFlags(c) \/ WakerSchedules(c)
      PROVE  FramesOK'
  BY <1>5 DEF WakerTests, WakerFlags, WakerSchedules
<1>6. CASE WorkStarts
  BY <1>6 DEF WorkStarts
<1>7. CASE WorkDequeues
  <2>1. CASE txq = <<>>
    BY <1>7, <2>1 DEF WorkDequeues
  <2>2. CASE txq # <<>>
    <3>1. Head(txq) \in Frames /\ Tail(txq) \in Seq(Frames)
      BY <2>2, HeadTailProperties
    <3> QED
      BY <1>7, <2>2, <3>1 DEF WorkDequeues
  <2> QED
    BY <2>1, <2>2
<1>8. CASE WorkWrites
  <2>1. skb \in Frames /\ txq' = txq
    BY <1>8 DEF WorkWrites
  <2>2. \A n \in Taken : n # skb.left => [skb EXCEPT !.left = @ - n] \in Frames
    BY <2>1, BtAssumption DEF Taken, Frames
  <2> QED
    BY <1>8, <2>1, <2>2 DEF WorkWrites
<1>9. CASE WorkRequeues
  <2>1. skb \in Frames
    BY <1>9 DEF WorkRequeues
  <2>2. <<skb>> \o txq \in Seq(Frames)
    BY <2>1
  <2> QED
    BY <1>9, <2>2 DEF WorkRequeues
<1>10. CASE WorkTests \/ WorkEnds
  BY <1>10 DEF WorkTests, WorkEnds
<1>11. CASE Drain \/ RecvEvent
  BY <1>11 DEF Drain, RecvEvent
<1>12. ASSUME NEW d \in Data, CoreSends(d) PROVE FramesOK'
  <2>1. txq' \in Seq(Frames)
    BY <1>12, QueueTypes DEF CoreSends, Callers, Ids
  <2> QED
    BY <1>12, <2>1 DEF CoreSends
<1>13. CASE PowerDown \/ Reset \/ BtRemove
  BY <1>13 DEF PowerDown, Reset, BtRemove
<1>14. CASE FlushPurges \/ FlushCancels \/ BtClose
  <2>1. CASE FlushPurges
    BY <2>1, EmptySeq DEF FlushPurges
  <2>2. CASE FlushCancels \/ BtClose
    BY <2>2 DEF FlushCancels, BtClose
  <2> QED
    BY <1>14, <2>1, <2>2
<1>15. CASE FlushWaits
  <2>1. txq' \in Seq(Frames)
    BY <1>15, QueueTypes DEF FlushWaits, Callers, Ids
  <2> QED
    BY <1>15, <2>1 DEF FlushWaits
<1>16. CASE UNCHANGED btVars
  BY <1>16 DEF btVars
<1> QED
  BY <1>1, <1>2, <1>3, <1>4, <1>5, <1>6, <1>7, <1>8, <1>9, <1>10, <1>11,
     <1>12, <1>13, <1>14, <1>15, <1>16 DEF BtNext, Work

LEMMA AnswersStep == AnswersOK /\ [BtNext]_btVars => AnswersOK'
<1> SUFFICES ASSUME AnswersOK, [BtNext]_btVars PROVE AnswersOK'
  OBVIOUS
<1> USE DEF AnswersOK, vendor
<1>1. CASE RecvEvent
  <2>1. answers' = Tail(answers) /\ answers # <<>>
    BY <1>1 DEF RecvEvent
  <2>2. Tail(answers) \in Seq({"cur", "old"}) /\ Len(Tail(answers)) = Len(answers) - 1
    BY <2>1, HeadTailProperties
  <2> QED
    BY <2>1, <2>2, LenProperties, BtAssumption
<1>2. CASE WmtGivesUp
  <2>1. answers' = [k \in 1..Len(answers) |-> AgedId(answers[k])]
    BY <1>2 DEF WmtGivesUp
  <2>2. \A k \in 1..Len(answers) : AgedId(answers[k]) \in {"cur", "old"}
    BY DEF AgedId
  <2>3. answers' \in Seq({"cur", "old"}) /\ Len(answers') = Len(answers)
    BY <2>1, <2>2, LenProperties, IsASeq
  <2> QED
    BY <2>3
<1>3. CASE WorkWrites
  <2>1. UNCHANGED answers \/ \E id \in {"cur", "old"} :
          Len(answers) < MaxAnswers /\ answers' = Append(answers, id)
    BY <1>3 DEF WorkWrites, Ask
  <2>2. ASSUME NEW id \in {"cur", "old"}, Len(answers) < MaxAnswers,
               answers' = Append(answers, id)
        PROVE  AnswersOK'
    <3>1. Len(answers') = Len(answers) + 1 /\ answers' \in Seq({"cur", "old"})
      BY <2>2, AppendProperties
    <3> QED
      BY <2>2, <3>1, LenProperties, BtAssumption
  <2> QED
    BY <2>1, <2>2
<1>4. ASSUME NEW c \in Callers, WakerTests(c) \/ WakerFlags(c) \/ WakerSchedules(c)
      PROVE  AnswersOK'
  BY <1>4 DEF WakerTests, WakerFlags, WakerSchedules
<1>5. CASE WorkStarts \/ WorkDequeues \/ WorkRequeues \/ WorkTests \/ WorkEnds
  BY <1>5 DEF WorkStarts, WorkDequeues, WorkRequeues, WorkTests, WorkEnds
<1>6. ASSUME NEW d \in Data, CoreSends(d) PROVE AnswersOK'
  BY <1>6 DEF CoreSends
<1>7. CASE \/ BtProbe \/ BtOpen \/ BtOpenFails \/ LoadFirmware \/ FirmwareFails
           \/ WmtSend \/ WmtSendFails \/ WmtAnswered \/ Drain \/ PowerDown
           \/ Reset \/ BtRemove \/ FlushPurges \/ FlushCancels \/ FlushWaits
           \/ BtClose \/ UNCHANGED btVars
  BY <1>7 DEF BtProbe, BtOpen, BtOpenFails, LoadFirmware, FirmwareFails,
              WmtSend, WmtSendFails, WmtAnswered, Drain, PowerDown, Reset,
              BtRemove, FlushPurges, FlushCancels, FlushWaits, BtClose, btVars
<1> QED
  BY <1>1, <1>2, <1>3, <1>4, <1>5, <1>6, <1>7 DEF BtNext, Work

LEMMA TypeInvStep == PowerInv /\ TypeInv /\ [BtNext]_btVars => TypeInv'
  BY BitsStep, CountedStep, PlacesStep, FramesStep, AnswersStep DEF TypeInv, PowerInv

\* Every variable of the driver keeps to its range: above all no frame is put back
\* with nothing left to send.
THEOREM BtTypeCorrect == BtSpec => []BtTypeOK
<1>1. PowerInv /\ TypeInv => BtTypeOK
  <2> SUFFICES ASSUME PowerInv, TypeInv PROVE BtTypeOK
    OBVIOUS
  <2>1. {ports, powers, clocks, cmds} \subseteq Nat
    BY DEF PowerInv, PowerBalanced, TypeInv, Counted
  <2>2. {portOn, active, wakeup, wait_vnd, pending, cancelling, notify,
         open_failed, late} \subseteq BOOLEAN
    BY DEF TypeInv, BitsOK
  <2>3. \A k \in DOMAIN txq : txq[k] \in Frames
    BY DEF TypeInv, FramesOK
  <2> QED
    BY <2>1, <2>2, <2>3 DEF BtTypeOK, TypeInv, PowerInv, PlacesOK, Counted,
                            FramesOK, AnswersOK
<1> QED
  BY <1>1, PowerInvInit, PowerInvStep, TypeInvInit, TypeInvStep, PTL DEF BtSpec
-----------------------------------------------------------------------------
(* Work on a device that is gone.                                          *)

\* The phases behind the flush, and those of a device that is going down.
Flushed == {"close", "down", "absent"}
GoingDown ==
    phase \in Flushed \/ (phase \in {"cancel", "drain"} /\ after # "up")

\* When the work has been cancelled neither the power thread nor the core is
\* inside btmtkuart_tx_wakeup, and cancel_work_sync lets nobody schedule the work;
\* so what is scheduled later comes from the port.
LateInv ==
    /\ wmt \in {"firmware", "send"} => waker["power"] = "out"
    /\ phase \in Flushed \cup {"flush", "cancel", "drain"} => waker["power"] = "out"
    /\ GoingDown => waker["core"] = "out"
    /\ cancelling = (phase = "drain")
    /\ phase = "drain" => ~pending
    /\ phase \in Flushed /\ (pending \/ work # "idle") => late

LEMMA LateInvInit == BtInit => LateInv
  BY DEF BtInit, LateInv, GoingDown, Flushed, Callers

LEMMA LateInvStep ==
  PowerInv /\ PlacesOK /\ LateInv /\ [BtNext]_btVars => LateInv'
<1> SUFFICES ASSUME PowerInv, PlacesOK, LateInv, [BtNext]_btVars PROVE LateInv'
  OBVIOUS
<1>0. /\ wmt # "out" => phase \in {"setup", "shutdown"}
      /\ after = "up" => phase \in {"flush", "cancel", "drain"}
      /\ after \in {"down", "absent", "up"}
      /\ waker \in [Callers -> {"out", "test", "flag", "schedule"}]
  BY DEF PowerInv, PlacesOK, Goals
<1> USE <1>0 DEF LateInv, GoingDown, Flushed, Callers, vendor, tx
<1>1. CASE BtProbe
  BY <1>1 DEF BtProbe
<1>2. CASE BtOpen \/ BtOpenFails
  BY <1>2 DEF BtOpen, BtOpenFails
<1>3. CASE LoadFirmware \/ FirmwareFails
  BY <1>3 DEF LoadFirmware, FirmwareFails, WmtFails
<1>4. CASE WmtSend
  BY <1>4 DEF WmtSend, Queue
<1>5. CASE WmtSendFails \/ WmtGivesUp
  BY <1>5 DEF WmtSendFails, WmtGivesUp, WmtFails
<1>6. CASE WmtAnswered
  BY <1>6 DEF WmtAnswered
<1>7. ASSUME NEW c \in Callers, WakerTests(c) PROVE LateInv'
  BY <1>7 DEF WakerTests
<1>8. ASSUME NEW c \in Callers, WakerFlags(c) \/ WakerSchedules(c) PROVE LateInv'
  <2>1. /\ waker[c] # "out"
        /\ Schedules(c)
        /\ UNCHANGED <<phase, after, work, wmt, cancelling>>
    BY <1>8 DEF WakerFlags, WakerSchedules
  <2>2. phase \in Flushed => c = "port"
    BY <2>1
  <2>3. late' = (late \/ (c = "port" /\ phase \in Flushed))
    BY <2>1 DEF Schedules
  <2>4. pending' = (pending \/ ~cancelling) /\ waker' = [waker EXCEPT ![c] = "out"]
    BY <2>1 DEF Schedules
  <2> QED
    BY <2>1, <2>2, <2>3, <2>4
<1>9. CASE WorkStarts \/ WorkDequeues \/ WorkWrites \/ WorkRequeues \/ WorkTests
  BY <1>9 DEF WorkStarts, WorkDequeues, WorkWrites, WorkRequeues, WorkTests
<1>10. CASE WorkEnds
  BY <1>10 DEF WorkEnds
<1>11. CASE Drain \/ RecvEvent
  BY <1>11 DEF Drain, RecvEvent
<1>12. ASSUME NEW d \in Data, CoreSends(d) PROVE LateInv'
  BY <1>12 DEF CoreSends, Queue
<1>13. CASE PowerDown \/ Reset \/ BtRemove
  BY <1>13 DEF PowerDown, Reset, BtRemove, Settled
<1>14. CASE FlushPurges \/ FlushCancels
  BY <1>14 DEF FlushPurges, FlushCancels
<1>15. CASE FlushWaits
  BY <1>15 DEF FlushWaits, Queue
<1>16. CASE BtClose
  BY <1>16 DEF BtClose
<1>17. CASE UNCHANGED btVars
  BY <1>17 DEF btVars
<1> QED
  BY <1>1, <1>2, <1>3, <1>4, <1>5, <1>6, <1>7, <1>8, <1>9, <1>10, <1>11,
     <1>12, <1>13, <1>14, <1>15, <1>16, <1>17 DEF BtNext, Work

\* For any number of resets, removals and failed opens: tx_work runs on a device
\* that is gone only because write_wakeup scheduled it after the flush.
THEOREM OnlyThePortIsLate == BtSpec => []LateWorkOnly
<1>1. PowerInv /\ TypeInv /\ LateInv /\ [BtNext]_btVars => LateInv'
  BY LateInvStep DEF TypeInv
<1>2. LateInv => LateWorkOnly
  BY DEF LateInv, LateWorkOnly, Flushed
<1> QED
  BY <1>1, <1>2, PowerInvInit, PowerInvStep, TypeInvInit, TypeInvStep,
     LateInvInit, PTL DEF BtSpec
-----------------------------------------------------------------------------
(* Vendor events.                                                          *)

\* The bit of a thread that waits is cleared by an event only.
AnsweredInv == wmt = "wait" /\ ~wait_vnd => by \in {"cur", "old"}

LEMMA AnsweredInvInit == BtInit => AnsweredInv
  BY DEF BtInit, AnsweredInv

LEMMA AnsweredInvStep ==
  PowerInv /\ AnswersOK /\ AnsweredInv /\ [BtNext]_btVars => AnsweredInv'
<1> SUFFICES ASSUME PowerInv, AnswersOK, AnsweredInv, [BtNext]_btVars
             PROVE  AnsweredInv'
  OBVIOUS
<1> USE DEF AnsweredInv, vendor
<1>1. CASE BtProbe
  BY <1>1 DEF BtProbe, PowerInv
<1>2. CASE BtOpen \/ BtOpenFails
  BY <1>2 DEF BtOpen, BtOpenFails
<1>3. CASE LoadFirmware \/ FirmwareFails \/ WmtSendFails \/ WmtGivesUp
  BY <1>3 DEF LoadFirmware, FirmwareFails, WmtSendFails, WmtGivesUp, WmtFails
<1>4. CASE WmtSend
  BY <1>4 DEF WmtSend
<1>5. CASE WmtAnswered
  BY <1>5 DEF WmtAnswered
<1>6. ASSUME NEW c \in Callers, WakerTests(c) \/ WakerFlags(c) \/ WakerSchedules(c)
      PROVE  AnsweredInv'
  BY <1>6 DEF WakerTests, WakerFlags, WakerSchedules
<1>7. CASE Work
  BY <1>7 DEF Work, WorkStarts, WorkDequeues, WorkWrites, WorkRequeues,
              WorkTests, WorkEnds
<1>8. CASE RecvEvent
  <2>1. Head(answers) \in {"cur", "old"}
    BY <1>8, HeadTailProperties DEF RecvEvent, AnswersOK
  <2> QED
    BY <1>8, <2>1 DEF RecvEvent
<1>9. ASSUME NEW d \in Data, CoreSends(d) PROVE AnsweredInv'
  BY <1>9 DEF CoreSends
<1>10. CASE Drain \/ Reset \/ BtRemove
  BY <1>10 DEF Drain, Reset, BtRemove
<1>11. CASE PowerDown
  BY <1>11 DEF PowerDown
<1>12. CASE FlushPurges \/ FlushCancels \/ FlushWaits \/ BtClose
  BY <1>12 DEF FlushPurges, FlushCancels, FlushWaits, BtClose
<1>13. CASE UNCHANGED btVars
  BY <1>13 DEF btVars
<1> QED
  BY <1>1, <1>2, <1>3, <1>4, <1>5, <1>6, <1>7, <1>8, <1>9, <1>10, <1>11,
     <1>12, <1>13 DEF BtNext

\* Who leaves a wait of btmtkuart_setup upwards: only a thread that was answered.
LEMMA SetupStep ==
  ASSUME PowerInv, AnsweredInv, [BtNext]_btVars,
         phase = "setup", wmt = "wait", wmt' = "send" \/ phase' = "up"
  PROVE  WmtAnswered
<1> USE DEF vendor
<1>1. ~(BtProbe \/ BtOpen \/ BtOpenFails \/ LoadFirmware \/ FirmwareFails)
  BY DEF BtProbe, BtOpen, BtOpenFails, LoadFirmware, FirmwareFails
<1>2. ~(WmtSend \/ WmtSendFails \/ WmtGivesUp)
  BY DEF WmtSend, WmtSendFails, WmtGivesUp, WmtFails
<1>3. ASSUME NEW c \in Callers
      PROVE  ~(WakerTests(c) \/ WakerFlags(c) \/ WakerSchedules(c))
  BY DEF WakerTests, WakerFlags, WakerSchedules
<1>4. ~Work
  BY DEF Work, WorkStarts, WorkDequeues, WorkWrites, WorkRequeues, WorkTests,
         WorkEnds
<1>5. ~(Drain \/ RecvEvent \/ \E d \in Data : CoreSends(d))
  BY DEF Drain, RecvEvent, CoreSends
<1>6. ~(PowerDown \/ Reset \/ BtRemove)
  BY DEF PowerDown, Reset, BtRemove
<1>7. ~(FlushPurges \/ FlushCancels \/ FlushWaits \/ BtClose \/ UNCHANGED btVars)
  BY DEF FlushPurges, FlushCancels, FlushWaits, BtClose, btVars
<1> QED
  BY <1>1, <1>2, <1>3, <1>4, <1>5, <1>6, <1>7 DEF BtNext

\* No timeout, signal or failure makes btmtkuart_setup go on: an event of a vendor
\* command did, its own or an older one.
THEOREM SetupWaitsForEvents == BtSpec => SetupIsAnswered
<1>1. PowerInv /\ TypeInv /\ AnsweredInv /\ [BtNext]_btVars => AnsweredInv'
  BY AnsweredInvStep DEF TypeInv
<1>2. PowerInv /\ AnsweredInv /\ [BtNext]_btVars
      => [phase = "setup" /\ wmt = "wait" /\ (wmt' = "send" \/ phase' = "up")
          => by \in {"cur", "old"}]_btVars
  BY SetupStep DEF WmtAnswered, AnsweredInv
<1> QED
  BY <1>1, <1>2, PowerInvInit, PowerInvStep, TypeInvInit, TypeInvStep,
     AnsweredInvInit, PTL DEF BtSpec, SetupIsAnswered
-----------------------------------------------------------------------------
(* Frames in the queue have somebody who is going to look at them.          *)

\* cancel_work_sync keeps callers from scheduling the work only while it waits.
CancelInv == cancelling => phase = "drain"

LEMMA CancelStep == PowerInv /\ CancelInv /\ [BtNext]_btVars => CancelInv'
<1> SUFFICES ASSUME PowerInv, CancelInv, [BtNext]_btVars PROVE CancelInv'
  OBVIOUS
<1> USE DEF CancelInv
<1>1. CASE BtProbe \/ BtOpen \/ BtOpenFails
  BY <1>1 DEF BtProbe, BtOpen, BtOpenFails
<1>2. CASE LoadFirmware \/ FirmwareFails \/ WmtSend \/ WmtSendFails
  BY <1>2 DEF LoadFirmware, FirmwareFails, WmtSend, WmtSendFails, WmtFails, PowerInv
<1>3. CASE WmtAnswered \/ WmtGivesUp
  BY <1>3 DEF WmtAnswered, WmtGivesUp, WmtFails, PowerInv
<1>4. ASSUME NEW c \in Callers, WakerTests(c) \/ WakerFlags(c) \/ WakerSchedules(c)
      PROVE  CancelInv'
  BY <1>4 DEF WakerTests, WakerFlags, WakerSchedules
<1>5. CASE Work
  BY <1>5 DEF Work, WorkStarts, WorkDequeues, WorkWrites, WorkRequeues,
              WorkTests, WorkEnds
<1>6. CASE Drain \/ RecvEvent
  BY <1>6 DEF Drain, RecvEvent
<1>7. ASSUME NEW d \in Data, CoreSends(d) PROVE CancelInv'
  BY <1>7 DEF CoreSends
<1>8. CASE PowerDown \/ Reset \/ BtRemove
  BY <1>8 DEF PowerDown, Reset, BtRemove
<1>9. CASE FlushPurges \/ FlushCancels \/ FlushWaits \/ BtClose
  BY <1>9 DEF FlushPurges, FlushCancels, FlushWaits, BtClose
<1>10. CASE UNCHANGED btVars
  BY <1>10 DEF btVars
<1> QED
  BY <1>1, <1>2, <1>3, <1>4, <1>5, <1>6, <1>7, <1>8, <1>9, <1>10 DEF BtNext

\* A caller that has queued its frame has yet to wake the work.
LEMMA QueueAttends ==
  ASSUME PlacesOK, NEW c \in Callers, NEW id, Queue(c, id)
  PROVE  Attended'
  BY DEF Queue, PlacesOK, Attended

\* The step, from a state in which the frames are attended to.
LEMMA AttendedStep ==
  ASSUME PowerInv, TypeInv, CancelInv, [BtNext]_btVars, Attended, phase' \in Carried
  PROVE  Attended'
<1> USE DEF Attended, Carried, vendor, port, tx
<1>1. CASE BtProbe
  BY <1>1 DEF BtProbe
<1>2. CASE BtOpen \/ BtOpenFails
  BY <1>2 DEF BtOpen, BtOpenFails
<1>3. CASE LoadFirmware \/ FirmwareFails \/ WmtSendFails \/ WmtAnswered
  BY <1>3 DEF LoadFirmware, FirmwareFails, WmtSendFails, WmtAnswered
<1>4. CASE WmtSend
  <2>1. CASE Queue("power", "cur")
    BY <2>1, QueueAttends DEF TypeInv, Callers
  <2>2. CASE UNCHANGED <<txq, waker>>
    BY <1>4, <2>2 DEF WmtSend
  <2> QED
    BY <1>4, <2>1, <2>2 DEF WmtSend
<1>5. CASE WmtGivesUp
  <2>1. txq = <<>> => txq' = <<>>
    <3> SUFFICES ASSUME txq = <<>> PROVE txq' = <<>>
      OBVIOUS
    <3>1. txq' = [k \in 1..0 |-> Aged(txq[k])]
      BY <1>5 DEF WmtGivesUp
    <3> QED
      BY <3>1
  <2> QED
    BY <1>5, <2>1 DEF WmtGivesUp
<1>6. ASSUME NEW c \in Callers, WakerTests(c) \/ WakerFlags(c) \/ WakerSchedules(c)
      PROVE  Attended'
  <2>1. CASE WakerTests(c)
    <3>1. waker'[c] # "out"
      BY <2>1 DEF WakerTests, TypeInv, PlacesOK
    <3> QED
      BY <3>1
  <2>2. CASE WakerFlags(c) \/ WakerSchedules(c)
    <3>1. phase' = phase
      BY <2>2 DEF WakerFlags, WakerSchedules
    <3>2. ~cancelling
      BY <3>1 DEF CancelInv
    <3>3. pending'
      BY <2>2, <3>2 DEF WakerFlags, WakerSchedules, Schedules
    <3> QED
      BY <3>3
  <2> QED
    BY <1>6, <2>1, <2>2
<1>7. CASE WorkStarts \/ WorkDequeues
  BY <1>7 DEF WorkStarts, WorkDequeues
<1>8. CASE WorkWrites
  <2>1. portOn
    <3>1. phase \in Powered
      BY <1>8 DEF WorkWrites, Powered
    <3> QED
      BY <3>1 DEF PowerInv, PowerBalanced
  <2>2. notify'
    BY <1>8, <2>1 DEF WorkWrites
  <2> QED
    BY <2>2
<1>9. CASE WorkRequeues
  BY <1>9 DEF WorkRequeues
<1>10. CASE WorkTests
  BY <1>10 DEF WorkTests
<1>11. CASE WorkEnds
  BY <1>11 DEF WorkEnds
<1>12. CASE Drain
  <2>1. waker'["port"] # "out"
    BY <1>12 DEF Drain, TypeInv, PlacesOK, Callers
  <2> QED
    BY <2>1 DEF Callers
<1>13. CASE RecvEvent
  BY <1>13 DEF RecvEvent
<1>14. ASSUME NEW d \in Data, CoreSends(d) PROVE Attended'
  <2>1. CASE Queue("core", d)
    BY <2>1, QueueAttends DEF TypeInv, Callers
  <2>2. CASE UNCHANGED <<txq, waker>>
    BY <1>14, <2>2 DEF CoreSends
  <2> QED
    BY <1>14, <2>1, <2>2 DEF CoreSends
<1>15. CASE PowerDown \/ Reset \/ BtRemove
  BY <1>15 DEF PowerDown, Reset, BtRemove
<1>16. CASE FlushPurges
  BY <1>16 DEF FlushPurges
<1>17. CASE FlushCancels
  BY <1>17 DEF FlushCancels
<1>18. CASE FlushWaits
  <2>1. after = "up"
    BY <1>18 DEF FlushWaits
  <2>2. Queue("power", "reset")
    BY <1>18, <2>1 DEF FlushWaits
  <2> QED
    BY <2>2, QueueAttends DEF TypeInv, Callers
<1>19. CASE BtClose
  BY <1>19 DEF BtClose, PowerInv, Goals
<1>20. CASE UNCHANGED btVars
  BY <1>20 DEF btVars
<1> QED
  BY <1>1, <1>2, <1>3, <1>4, <1>5, <1>6, <1>7, <1>8, <1>9, <1>10, <1>11, <1>12,
     <1>13, <1>14, <1>15, <1>16, <1>17, <1>18, <1>19, <1>20 DEF BtNext, Work

\* However callers, work item and port meet, and whatever part of a frame the port
\* takes: frames that somebody was going to look at are never left in the queue
\* with nobody to do so, until cancel_work_sync ends their transport.
THEOREM NobodyStrandsFrames == BtSpec => NoFrameStranded
<1>1. BtInit => CancelInv
  BY DEF BtInit, CancelInv
<1>2. PowerInv /\ TypeInv /\ CancelInv /\ [BtNext]_btVars
        => [phase' \in Carried /\ Attended => Attended']_btVars
  BY AttendedStep
<1>3. BtSpec => [](PowerInv /\ TypeInv /\ CancelInv)
  BY <1>1, PowerInvInit, PowerInvStep, TypeInvInit, TypeInvStep, CancelStep, PTL
     DEF BtSpec
<1> QED
  BY <1>2, <1>3, PTL DEF BtSpec, NoFrameStranded
-----------------------------------------------------------------------------
(* The refinement of FrameChannel.                                         *)

Kinds == Data \cup {"cmd", "reset"}
Names(s) == [k \in DOMAIN s |-> Plain(s[k].id)]
Contents == InHand \o txq

\* The worker holds a frame between taking it and putting it back, and only then.
HandInv ==
    IF work \in {"write", "requeue"} THEN skb \in Frames ELSE skb = NoFrame

LEMMA HandInvInit == BtInit => HandInv
  BY DEF BtInit, HandInv

LEMMA HandInvStep == FramesOK /\ HandInv /\ [BtNext]_btVars => HandInv'
<1> SUFFICES ASSUME FramesOK, HandInv, [BtNext]_btVars PROVE HandInv'
  OBVIOUS
<1> USE DEF HandInv, vendor, tx
<1>1. CASE WmtGivesUp
  <2>1. skb \in Frames => skb # NoFrame /\ Aged(skb) \in Frames
    BY FrameTypes
  <2>2. work' = work /\ skb' = IF skb = NoFrame THEN skb ELSE Aged(skb)
    BY <1>1 DEF WmtGivesUp
  <2> QED
    BY <2>1, <2>2
<1>2. CASE WorkDequeues
  <2>1. CASE txq = <<>>
    BY <1>2, <2>1 DEF WorkDequeues
  <2>2. CASE txq # <<>>
    <3>1. Head(txq) \in Frames
      BY <2>2, HeadTailProperties DEF FramesOK
    <3> QED
      BY <1>2, <2>2, <3>1 DEF WorkDequeues
  <2> QED
    BY <2>1, <2>2
<1>3. CASE WorkWrites
  <2>1. skb \in Frames
    BY <1>3 DEF WorkWrites
  <2>2. \A n \in Taken : n # skb.left => [skb EXCEPT !.left = @ - n] \in Frames
    BY <2>1, BtAssumption DEF Taken, Frames
  <2> QED
    BY <1>3, <2>1, <2>2 DEF WorkWrites
<1>4. CASE WorkStarts \/ WorkRequeues \/ WorkTests \/ WorkEnds
  BY <1>4 DEF WorkStarts, WorkRequeues, WorkTests, WorkEnds
<1>5. ASSUME NEW c \in Callers, WakerTests(c) \/ WakerFlags(c) \/ WakerSchedules(c)
      PROVE  HandInv'
  BY <1>5 DEF WakerTests, WakerFlags, WakerSchedules
<1>6. ASSUME NEW d \in Data, CoreSends(d) PROVE HandInv'
  BY <1>6 DEF CoreSends
<1>7. CASE \/ BtProbe \/ BtOpen \/ BtOpenFails \/ LoadFirmware \/ FirmwareFails
           \/ WmtSend \/ WmtSendFails \/ WmtAnswered \/ Drain \/ RecvEvent
           \/ PowerDown \/ Reset \/ BtRemove \/ FlushPurges \/ FlushCancels
           \/ FlushWaits \/ BtClose \/ UNCHANGED btVars
  BY <1>7 DEF BtProbe, BtOpen, BtOpenFails, LoadFirmware, FirmwareFails,
              WmtSend, WmtSendFails, WmtAnswered, Drain, RecvEvent, PowerDown,
              Reset, BtRemove, FlushPurges, FlushCancels, FlushWaits, BtClose,
              btVars
<1> QED
  BY <1>1, <1>2, <1>3, <1>4, <1>5, <1>6, <1>7 DEF BtNext, Work

LEMMA NamesTypes ==
  ASSUME NEW s \in Seq(Frames)
  PROVE  Names(s) \in Seq(Kinds) /\ Len(Names(s)) = Len(s)
<1>1. \A f \in Frames : Plain(f.id) \in Kinds
  <2>1. \A f \in Frames : f.id \in Ids
    BY DEF Frames
  <2> QED
    BY <2>1 DEF Plain, Kinds, Ids
<1>2. \A k \in 1..Len(s) : s[k] \in Frames
  BY ElementOfSeq
<1>3. \A k \in 1..Len(s) : Plain(s[k].id) \in Kinds
  BY <1>1, <1>2
<1>4. Names(s) = [k \in 1..Len(s) |-> Plain(s[k].id)]
  BY LenProperties DEF Names
<1> QED
  BY <1>3, <1>4, IsASeq, LenProperties

LEMMA NamesAppend ==
  ASSUME NEW s \in Seq(Frames), NEW f \in Frames
  PROVE  Names(Append(s, f)) = Append(Names(s), Plain(f.id))
<1>1. Append(s, f) \in Seq(Frames) /\ Len(Append(s, f)) = Len(s) + 1
  BY AppendProperties
<1>2. Plain(f.id) \in Kinds
  <2>1. f.id \in Ids
    BY DEF Frames
  <2> QED
    BY <2>1 DEF Plain, Kinds, Ids
<1>3. /\ Append(Names(s), Plain(f.id)) \in Seq(Kinds)
      /\ Len(Append(Names(s), Plain(f.id))) = Len(s) + 1
  BY <1>2, NamesTypes, AppendProperties
<1>4. ASSUME NEW k \in 1..(Len(s) + 1)
      PROVE  Names(Append(s, f))[k] = Append(Names(s), Plain(f.id))[k]
  <2>1. Names(Append(s, f))[k] = Plain(Append(s, f)[k].id)
    BY <1>1, LenProperties DEF Names
  <2>2. CASE k = Len(s) + 1
    BY <2>1, <2>2, <1>2, NamesTypes, AppendProperties
  <2>3. CASE k # Len(s) + 1
    <3>1. k \in 1..Len(s)
      BY <2>3, LenProperties
    <3>2. Append(s, f)[k] = s[k] /\ Append(Names(s), Plain(f.id))[k] = Names(s)[k]
      BY <3>1, <1>2, NamesTypes, AppendProperties
    <3>3. Names(s)[k] = Plain(s[k].id)
      BY <3>1, LenProperties DEF Names
    <3> QED
      BY <2>1, <3>2, <3>3
  <2> QED
    BY <2>2, <2>3
<1>5. Names(Append(s, f)) \in Seq(Kinds) /\ Len(Names(Append(s, f))) = Len(s) + 1
  BY <1>1, NamesTypes
<1> QED
  BY <1>3, <1>4, <1>5, SeqEqual

LEMMA NamesTail ==
  ASSUME NEW s \in Seq(Frames), s # <<>>
  PROVE  Names(s) # <<>> /\ Names(Tail(s)) = Tail(Names(s))
<1>1. Tail(s) \in Seq(Frames) /\ Len(Tail(s)) = Len(s) - 1 /\ Len(s) > 0
  BY HeadTailProperties, LenProperties, EmptySeq
<1>2. Names(s) \in Seq(Kinds) /\ Len(Names(s)) = Len(s) /\ Names(s) # <<>>
  BY <1>1, NamesTypes, LenProperties
<1>3. Tail(Names(s)) \in Seq(Kinds) /\ Len(Tail(Names(s))) = Len(s) - 1
  BY <1>2, HeadTailProperties
<1>4. Names(Tail(s)) \in Seq(Kinds) /\ Len(Names(Tail(s))) = Len(s) - 1
  BY <1>1, NamesTypes
<1>5. ASSUME NEW k \in 1..(Len(s) - 1) PROVE Names(Tail(s))[k] = Tail(Names(s))[k]
  <2>1. Names(Tail(s))[k] = Plain(Tail(s)[k].id)
    BY <1>1, LenProperties DEF Names
  <2>2. Tail(s)[k] = s[k + 1]
    BY <1>1, HeadTailProperties
  <2>3. Tail(Names(s))[k] = Names(s)[k + 1]
    BY <1>2, <1>3, HeadTailProperties
  <2>4. Names(s)[k + 1] = Plain(s[k + 1].id)
    BY <1>1, LenProperties DEF Names
  <2> QED
    BY <2>1, <2>2, <2>3, <2>4
<1> QED
  BY <1>2, <1>3, <1>4, <1>5, SeqEqual

\* Two sequences of frames whose names agree one by one have the same names.
LEMMA NamesEqual ==
  ASSUME NEW s \in Seq(Frames), NEW t \in Seq(Frames), Len(s) = Len(t),
         \A k \in 1..Len(s) : Plain(s[k].id) = Plain(t[k].id)
  PROVE  Names(s) = Names(t)
  BY LenProperties DEF Names

\* A frame put before a sequence is its head.
LEMMA FrontLeaves ==
  ASSUME NEW S, NEW x \in S, NEW q \in Seq(S)
  PROVE  <<x>> \o q # <<>> /\ Tail(<<x>> \o q) = q
<1>1. <<x>> \in Seq(S) /\ Len(<<x>>) = 1
  OBVIOUS
<1>2. <<x>> \o q \in Seq(S) /\ Len(<<x>> \o q) = 1 + Len(q)
  BY <1>1, ConcatProperties
<1>3. <<x>> \o q # <<>>
  BY <1>2, LenProperties
<1>4. Tail(<<x>> \o q) \in Seq(S) /\ Len(Tail(<<x>> \o q)) = Len(q)
  BY <1>2, <1>3, HeadTailProperties, LenProperties
<1>5. ASSUME NEW i \in 1..Len(q) PROVE Tail(<<x>> \o q)[i] = q[i]
  <2>1. Tail(<<x>> \o q)[i] = (<<x>> \o q)[i + 1]
    BY <1>2, <1>3, <1>4, HeadTailProperties
  <2>2. (<<x>> \o q)[i + 1] = q[i]
    BY <1>1, ConcatProperties, LenProperties
  <2> QED
    BY <2>1, <2>2
<1> QED
  BY <1>3, <1>4, <1>5, SeqEqual

\* A sequence is its head before its tail.
LEMMA HeadFront ==
  ASSUME NEW S, NEW q \in Seq(S), q # <<>>
  PROVE  <<Head(q)>> \o Tail(q) = q
<1>1. Head(q) \in S /\ Tail(q) \in Seq(S) /\ Len(Tail(q)) = Len(q) - 1
  BY HeadTailProperties
<1>2. <<Head(q)>> \in Seq(S) /\ Len(<<Head(q)>>) = 1 /\ <<Head(q)>>[1] = q[1]
  BY <1>1
<1>3. /\ <<Head(q)>> \o Tail(q) \in Seq(S)
      /\ Len(<<Head(q)>> \o Tail(q)) = Len(q)
  BY <1>1, <1>2, ConcatProperties, LenProperties
<1>4. ASSUME NEW i \in 1..Len(q) PROVE (<<Head(q)>> \o Tail(q))[i] = q[i]
  <2>1. CASE i = 1
    BY <2>1, <1>1, <1>2, ConcatProperties, LenProperties
  <2>2. CASE i > 1
    <3>1. (<<Head(q)>> \o Tail(q))[i] = Tail(q)[i - 1]
      BY <2>2, <1>1, <1>2, ConcatProperties, LenProperties
    <3>2. Tail(q)[i - 1] = q[i]
      BY <2>2, <1>1, HeadTailProperties, LenProperties
    <3> QED
      BY <3>1, <3>2
  <2> QED
    BY <2>1, <2>2
<1> QED
  BY <1>3, <1>4, SeqEqual

\* What is in the channel: the frame in hand, then the queue.
LEMMA ContentsTypes ==
  ASSUME FramesOK
  PROVE  /\ InHand \in Seq(Frames) /\ txq \in Seq(Frames)
         /\ Contents \in Seq(Frames)
         /\ skb = NoFrame => Contents = txq
         /\ skb # NoFrame => Contents = <<skb>> \o txq
<1>1. InHand \in Seq(Frames) /\ txq \in Seq(Frames)
  BY DEF FramesOK, InHand
<1>2. Contents \in Seq(Frames)
  BY <1>1, ConcatProperties DEF Contents
<1>3. skb = NoFrame => Contents = txq
  BY <1>1, ConcatEmptySeq DEF Contents, InHand
<1>4. skb # NoFrame => Contents = <<skb>> \o txq
  BY DEF Contents, InHand
<1> QED
  BY <1>1, <1>2, <1>3, <1>4

\* Whoever queues a frame puts it behind everything in the channel.
LEMMA QueueAccepts ==
  ASSUME FramesOK, NEW c \in Callers, NEW id \in Ids, Queue(c, id), skb' = skb
  PROVE  Names(Contents') = Append(Names(Contents), Plain(id))
<1>1. Frame(id) \in Frames /\ Frame(id).id = id
  BY FrameTypes DEF Frame
<1>2. Contents' = InHand \o (txq \o <<Frame(id)>>)
  <2>1. InHand' = InHand /\ txq' = Append(txq, Frame(id))
    BY DEF InHand, Queue
  <2> QED
    BY <1>1, <2>1, ContentsTypes, AppendIsConcat DEF Contents
<1>3. Contents' = (InHand \o txq) \o <<Frame(id)>>
  BY <1>1, <1>2, ContentsTypes, ConcatAssociative
<1>4. Contents' = Append(Contents, Frame(id))
  BY <1>1, <1>3, ContentsTypes, AppendIsConcat DEF Contents
<1> QED
  BY <1>1, <1>4, ContentsTypes, NamesAppend

\* What a step of the driver does to the channel.
LEMMA ChannelStep ==
  ASSUME FramesOK, FramesOK', HandInv, HandInv', [BtNext]_btVars
  PROVE  \/ Names(Contents') = Names(Contents)
         \/ \E f \in Kinds : Names(Contents') = Append(Names(Contents), f)
         \/ Names(Contents) # <<>> /\ Names(Contents') = Tail(Names(Contents))
         \/ Names(Contents') = <<>>
         \/ Names(Contents) # <<>> /\ Names(Contents') = <<Names(Contents)[1]>>
<1> DEFINE Kept == skb' = skb /\ txq' = txq
<1> USE DEF vendor, tx
<1>a. /\ Contents' \in Seq(Frames) /\ txq' \in Seq(Frames)
      /\ skb' = NoFrame => Contents' = txq'
      /\ skb' # NoFrame => Contents' = <<skb'>> \o txq'
  <2>1. InHand' \in Seq(Frames) /\ txq' \in Seq(Frames)
    BY DEF FramesOK, InHand
  <2> QED
    BY <2>1, ConcatProperties, ConcatEmptySeq DEF Contents, InHand
<1>b. Names(<<>>) = <<>>
  BY DEF Names
<1>1. CASE Kept
  BY <1>1 DEF Contents, InHand
<1>2. ASSUME NEW c \in Callers, NEW id \in Ids, Queue(c, id), skb' = skb
      PROVE  \E f \in Kinds : Names(Contents') = Append(Names(Contents), f)
  BY <1>2, QueueAccepts DEF Plain, Kinds, Ids
<1>3. CASE BtProbe
  <2>1. skb = NoFrame /\ skb' = NoFrame /\ txq' = <<>>
    BY <1>3 DEF BtProbe, HandInv
  <2> QED
    BY <1>a, <1>b, <2>1
<1>4. CASE WmtSend
  BY <1>1, <1>2, <1>4 DEF WmtSend, Callers, Ids
<1>5. CASE WmtGivesUp
  <2>1. /\ txq' = [k \in DOMAIN txq |-> Aged(txq[k])]
        /\ skb' = IF skb = NoFrame THEN skb ELSE Aged(skb)
    BY <1>5 DEF WmtGivesUp
  <2>2. \A f \in Frames : Plain(Aged(f).id) = Plain(f.id)
    BY DEF Aged, AgedId, Plain, Frames
  <2>3. Len(txq') = Len(txq) /\ \A k \in 1..Len(txq) : txq'[k] = Aged(txq[k])
    BY <2>1, <1>a, ContentsTypes, LenProperties
  <2>4. CASE skb = NoFrame
    <3>1. Contents = txq /\ Contents' = txq'
      BY <2>1, <2>4, <1>a, ContentsTypes
    <3>2. \A k \in 1..Len(txq) : Plain(txq[k].id) = Plain(txq'[k].id)
      BY <2>2, <2>3, ContentsTypes, ElementOfSeq
    <3> QED
      BY <2>3, <3>1, <3>2, <1>a, ContentsTypes, NamesEqual
  <2>5. CASE skb # NoFrame
    <3>1. skb \in Frames /\ skb' = Aged(skb) /\ skb' # NoFrame /\ skb' \in Frames
      BY <2>1, <2>5, FrameTypes DEF FramesOK
    <3>2. Contents = <<skb>> \o txq /\ Contents' = <<skb'>> \o txq'
      BY <2>5, <3>1, <1>a, ContentsTypes
    <3>3. Len(Contents) = 1 + Len(txq) /\ Len(Contents') = 1 + Len(txq)
      BY <2>3, <3>1, <3>2, <1>a, ContentsTypes, ConcatProperties
    <3>4. ASSUME NEW k \in 1..Len(Contents)
          PROVE  Plain(Contents[k].id) = Plain(Contents'[k].id)
      <4>1. CASE k = 1
        <5>1. Contents[1] = skb /\ Contents'[1] = skb'
          BY <2>3, <3>1, <3>2, <3>3, <1>a, ContentsTypes, ConcatProperties,
             LenProperties
        <5> QED
          BY <2>2, <3>1, <4>1, <5>1
      <4>2. CASE k > 1
        <5>1. k - 1 \in 1..Len(txq)
          BY <3>3, <4>2, ContentsTypes, LenProperties
        <5>2. Contents[k] = txq[k - 1] /\ Contents'[k] = txq'[k - 1]
          BY <2>3, <3>1, <3>2, <3>3, <4>2, <5>1, <1>a, ContentsTypes,
             ConcatProperties, LenProperties
        <5> QED
          BY <2>2, <2>3, <5>1, <5>2, ContentsTypes, ElementOfSeq
      <4> QED
        BY <4>1, <4>2
    <3> QED
      BY <3>3, <3>4, <1>a, ContentsTypes, NamesEqual
  <2> QED
    BY <2>4, <2>5
<1>6. ASSUME NEW c \in Callers, WakerTests(c) \/ WakerFlags(c) \/ WakerSchedules(c)
      PROVE  Kept
  BY <1>6 DEF WakerTests, WakerFlags, WakerSchedules
<1>7. CASE WorkDequeues
  <2>1. CASE txq = <<>>
    BY <1>1, <1>7, <2>1 DEF WorkDequeues
  <2>2. CASE txq # <<>>
    <3>1. skb = NoFrame /\ skb' = Head(txq) /\ txq' = Tail(txq)
      BY <1>7, <2>2 DEF WorkDequeues, HandInv
    <3>2. Head(txq) \in Frames
      BY <2>2, ContentsTypes, HeadTailProperties
    <3>3. Contents' = <<Head(txq)>> \o Tail(txq)
      BY <3>1, <3>2, <1>a, FrameTypes
    <3> QED
      BY <2>2, <3>1, <3>3, ContentsTypes, HeadFront
  <2> QED
    BY <2>1, <2>2
<1>8. CASE WorkWrites
  <2>1. skb \in Frames /\ skb # NoFrame /\ txq' = txq /\ Contents = <<skb>> \o txq
    BY <1>8, ContentsTypes, FrameTypes DEF WorkWrites, HandInv
  <2>2. CASE skb' = NoFrame
    <3>1. Contents' = txq
      BY <2>1, <2>2, <1>a
    <3>2. Contents # <<>> /\ Tail(Contents) = txq
      BY <2>1, ContentsTypes, FrontLeaves
    <3> QED
      BY <3>1, <3>2, ContentsTypes, NamesTail
  <2>3. CASE skb' # NoFrame
    <3>1. skb'.id = skb.id
      BY <1>8, <2>1, <2>3 DEF WorkWrites, Frames
    <3>2. skb' \in Frames /\ Contents' = <<skb'>> \o txq
      BY <2>1, <2>3, <1>a DEF FramesOK
    <3>3. Len(Contents) = 1 + Len(txq) /\ Len(Contents') = 1 + Len(txq)
      BY <2>1, <3>2, ContentsTypes, ConcatProperties
    <3>4. ASSUME NEW k \in 1..Len(Contents)
          PROVE  Plain(Contents[k].id) = Plain(Contents'[k].id)
      <4>1. CASE k = 1
        <5>1. Contents[1] = skb /\ Contents'[1] = skb'
          BY <2>1, <3>2, <3>3, ContentsTypes, ConcatProperties, LenProperties
        <5> QED
          BY <3>1, <4>1, <5>1
      <4>2. CASE k > 1
        <5>1. Contents[k] = txq[k - 1] /\ Contents'[k] = txq[k - 1]
          BY <2>1, <3>2, <3>3, <4>2, ContentsTypes, ConcatProperties, LenProperties
        <5> QED
          BY <5>1
      <4> QED
        BY <4>1, <4>2
    <3> QED
      BY <3>3, <3>4, <1>a, ContentsTypes, NamesEqual
  <2> QED
    BY <2>2, <2>3
<1>9. CASE WorkRequeues
  <2>1. skb # NoFrame /\ skb' = NoFrame /\ txq' = <<skb>> \o txq
    BY <1>9, FrameTypes DEF WorkRequeues, HandInv
  <2> QED
    BY <2>1, <1>a, ContentsTypes
<1>10. ASSUME NEW d \in Data, CoreSends(d)
       PROVE  Kept \/ \E f \in Kinds : Names(Contents') = Append(Names(Contents), f)
  BY <1>2, <1>10 DEF CoreSends, Callers, Ids
<1>11. CASE FlushPurges
  <2>1. txq' = <<>> /\ skb' = skb
    BY <1>11 DEF FlushPurges
  <2>2. CASE skb = NoFrame
    BY <2>1, <2>2, <1>a, <1>b
  <2>3. CASE skb # NoFrame
    <3>1. skb \in Frames /\ <<skb>> \in Seq(Frames) /\ Len(<<skb>>) = 1
      BY <2>3 DEF FramesOK
    <3>2. Contents' = <<skb>>
      BY <2>1, <2>3, <3>1, <1>a, ConcatEmptySeq
    <3>3. Contents \in Seq(Frames) /\ Contents[1] = skb /\ Len(Contents) = 1 + Len(txq)
      BY <2>3, <3>1, ContentsTypes, ConcatProperties, LenProperties
    <3>4. 1 \in 1..Len(Contents)
      BY <3>3, ContentsTypes, LenProperties
    <3>5. Names(Contents)[1] = Plain(skb.id) /\ Names(Contents) # <<>>
      BY <3>3, <3>4, NamesTypes, LenProperties DEF Names
    <3>6. Names(Contents') = <<Plain(skb.id)>>
      BY <3>1, <3>2 DEF Names
    <3> QED
      BY <3>5, <3>6
  <2> QED
    BY <2>2, <2>3
<1>12. CASE FlushWaits
  BY <1>1, <1>2, <1>12 DEF FlushWaits, Callers, Ids
<1>13. CASE \/ BtOpen \/ BtOpenFails \/ LoadFirmware \/ FirmwareFails
            \/ WmtSendFails \/ WmtAnswered \/ WorkStarts \/ WorkTests \/ WorkEnds
            \/ Drain \/ RecvEvent \/ PowerDown \/ Reset \/ BtRemove
            \/ FlushCancels \/ BtClose \/ UNCHANGED btVars
  <2>1. Kept
    BY <1>13 DEF BtOpen, BtOpenFails, LoadFirmware, FirmwareFails,
                 WmtSendFails, WmtAnswered, WorkStarts, WorkTests, WorkEnds,
                 Drain, RecvEvent, PowerDown, Reset, BtRemove, FlushCancels,
                 BtClose, btVars
  <2> QED
    BY <1>1, <2>1
<1> QED
  BY <1>1, <1>3, <1>4, <1>5, <1>6, <1>7, <1>8, <1>9, <1>10, <1>11, <1>12,
     <1>13 DEF BtNext, Work

\* The driver implements the FIFO channel: whatever part of a frame the port takes,
\* whoever sends meanwhile and whenever flush runs, frames leave in the order in
\* which btmtkuart_send_frame accepted them; a flush may spare the oldest one.
THEOREM ImplementsChannel == BtSpec => ChannelSpec
<1> DEFINE waiting == [k \in DOMAIN (InHand \o txq) |-> Plain((InHand \o txq)[k].id)]
<1>0. waiting = Names(Contents)
  BY DEF Names, Contents
<1>1. BtInit => Channel!Init
  <2> SUFFICES ASSUME BtInit PROVE Names(Contents) = <<>>
    BY <1>0 DEF Channel!Init
  <2>1. Contents = <<>>
    BY ConcatEmptySeq, EmptySeq DEF BtInit, Contents, InHand
  <2> QED
    BY <2>1 DEF Names
<1>2. ASSUME FramesOK, FramesOK', HandInv, HandInv', [BtNext]_btVars
      PROVE  [Channel!Next]_waiting
  <2>1. Names(Contents) # <<>> => 1 \in DOMAIN Names(Contents)
    <3>1. Names(Contents) \in Seq(Kinds)
      BY <1>2, ContentsTypes, NamesTypes
    <3> QED
      BY <3>1, LenProperties, EmptySeq
  <2>2. waiting = Names(Contents) /\ waiting' = Names(Contents')
    BY DEF Names, Contents
  <2>3. CASE Names(Contents') = Names(Contents)
    BY <2>2, <2>3
  <2>4. ASSUME NEW f \in Kinds, Names(Contents') = Append(Names(Contents), f)
        PROVE  Channel!Next
    <3>1. Channel!Accept(f)
      BY <2>2, <2>4 DEF Channel!Accept
    <3> QED
      BY <3>1 DEF Channel!Next, Kinds
  <2>5. CASE Names(Contents) # <<>> /\ Names(Contents') = Tail(Names(Contents))
    <3>1. Channel!Leave
      BY <2>2, <2>5 DEF Channel!Leave
    <3> QED
      BY <3>1 DEF Channel!Next
  <2>6. CASE Names(Contents') = <<>>
    <3>1. Channel!Flush
      BY <2>2, <2>6 DEF Channel!Flush
    <3> QED
      BY <3>1 DEF Channel!Next
  <2>7. CASE Names(Contents) # <<>> /\ Names(Contents') = <<Names(Contents)[1]>>
    <3>1. 1 \in {1} \cap DOMAIN Names(Contents)
      BY <2>1, <2>7
    <3>2. Channel!Flush
      BY <2>2, <2>7, <3>1 DEF Channel!Flush
    <3> QED
      BY <3>2 DEF Channel!Next
  <2> QED
    BY <1>2, <2>3, <2>4, <2>5, <2>6, <2>7, ChannelStep
<1>3. BtSpec => [](FramesOK /\ HandInv)
  <2>1. FramesOK /\ HandInv /\ [BtNext]_btVars => FramesOK' /\ HandInv'
    BY FramesStep, HandInvStep
  <2>2. BtInit => FramesOK /\ HandInv
    BY TypeInvInit, HandInvInit DEF TypeInv
  <2> QED
    BY <2>1, <2>2, PTL DEF BtSpec
<1> QED
  BY <1>1, <1>2, <1>3, PTL DEF BtSpec, ChannelSpec, Channel!Spec
-----------------------------------------------------------------------------
(* The receive path stays inside its pad and its limit.                    *)

LEMMA StpTypes ==
  StpTypeOK => /\ stp_pad \in [Cells -> 0..(Base - 1)]
               /\ stp_cursor \in 0..6 /\ stp_dlen \in 0..Limit
               /\ left_over \in Seq(Bytes) /\ Len(left_over) \in Nat
               /\ offered \in Seq(Bytes)
  BY LenProperties DEF StpTypeOK, Bytes

\* The smaller of the room above a cursor and of what is there.
LEMMA SmallerFits ==
  ASSUME NEW c \in 0..6, NEW l \in Nat
  PROVE  LET f == IF 6 - c <= l THEN 6 - c ELSE l
         IN  f \in 0..6 /\ c + f <= 6 /\ f <= l
  OBVIOUS

\* The cursor: it is past the pad's end at most, before and after the bytes of
\* this turn have been copied.
LEMMA CursorBounds ==
  ASSUME StpTypeOK
  PROVE  /\ Cursor0 \in 0..6 /\ Fill \in 0..6 /\ Cursor0 + Fill <= 6
         /\ Fill <= Len(left_over)
         /\ Cursor1 \in 0..6
<1>1. stp_cursor \in 0..6 /\ stp_dlen \in Nat /\ Len(left_over) \in Nat
  BY StpTypes
<1>2. Cursor0 \in 0..6
  BY <1>1 DEF Cursor0
<1>3. Fill \in 0..6 /\ Cursor0 + Fill <= 6 /\ Fill <= Len(left_over)
  <2>1. Fill = IF 6 - Cursor0 <= Len(left_over)
               THEN 6 - Cursor0 ELSE Len(left_over)
    BY DEF Fill
  <2> QED
    BY <1>1, <1>2, <2>1, SmallerFits
<1>4. Cursor1 \in 0..6
  BY <1>2, <1>3 DEF Cursor1, PadStart
<1> QED
  BY <1>2, <1>3, <1>4

\* Every cell that is filled gets a byte of what was offered.
LEMMA PadTypes ==
  ASSUME StpTypeOK
  PROVE  Pad1 \in [Cells -> Bytes]
<1>1. ASSUME NEW c \in Cells, c \in Cursor0..(Cursor0 + Fill - 1)
      PROVE  left_over[c - Cursor0 + 1] \in Bytes
  <2>1. c - Cursor0 + 1 \in 1..Len(left_over)
    <3>1. PICK a \in Int, f \in Int, l \in Int :
            a = Cursor0 /\ f = Fill /\ l = Len(left_over) /\ f <= l
      BY CursorBounds, StpTypes
    <3>2. c \in Int /\ a <= c /\ c <= a + f - 1
      BY <1>1, <3>1 DEF Cells
    <3>3. c - a + 1 \in 1..l
      BY <3>1, <3>2
    <3> QED
      BY <3>1, <3>3
  <2> QED
    BY <2>1, StpTypes, ElementOfSeq
<1>2. ASSUME NEW c \in Cells PROVE stp_pad[c] \in Bytes
  BY <1>2 DEF StpTypeOK
<1> QED
  BY <1>1, <1>2 DEF Pad1

\* A length that is accepted is within the limit, and H4 gets no more than it.
LEMMA LengthBounds ==
  ASSUME StpTypeOK
  PROVE  /\ Dlen1 \in 0..Limit
         /\ Rest \in Seq(Bytes) /\ ForH4 \in 0..Len(Rest) /\ ForH4 <= Dlen1
<1>1. Limit \in Nat /\ Mask \in Nat \ {0} /\ Base \in Nat \ {0}
  BY StpAssumption
<1>2. Announced \in Nat
  <2>1. Pad1[3] \in Nat /\ Pad1[4] \in Nat
    BY <1>1, PadTypes DEF Cells, Bytes
  <2>2. Pad1[3] * Base + Pad1[4] \in Nat
    BY <1>1, <2>1
  <2> QED
    BY <1>1, <2>2 DEF Announced, PacketLength
<1>3. Dlen1 \in 0..Limit
  <2>1. Full /\ ~Unexpected => Announced <= Limit
    BY <1>1, <1>2 DEF Unexpected
  <2> QED
    BY <1>1, <1>2, <2>1, StpTypes DEF Dlen1
<1>4. Rest \in Seq(Bytes)
  <2>1. Fill + 1 \in 1..(Len(left_over) + 1) /\ Len(left_over) \in Nat
    BY CursorBounds, StpTypes
  <2>2. \A k \in (Fill + 1)..Len(left_over) : left_over[k] \in Bytes
    BY <2>1, StpTypes, ElementOfSeq
  <2> QED
    BY <2>1, <2>2, StpTypes, SubSeqProperties DEF Rest
<1>5. Len(Rest) \in Nat
  BY <1>4, LenProperties
<1>6. ForH4 \in 0..Len(Rest) /\ ForH4 <= Dlen1
  BY <1>3, <1>5 DEF ForH4
<1> QED
  BY <1>3, <1>4, <1>6

\* What H4 gets and what is left for the next turn are bytes.
LEMMA TurnTypes ==
  ASSUME StpTypeOK
  PROVE  /\ SubSeq(Rest, 1, ForH4) \in Seq(Bytes)
         /\ SubSeq(Rest, ForH4 + 1, Len(Rest)) \in Seq(Bytes)
<1>1. Rest \in Seq(Bytes) /\ Len(Rest) \in Nat /\ ForH4 \in 0..Len(Rest)
  BY LengthBounds, LenProperties
<1>2. \A k \in 1..Len(Rest) : Rest[k] \in Bytes
  BY <1>1, ElementOfSeq
<1> QED
  BY <1>1, <1>2, SubSeqProperties

\* What the port offers is a sequence of bytes.
LEMMA PieceTypes ==
  ASSUME NEW bytes \in Pieces
  PROVE  bytes \in Seq(Bytes)
  BY StpAssumption, IsASeq DEF Pieces

\* The pad of six bytes is never overrun, the cursor never leaves it, and no
\* length beyond the limit is accepted: whatever bytes arrive, in whatever
\* pieces, with flushes and refused frames at any point.
THEOREM PadNeverOverruns == StpSpec => []StpTypeOK
<1>1. StpInit => StpTypeOK
  <2>1. 0 \in Bytes /\ 0 \in 0..Limit /\ <<>> \in Seq(Bytes) /\ 2 \in 0..6
    BY StpAssumption, EmptySeq DEF Bytes
  <2> SUFFICES ASSUME StpInit PROVE StpTypeOK
    OBVIOUS
  <2>2. stp_pad \in [Cells -> Bytes]
    BY <2>1 DEF StpInit
  <2> QED
    BY <2>1, <2>2 DEF StpInit, StpTypeOK, PadStart
<1>2. StpTypeOK /\ [StpNext]_stpVars => StpTypeOK'
  <2> SUFFICES ASSUME StpTypeOK, [StpNext]_stpVars PROVE StpTypeOK'
    OBVIOUS
  <2>1. CASE StpReset
    <3>1. 0 \in 0..Limit /\ <<>> \in Seq(Bytes) /\ 2 \in 0..6
      BY StpAssumption, EmptySeq
    <3> QED
      BY <2>1, <3>1 DEF StpReset, StpTypeOK, PadStart
  <2>2. ASSUME NEW bytes \in Pieces, StpOffer(bytes)
        PROVE  StpTypeOK'
    BY <2>2, PieceTypes, EmptySeq DEF StpOffer, StpTypeOK
  <2>3. CASE StpTurn
    <3>1. stp_dlen' \in 0..Limit
      BY <2>3, LengthBounds, StpAssumption DEF StpTurn
    <3>2. stp_cursor' \in 0..6 /\ stp_pad' \in [Cells -> Bytes]
      BY <2>3, CursorBounds, PadTypes DEF StpTurn
    <3>3. h4' \in Seq(Bytes) /\ left_over' \in Seq(Bytes)
      BY <2>3, TurnTypes DEF StpTurn
    <3>4. offered' = offered /\ astray' = astray
      BY <2>3 DEF StpTurn
    <3> QED
      BY <3>1, <3>2, <3>3, <3>4 DEF StpTypeOK
  <2>4. CASE StpTurnFails
    <3>1. stp_dlen' \in 0..Limit
      BY <2>4, LengthBounds, StpAssumption DEF StpTurnFails
    <3>2. stp_cursor' \in 0..6 /\ stp_pad' \in [Cells -> Bytes]
      BY <2>4, CursorBounds, PadTypes DEF StpTurnFails
    <3>3. h4' = <<>> /\ left_over' = offered /\ offered' = offered /\ astray' = TRUE
      BY <2>4 DEF StpTurnFails
    <3> QED
      BY <3>1, <3>2, <3>3, EmptySeq DEF StpTypeOK
  <2>5. CASE UNCHANGED stpVars
    BY <2>5 DEF stpVars, StpTypeOK
  <2> QED
    BY <2>1, <2>2, <2>3, <2>4, <2>5 DEF StpNext
<1> QED
  BY <1>1, <1>2, PTL DEF StpSpec
-----------------------------------------------------------------------------
(* H4 gets the payload.  The decoder beside the driver reads a sequence, so  *)
(* what it makes of one is a recursive function: that this is one function  *)
(* and no other is shown with a least number at which two would differ.     *)

\* A set of numbers that is not empty has a least one.
LEMMA LeastNumber ==
  ASSUME NEW T \in SUBSET Nat, T # {}
  PROVE  \E n \in T : \A k \in T : ~(k < n)
<1>1. PICK n \in T : \A k \in T : ~(<<k, n>> \in OpToRel(<, Nat))
  BY NatLessThanWellFounded, WFMin
<1>2. ASSUME NEW k \in T, k < n PROVE <<k, n>> \in OpToRel(<, Nat)
  BY <1>2 DEF OpToRel
<1> QED
  BY <1>1, <1>2

\* The decoder reads a sequence in one way only.
LEMMA OneReading ==
  ASSUME NEW r, NEW bytes, NEW L \in Nat, L = Len(bytes), NEW f,
         f = [n \in 0..L |-> IF n = 0 THEN r ELSE RefByte(f[n - 1], bytes[n])]
  PROVE  RefAfter(r, bytes) = f
<1> DEFINE Reads(g) == g = [n \in 0..L |-> IF n = 0 THEN r ELSE RefByte(g[n - 1], bytes[n])]
<1>1. RefAfter(r, bytes) = CHOOSE g : Reads(g)
  BY DEF RefAfter
<1>2. PICK g : g = RefAfter(r, bytes) /\ Reads(g)
  BY <1>1
<1>3. ASSUME NEW n \in 0..L PROVE f[n] = g[n]
  <2> DEFINE T == {k \in 0..L : f[k] # g[k]}
  <2> SUFFICES ASSUME f[n] # g[n] PROVE FALSE
    OBVIOUS
  <2>1. T \in SUBSET Nat /\ T # {}
    <3>1. 0..L \subseteq Nat
      OBVIOUS
    <3>2. T \subseteq 0..L
      OBVIOUS
    <3>3. n \in T
      OBVIOUS
    <3> QED
      BY <3>1, <3>2, <3>3
  <2>2. PICK m \in T : \A k \in T : ~(k < m)
    BY <2>1, LeastNumber
  <2>3. m \in 0..L /\ f[m] # g[m]
    OBVIOUS
  <2>4. m # 0
    <3> SUFFICES ASSUME m = 0 PROVE FALSE
      OBVIOUS
    <3>1. f[0] = r /\ g[0] = r
      BY <1>2
    <3> QED
      BY <2>3, <3>1
  <2>5. m - 1 \in 0..L /\ m - 1 < m
    BY <2>3, <2>4
  <2>6. f[m - 1] = g[m - 1]
    BY <2>2, <2>5
  <2>7. f[m] = RefByte(f[m - 1], bytes[m]) /\ g[m] = RefByte(g[m - 1], bytes[m])
    BY <1>2, <2>3, <2>4
  <2> QED
    BY <2>3, <2>6, <2>7
<1>4. f = [n \in 0..L |-> f[n]] /\ g = [n \in 0..L |-> g[n]]
  BY <1>2, Zenon
<1> QED
  BY <1>2, <1>3, <1>4

\* A state of the decoder, field by field: what it knows of a header, what is to
\* come of payload and of trailer, what it found.
Decoder(h, n, t, s) == [header |-> h, payload |-> n, trailer |-> t, out |-> s]

\* The decoder beside the driver, when c bytes of trailer and header are in the
\* pad, and when n bytes of a payload are to come and it has found those in s.
HeaderInPad(c, pad) == [i \in 1..(IF c < 2 THEN 0 ELSE c - 2) |-> pad[i + 1]]

DecoderInPad(c, pad) ==
    Decoder(HeaderInPad(c, pad), 0, IF c < 2 THEN 2 - c ELSE 0, <<>>)

DecoderInPayload(n, s) ==
    Decoder(<<>>, n, IF n = 0 THEN 2 ELSE 0, s)

\* The decoder is where the cursor is in the pad, or in the payload.
InStep ==
    ~astray =>
      /\ stp_dlen > 0 => stp_cursor = 6
      /\ ref = IF stp_dlen > 0 THEN DecoderInPayload(stp_dlen, <<>>)
               ELSE DecoderInPad(Cursor0, stp_pad)

\* The pad holds the bytes that were offered, from the cursor on.
LEMMA PadCopies ==
  ASSUME StpTypeOK, NEW j \in Nat, j < Fill
  PROVE  /\ Cursor0 + j \in Cells
         /\ Pad1[Cursor0 + j] = left_over[j + 1]
<1>1. PICK a \in Nat, f \in Nat : a = Cursor0 /\ f = Fill /\ a + f <= 6
  BY CursorBounds
<1>2. a + j \in Cells /\ a + j \in a..(a + f - 1) /\ a + j - a + 1 = j + 1
  BY <1>1 DEF Cells
<1>3. Pad1[a + j] = left_over[a + j - a + 1]
  BY <1>1, <1>2 DEF Pad1
<1> QED
  BY <1>1, <1>2, <1>3

\* Below the cursor the pad is what it was.
LEMMA PadKeeps ==
  ASSUME StpTypeOK, NEW c \in Cells, c < Cursor0
  PROVE  Pad1[c] = stp_pad[c]
<1>1. PICK a \in Nat, f \in Nat : a = Cursor0 /\ f = Fill
  BY CursorBounds
<1>2. c \notin a..(a + f - 1)
  BY <1>1 DEF Cells
<1> QED
  BY <1>1, <1>2 DEF Pad1

\* Nothing is handed on before the pad is full, and nothing after a header that
\* was dropped.
LEMMA TurnShape ==
  ASSUME StpTypeOK
  PROVE  /\ Fill \in Nat /\ ForH4 \in Nat /\ Fill + ForH4 <= Len(left_over)
         /\ Cursor0 + Fill < 6 => Rest = <<>> /\ ForH4 = 0
         /\ Unexpected => Full /\ Dlen1 = 0 /\ ForH4 = 0
         /\ \A i \in 1..ForH4 : Rest[i] = left_over[Fill + i]
<1>1. PICK a \in Nat, f \in Nat, l \in Nat :
        a = Cursor0 /\ f = Fill /\ l = Len(left_over) /\ a + f <= 6 /\ f <= l
  BY CursorBounds, StpTypes
<1>2. Len(Rest) = l - f /\ \A i \in 1..(l - f) : Rest[i] = left_over[f + i]
  <2>1. f + 1 \in 1..(l + 1) /\ l \in 0..l
    BY <1>1
  <2>2. left_over \in Seq(Bytes)
    BY StpTypes
  <2>3. Rest = SubSeq(left_over, f + 1, l)
    BY <1>1 DEF Rest
  <2> QED
    BY <1>1, <2>1, <2>2, <2>3
<1>3. ForH4 \in Nat /\ ForH4 <= l - f /\ ForH4 <= Dlen1 /\ Dlen1 \in Nat
  BY <1>2, LengthBounds, StpAssumption, <1>1
<1>4. a + f < 6 => l - f = 0
  BY <1>1 DEF Fill
<1>5. Rest \in Seq(Bytes)
  BY LengthBounds
<1>6. Unexpected => Full /\ Dlen1 = 0
  BY DEF Unexpected, Dlen1
<1>7. a + f < 6 => Rest = <<>> /\ ForH4 = 0
  BY <1>2, <1>3, <1>4, <1>5, EmptySeq
<1>8. Unexpected => ForH4 = 0
  BY <1>3, <1>6
<1>9. \A i \in 1..ForH4 : i \in 1..(l - f)
  BY <1>1, <1>3
<1> QED
  BY <1>1, <1>2, <1>3, <1>6, <1>7, <1>8, <1>9

\* What the decoder does with a byte: of payload, of trailer, of a header.
LEMMA PayloadByte ==
  ASSUME NEW h, NEW n \in Nat, n > 0, NEW t, NEW s, NEW b,
         NEW u, u = IF n = 1 THEN 2 ELSE 0
  PROVE  RefByte(Decoder(h, n, t, s), b) = Decoder(h, n - 1, u, Append(s, b))
<1>1. PICK r : r = Decoder(h, n, t, s)
  OBVIOUS
<1>2. r.header = h /\ r.payload = n /\ r.trailer = t /\ r.out = s
  BY <1>1 DEF Decoder
<1>3. RefByte(r, b) = [r EXCEPT !.payload = n - 1, !.out = Append(s, b),
                                !.trailer = u]
  BY <1>2 DEF RefByte
<1> QED
  BY <1>1, <1>3 DEF Decoder

LEMMA TrailerByte ==
  ASSUME NEW h, NEW t \in Nat, t > 0, NEW s, NEW b
  PROVE  RefByte(Decoder(h, 0, t, s), b)
           = Decoder(h, 0, t - 1, s)
<1>1. PICK r : r = Decoder(h, 0, t, s)
  OBVIOUS
<1>2. r.header = h /\ r.payload = 0 /\ r.trailer = t /\ r.out = s
  BY <1>1 DEF Decoder
<1>3. RefByte(r, b) = [r EXCEPT !.trailer = t - 1]
  BY <1>2 DEF RefByte
<1> QED
  BY <1>1, <1>3 DEF Decoder

LEMMA HeaderByte ==
  ASSUME NEW h, Len(h) < 3, NEW s, NEW b
  PROVE  RefByte(Decoder(h, 0, 0, s), b)
           = Decoder(Append(h, b), 0, 0, s)
<1>1. PICK r : r = Decoder(h, 0, 0, s)
  OBVIOUS
<1>2. r.header = h /\ r.payload = 0 /\ r.trailer = 0 /\ r.out = s
  BY <1>1 DEF Decoder
<1>3. RefByte(r, b) = [r EXCEPT !.header = Append(h, b)]
  BY <1>2 DEF RefByte
<1> QED
  BY <1>1, <1>3 DEF Decoder

LEMMA BadHeader ==
  ASSUME NEW h, ~(Len(h) < 3), NEW s, NEW b,
         h[1] # Prefix \/ PacketLength(h[2], h[3]) > Limit
  PROVE  RefByte(Decoder(h, 0, 0, s), b) = Decoder(<<>>, 0, 0, s)
<1>1. PICK r : r = Decoder(h, 0, 0, s)
  OBVIOUS
<1>2. r.header = h /\ r.payload = 0 /\ r.trailer = 0 /\ r.out = s
  BY <1>1 DEF Decoder
<1>3. RefByte(r, b) = [r EXCEPT !.header = <<>>]
  BY <1>2 DEF RefByte
<1> QED
  BY <1>1, <1>3 DEF Decoder

LEMMA GoodHeader ==
  ASSUME NEW h, ~(Len(h) < 3), NEW s, NEW b, NEW n, n = PacketLength(h[2], h[3]),
         ~(h[1] # Prefix \/ n > Limit), NEW u, u = IF n = 0 THEN 2 ELSE 0
  PROVE  RefByte(Decoder(h, 0, 0, s), b) = Decoder(<<>>, n, u, s)
<1>1. PICK r, e : r = Decoder(h, 0, 0, s) /\ e = <<>>
  OBVIOUS
<1>2. r.header = h /\ r.payload = 0 /\ r.trailer = 0 /\ r.out = s
  BY <1>1 DEF Decoder
<1>3. RefByte(r, b) = [r EXCEPT !.header = e, !.payload = n, !.trailer = u]
  <2>1. ~(r.payload > 0) /\ ~(r.trailer > 0) /\ ~(Len(r.header) < 3)
    BY <1>2
  <2>2. /\ PacketLength(r.header[2], r.header[3]) = n
        /\ ~(r.header[1] # Prefix \/ n > Limit)
    BY <1>2
  <2> QED
    BY <1>1, <2>1, <2>2, Zenon DEF RefByte
<1>4. PICK q : q = [r EXCEPT !.header = e, !.payload = n, !.trailer = u]
  OBVIOUS
<1>5. q = Decoder(e, n, u, s)
  <2>1. q = [f \in {"header", "payload", "trailer", "out"} |-> q[f]]
    BY <1>1, <1>4 DEF Decoder
  <2>2. q.header = e /\ q.payload = n /\ q.trailer = u /\ q.out = s
    BY <1>1, <1>4 DEF Decoder
  <2> QED
    BY <2>1, <2>2 DEF Decoder
<1> QED
  BY <1>1, <1>3, <1>4, <1>5

\* The header as it comes into the pad.
LEMMA HeaderCells ==
  ASSUME NEW n \in 0..4, NEW pad
  PROVE  HeaderInPad(n + 2, pad) = [i \in 1..n |-> pad[i + 1]]
<1>1. PICK c \in 2..6 : c = n + 2
  OBVIOUS
<1>2. HeaderInPad(c, pad) = [i \in 1..(c - 2) |-> pad[i + 1]]
  BY DEF HeaderInPad
<1>3. c - 2 = n
  BY <1>1
<1> QED
  BY <1>1, <1>2, <1>3, Zenon

LEMMA NoHeader ==
  ASSUME NEW c \in 0..2, NEW pad
  PROVE  HeaderInPad(c, pad) = <<>>
<1>1. (IF c < 2 THEN 0 ELSE c - 2) = 0
  OBVIOUS
<1>2. HeaderInPad(c, pad) = [i \in 1..0 |-> pad[i + 1]]
  BY <1>1, Zenon DEF HeaderInPad
<1>3. [i \in 1..0 |-> pad[i + 1]] = <<>>
  OBVIOUS
<1> QED
  BY <1>2, <1>3, Zenon

LEMMA HeaderGrows ==
  ASSUME NEW n \in 0..2, NEW pad
  PROVE  /\ Len(HeaderInPad(n + 2, pad)) = n
         /\ HeaderInPad(n + 3, pad) = Append(HeaderInPad(n + 2, pad), pad[n + 2])
<1> DEFINE h == [i \in 1..n |-> pad[i + 1]]
<1> DEFINE g == [i \in 1..(n + 1) |-> pad[i + 1]]
<1>1. n \in 0..4 /\ n + 1 \in 0..4
  OBVIOUS
<1>2. HeaderInPad(n + 2, pad) = h /\ HeaderInPad(n + 1 + 2, pad) = g
  BY <1>1, HeaderCells
<1>3. n + 1 + 2 = n + 3 /\ n + 1 + 1 = n + 2
  OBVIOUS
<1>4. Append(h, pad[n + 1 + 1]) = g
  OBVIOUS
<1>5. Len(h) = n
  OBVIOUS
<1> HIDE DEF h, g
<1> QED
  BY <1>2, <1>3, <1>4, <1>5, Zenon

\* One byte of trailer or header, but for the last of the header.
LEMMA ByteIntoPad ==
  ASSUME NEW c \in 0..4, NEW pad
  PROVE  RefByte(DecoderInPad(c, pad), pad[c]) = DecoderInPad(c + 1, pad)
<1>1. CASE c < 2
  <2>1. HeaderInPad(c, pad) = <<>> /\ HeaderInPad(c + 1, pad) = <<>>
    BY <1>1, NoHeader
  <2>2. PICK t \in Nat : t = 2 - c /\ t > 0
    BY <1>1
  <2>3. PICK e : e = <<>>
    OBVIOUS
  <2>4. DecoderInPad(c, pad) = Decoder(e, 0, t, e)
    BY <1>1, <2>1, <2>2, <2>3 DEF DecoderInPad
  <2>5. DecoderInPad(c + 1, pad)
          = Decoder(e, 0, t - 1, e)
    BY <1>1, <2>1, <2>2, <2>3 DEF DecoderInPad
  <2>6. RefByte(Decoder(e, 0, t, e), pad[c]) = Decoder(e, 0, t - 1, e)
    BY <2>2, TrailerByte
  <2> QED
    BY <2>4, <2>5, <2>6, Zenon
<1>2. CASE c >= 2
  <2>1. PICK n \in 0..2 : c = n + 2 /\ c + 1 = n + 3
    BY <1>2
  <2>2. PICK h, g, b : h = HeaderInPad(c, pad) /\ g = HeaderInPad(c + 1, pad) /\ b = pad[c]
    OBVIOUS
  <2>3. /\ DecoderInPad(c, pad) = Decoder(h, 0, 0, <<>>)
        /\ DecoderInPad(c + 1, pad) = Decoder(g, 0, 0, <<>>)
    BY <1>2, <2>2 DEF DecoderInPad
  <2>4. Len(h) = n /\ g = Append(h, b)
    BY <2>1, <2>2, HeaderGrows, Zenon
  <2>5. Len(h) < 3
    BY <2>4
  <2>6. RefByte(Decoder(h, 0, 0, <<>>), b) = Decoder(Append(h, b), 0, 0, <<>>)
    BY <2>5, HeaderByte
  <2> QED
    BY <2>2, <2>3, <2>4, <2>6, Zenon
<1> QED
  BY <1>1, <1>2

LEMMA RefStarts == RefStart = Decoder(<<>>, 0, 0, <<>>)
  BY DEF RefStart, Decoder

\* The last byte of the header.
LEMMA HeaderEnds ==
  ASSUME NEW pad, NEW n, n = PacketLength(pad[3], pad[4])
  PROVE  RefByte(DecoderInPad(5, pad), pad[5])
           = IF pad[2] # Prefix \/ n > Limit THEN RefStart
             ELSE DecoderInPayload(n, <<>>)
<1>1. PICK h : h = HeaderInPad(5, pad)
  OBVIOUS
<1>2. DecoderInPad(5, pad) = Decoder(h, 0, 0, <<>>)
  BY <1>1 DEF DecoderInPad
<1>3. Len(h) = 3 /\ h[1] = pad[2] /\ h[2] = pad[3] /\ h[3] = pad[4]
  <2>1. 3 \in 0..4 /\ 3 + 2 = 5
    OBVIOUS
  <2>2. h = [i \in 1..3 |-> pad[i + 1]]
    BY <1>1, <2>1, HeaderCells
  <2> QED
    BY <2>2
<1>4. ~(Len(h) < 3) /\ n = PacketLength(h[2], h[3])
  BY <1>3
<1>5. CASE pad[2] # Prefix \/ n > Limit
  <2>1. RefByte(Decoder(h, 0, 0, <<>>), pad[5]) = RefStart
    BY <1>3, <1>4, <1>5, BadHeader, RefStarts
  <2> QED
    BY <1>2, <1>5, <2>1
<1>6. CASE ~(pad[2] # Prefix \/ n > Limit)
  <2>1. PICK u : u = IF n = 0 THEN 2 ELSE 0
    OBVIOUS
  <2>2. RefByte(Decoder(h, 0, 0, <<>>), pad[5]) = Decoder(<<>>, n, u, <<>>)
    BY <1>3, <1>4, <1>6, <2>1, GoodHeader
  <2>3. Decoder(<<>>, n, u, <<>>) = DecoderInPayload(n, <<>>)
    BY <2>1 DEF DecoderInPayload
  <2> QED
    BY <1>2, <1>6, <2>2, <2>3
<1> QED
  BY <1>5, <1>6

\* One byte of the payload.
LEMMA ByteOfPayload ==
  ASSUME NEW n \in Nat, n > 0, NEW s, NEW b
  PROVE  RefByte(DecoderInPayload(n, s), b) = DecoderInPayload(n - 1, Append(s, b))
<1>1. PICK e : e = <<>>
  OBVIOUS
<1>2. PICK q, u : q = Append(s, b) /\ u = IF n = 1 THEN 2 ELSE 0
  OBVIOUS
<1>3. DecoderInPayload(n - 1, q)
        = Decoder(e, n - 1, u, q)
  BY <1>1, <1>2 DEF DecoderInPayload
<1>4. RefByte(DecoderInPayload(n, s), b)
        = Decoder(e, n - 1, u, q)
  <2>1. DecoderInPayload(n, s) = Decoder(e, n, 0, s)
    BY <1>1 DEF DecoderInPayload
  <2> QED
    BY <1>2, <2>1, PayloadByte
<1> QED
  BY <1>2, <1>3, <1>4

LEMMA TurnNumbers ==
  ASSUME StpTypeOK
  PROVE  /\ Cursor0 \in 0..6 /\ Fill \in Nat /\ ForH4 \in Nat /\ Dlen1 \in Nat
         /\ Cursor0 + Fill <= 6 /\ ForH4 <= Dlen1
  BY CursorBounds, TurnShape, LengthBounds, StpAssumption

\* The decoder after j bytes of this turn.
InTurn(j) ==
    IF stp_dlen = 0 /\ Cursor0 + j < 6 THEN DecoderInPad(Cursor0 + j, Pad1)
    ELSE IF Unexpected THEN RefStart
    ELSE DecoderInPayload(Dlen1 - (j - Fill), SubSeq(Rest, 1, j - Fill))

\* It starts where the last turn left it ...
LEMMA TurnStarts ==
  ASSUME StpTypeOK, InStep, ~astray
  PROVE  [ref EXCEPT !.out = <<>>] = InTurn(0)
<1>1. PICK r, e : r = ref /\ e = <<>>
  OBVIOUS
<1>2. [Decoder(r.header, r.payload, r.trailer, e) EXCEPT !.out = e]
        = Decoder(r.header, r.payload, r.trailer, e)
  BY DEF Decoder
<1>3. CASE stp_dlen > 0
  <2>1. stp_dlen \in Nat /\ stp_cursor = 6 /\ stp_dlen # 0
    BY <1>3, StpTypes, StpAssumption DEF InStep
  <2>2. Cursor0 = 6 /\ ~Full /\ ~Unexpected /\ Dlen1 = stp_dlen
    BY <2>1 DEF Cursor0, Full, Unexpected, Dlen1
  <2>3. Fill = 0
    BY <2>2, StpTypes DEF Fill
  <2>4. Dlen1 - (0 - Fill) = stp_dlen /\ 0 - Fill = 0
    BY <2>1, <2>2, <2>3
  <2>5. SubSeq(Rest, 1, 0) = <<>>
    BY LengthBounds
  <2>6. InTurn(0) = DecoderInPayload(stp_dlen, e)
    BY <1>1, <2>1, <2>2, <2>4, <2>5 DEF InTurn
  <2>7. ref = DecoderInPayload(stp_dlen, e)
    BY <1>1, <1>3 DEF InStep
  <2>8. [DecoderInPayload(stp_dlen, e) EXCEPT !.out = e] = DecoderInPayload(stp_dlen, e)
    BY DEF DecoderInPayload, Decoder
  <2> QED
    BY <1>1, <2>6, <2>7, <2>8
<1>4. CASE ~(stp_dlen > 0)
  <2>1. stp_dlen = 0
    BY <1>4, StpTypes, StpAssumption
  <2>2. PICK c \in 0..5 : c = Cursor0
    BY <2>1, StpTypes DEF Cursor0
  <2>3. HeaderInPad(c, stp_pad) = HeaderInPad(c, Pad1)
    <3>1. \A i \in 1..(c - 2) : i + 1 \in Cells /\ i + 1 < c
      BY DEF Cells
    <3>2. \A i \in 1..(IF c < 2 THEN 0 ELSE c - 2) : i + 1 \in Cells /\ i + 1 < c
      BY <3>1
    <3>3. \A i \in 1..(IF c < 2 THEN 0 ELSE c - 2) : Pad1[i + 1] = stp_pad[i + 1]
      BY <2>2, <3>2, PadKeeps
    <3> QED
      BY <3>3, Zenon DEF HeaderInPad
  <2>4. DecoderInPad(c, stp_pad) = DecoderInPad(c, Pad1)
    BY <2>3, Zenon DEF DecoderInPad
  <2>5. InTurn(0) = DecoderInPad(c, Pad1)
    BY <2>1, <2>2 DEF InTurn
  <2>6. ref = DecoderInPad(c, stp_pad)
    BY <1>4, <2>2 DEF InStep
  <2>7. [DecoderInPad(c, Pad1) EXCEPT !.out = <<>>] = DecoderInPad(c, Pad1)
    BY DEF DecoderInPad, Decoder
  <2> QED
    BY <2>4, <2>5, <2>6, <2>7
<1> QED
  BY <1>3, <1>4

\* ... and takes byte after byte.
LEMMA TurnSteps ==
  ASSUME StpTypeOK, InStep, ~astray, NEW j \in Nat, j < Fill + ForH4
  PROVE  RefByte(InTurn(j), left_over[j + 1]) = InTurn(j + 1)
<1>1. PICK a \in 0..6, f \in Nat, g \in Nat, d \in Nat :
        /\ a = Cursor0 /\ f = Fill /\ g = ForH4 /\ d = Dlen1
        /\ a + f <= 6 /\ g <= d
  BY TurnNumbers, Zenon
<1>2. a + f < 6 => g = 0
  BY <1>1, TurnShape
<1>3. CASE stp_dlen = 0 /\ a + j < 6
  <2>1. j < f
    BY <1>1, <1>2, <1>3
  <2>2. Pad1[a + j] = left_over[j + 1]
    BY <1>1, <2>1, PadCopies
  <2>3. InTurn(j) = DecoderInPad(a + j, Pad1)
    BY <1>1, <1>3 DEF InTurn
  <2>4. CASE a + j < 5
    <3>1. InTurn(j + 1) = DecoderInPad(a + j + 1, Pad1)
      <4>1. a + (j + 1) < 6 /\ a + (j + 1) = a + j + 1
        BY <2>4
      <4> QED
        BY <1>1, <1>3, <4>1, Zenon DEF InTurn
    <3>2. a + j \in 0..4
      BY <2>4
    <3> QED
      BY <2>2, <2>3, <3>1, <3>2, ByteIntoPad
  <2>5. CASE ~(a + j < 5)
    <3>1. a + j = 5 /\ j + 1 = f /\ a + f = 6
      BY <1>1, <1>3, <2>1, <2>5
    <3>2. Full
      BY <1>1, <1>3, <3>1 DEF Full
    <3>3. Unexpected <=> Pad1[2] # Prefix \/ Announced > Limit
      BY <3>2 DEF Unexpected
    <3>4. ~Unexpected => Dlen1 = Announced
      BY <3>2 DEF Dlen1
    <3>5. PICK k : k = j + 1
      OBVIOUS
    <3>6. ~(Cursor0 + k < 6) /\ k - Fill = 0
      BY <1>1, <3>1, <3>5
    <3>7. SubSeq(Rest, 1, 0) = <<>> /\ Dlen1 - 0 = Dlen1
      BY <1>1, LengthBounds
    <3>8. InTurn(k) = IF Unexpected THEN RefStart
                      ELSE DecoderInPayload(Dlen1, <<>>)
      BY <3>6, <3>7, Zenon DEF InTurn
    <3>9. RefByte(DecoderInPad(5, Pad1), Pad1[5])
            = IF Pad1[2] # Prefix \/ Announced > Limit THEN RefStart
              ELSE DecoderInPayload(Announced, <<>>)
      BY HeaderEnds DEF Announced
    <3> QED
      BY <2>2, <2>3, <3>1, <3>3, <3>4, <3>5, <3>8, <3>9
  <2> QED
    BY <2>4, <2>5
<1>4. CASE ~(stp_dlen = 0 /\ a + j < 6)
  <2>1. f <= j
    <3>1. CASE stp_dlen = 0
      BY <1>1, <1>4, <3>1
    <3>2. CASE stp_dlen # 0
      <4>1. a = 6
        BY <1>1, <3>2, StpTypes, StpAssumption DEF InStep, Cursor0
      <4> QED
        BY <1>1, <4>1
    <3> QED
      BY <3>1, <3>2
  <2>2. PICK i \in Nat : i = j - f /\ j = f + i /\ i < g /\ i + 1 = j + 1 - f
    BY <1>1, <2>1
  <2>3. ~Unexpected
    BY <1>1, <2>2, TurnShape
  <2>4. PICK s, s1 : s = SubSeq(Rest, 1, i) /\ s1 = SubSeq(Rest, 1, i + 1)
    OBVIOUS
  <2>5. InTurn(j) = DecoderInPayload(d - i, s)
    BY <1>1, <1>4, <2>2, <2>3, <2>4 DEF InTurn
  <2>6. InTurn(j + 1) = DecoderInPayload(d - (i + 1), s1)
    <3>1. ~(stp_dlen = 0 /\ a + (j + 1) < 6)
      BY <1>4
    <3> QED
      BY <1>1, <2>2, <2>3, <2>4, <3>1 DEF InTurn
  <2>7. PICK n \in Nat : n = d - i /\ n > 0 /\ n - 1 = d - (i + 1)
    BY <1>1, <2>2
  <2>8. left_over[j + 1] = Rest[i + 1]
    <3>1. i + 1 \in 1..g /\ f + (i + 1) = j + 1
      BY <2>2
    <3> QED
      BY <1>1, <3>1, TurnShape
  <2>9. s1 = Append(s, Rest[i + 1])
    <3>1. Rest \in Seq(Bytes) /\ i + 1 \in 1..Len(Rest)
      BY <1>1, <2>2, LengthBounds
    <3> QED
      BY <2>4, <3>1
  <2> QED
    BY <2>5, <2>6, <2>7, <2>8, <2>9, ByteOfPayload
<1> QED
  BY <1>3, <1>4

\* So this is what it reads in a turn.
LEMMA TurnReads ==
  ASSUME StpTypeOK, InStep, ~astray
  PROVE  RefRead(SubSeq(left_over, 1, Fill + ForH4)) = InTurn(Fill + ForH4)
<1>1. PICK n \in Nat : n = Fill + ForH4 /\ n <= Len(left_over)
  BY TurnShape
<1>2. PICK bytes : bytes = SubSeq(left_over, 1, n)
  OBVIOUS
<1>3. n = Len(bytes) /\ \A j \in 1..n : bytes[j] = left_over[j]
  BY <1>1, <1>2, StpTypes
<1>4. PICK r : r = [ref EXCEPT !.out = <<>>]
  OBVIOUS
<1> DEFINE f == [j \in 0..n |-> InTurn(j)]
<1>5. \A j \in 0..n : f[j] = InTurn(j)
  OBVIOUS
<1> HIDE DEF f
<1>6. f[0] = r
  BY <1>4, <1>5, TurnStarts
<1>7. ASSUME NEW j \in 0..n, j # 0
      PROVE  f[j] = RefByte(f[j - 1], bytes[j])
  <2>1. PICK k \in Nat : k = j - 1 /\ j = k + 1 /\ k < n /\ k \in 0..n
    BY <1>7
  <2>2. RefByte(InTurn(k), left_over[k + 1]) = InTurn(k + 1)
    BY <1>1, <2>1, TurnSteps
  <2>3. bytes[j] = left_over[j]
    BY <1>3, <1>7
  <2> QED
    BY <1>5, <2>1, <2>2, <2>3
<1>8. f = [j \in 0..n |-> IF j = 0 THEN r ELSE RefByte(f[j - 1], bytes[j])]
  <2>1. f = [j \in 0..n |-> f[j]]
    BY DEF f
  <2> QED
    BY <1>6, <1>7, <2>1
<1>9. RefAfter(r, bytes) = f
  BY <1>3, <1>8, OneReading
<1>10. RefRead(bytes) = f[n]
  BY <1>3, <1>4, <1>9 DEF RefRead
<1> QED
  BY <1>1, <1>2, <1>5, <1>10

\* A turn hands on what the decoder found, and leaves the two in step.
LEMMA TurnInStep ==
  ASSUME StpTypeOK, InStep, ~astray, StpTurn
  PROVE  InStep' /\ HandsPayload'
<1>1. PICK a \in 0..6, f \in Nat, g \in Nat, d \in Nat :
        /\ a = Cursor0 /\ f = Fill /\ g = ForH4 /\ d = Dlen1
        /\ a + f <= 6 /\ g <= d
  BY TurnNumbers, Zenon
<1>2. PICK r : r = InTurn(f + g)
  OBVIOUS
<1>3. /\ ref' = [r EXCEPT !.out = <<>>] /\ ref_h4' = r.out
      /\ stp_pad' = Pad1 /\ stp_cursor' = Cursor1 /\ stp_dlen' = d - g
      /\ h4' = SubSeq(Rest, 1, g)
  BY <1>1, <1>2, TurnReads DEF StpTurn
<1>4. SubSeq(Rest, 1, 0) = <<>>
  BY LengthBounds
<1>5. SUFFICES /\ stp_dlen' > 0 => stp_cursor' = 6
               /\ ref' = IF stp_dlen' > 0 THEN DecoderInPayload(stp_dlen', <<>>)
                         ELSE DecoderInPad(Cursor0', stp_pad')
               /\ h4' = ref_h4'
  BY DEF InStep, HandsPayload
<1>6. ASSUME NEW c, NEW pad
      PROVE  /\ DecoderInPad(c, pad).out = <<>>
             /\ [DecoderInPad(c, pad) EXCEPT !.out = <<>>] = DecoderInPad(c, pad)
  BY DEF DecoderInPad, Decoder
<1>7. CASE stp_dlen = 0 /\ a + (f + g) < 6
  <2>1. g = 0 /\ a + f < 6
    BY <1>1, <1>7, TurnShape
  <2>2. ~Unexpected /\ d = 0
    BY <1>1, <1>7, <2>1 DEF Unexpected, Dlen1, Full
  <2>3. r = DecoderInPad(a + f, Pad1)
    BY <1>1, <1>2, <1>7, <2>1 DEF InTurn
  <2>4. stp_cursor' = a + f /\ stp_dlen' = 0
    BY <1>1, <1>3, <2>1, <2>2 DEF Cursor1
  <2>5. Cursor0' = a + f
    BY <1>1, <2>1, <2>4 DEF Cursor0
  <2>6. ref' = DecoderInPad(Cursor0', stp_pad') /\ ref_h4' = <<>>
    BY <1>3, <1>6, <2>3, <2>5
  <2> QED
    BY <1>3, <1>4, <2>1, <2>4, <2>6
<1>8. CASE ~(stp_dlen = 0 /\ a + (f + g) < 6) /\ Unexpected
  <2>1. g = 0 /\ d = 0
    BY <1>1, <1>8, TurnShape
  <2>2. r = RefStart
    BY <1>1, <1>2, <1>8 DEF InTurn
  <2>3. stp_cursor' = 2 /\ stp_dlen' = 0
    BY <1>1, <1>3, <1>8, <2>1 DEF Cursor1, PadStart
  <2>4. Cursor0' = 2
    BY <2>3 DEF Cursor0
  <2>5. DecoderInPad(2, Pad1) = RefStart
    <3>1. HeaderInPad(2, Pad1) = <<>>
      BY NoHeader
    <3> QED
      BY <3>1, RefStarts DEF DecoderInPad
  <2>6. ref' = DecoderInPad(Cursor0', stp_pad') /\ ref_h4' = <<>>
    BY <1>3, <1>6, <2>2, <2>4, <2>5
  <2> QED
    BY <1>3, <1>4, <2>1, <2>3, <2>6
<1>9. CASE ~(stp_dlen = 0 /\ a + (f + g) < 6) /\ ~Unexpected
  <2>1. f + g - f = g
    BY <1>1
  <2>2. PICK n \in Nat, s \in {SubSeq(Rest, 1, g)} : n = d - g
    BY <1>1
  <2>3. r = DecoderInPayload(n, s)
    <3>1. PICK k : k = f + g
      OBVIOUS
    <3>2. ~(stp_dlen = 0 /\ Cursor0 + k < 6) /\ k - Fill = g
      BY <1>1, <1>9, <2>1, <3>1
    <3>3. InTurn(k) = DecoderInPayload(Dlen1 - g, SubSeq(Rest, 1, g))
      BY <1>9, <3>2, Zenon DEF InTurn
    <3> QED
      BY <1>1, <1>2, <2>2, <3>1, <3>3, Zenon
  <2>4. r.out = s /\ [r EXCEPT !.out = <<>>] = DecoderInPayload(n, <<>>)
    BY <2>3 DEF DecoderInPayload, Decoder
  <2>5. a + f = 6
    <3>1. CASE stp_dlen = 0
      BY <1>1, <1>9, <3>1, TurnShape
    <3>2. CASE stp_dlen # 0
      <4>1. a = 6
        BY <1>1, <3>2, StpTypes, StpAssumption DEF InStep, Cursor0
      <4> QED
        BY <1>1, <4>1
    <3> QED
      BY <3>1, <3>2
  <2>6. stp_cursor' = 6 /\ stp_dlen' = n
    BY <1>1, <1>3, <1>9, <2>2, <2>5 DEF Cursor1
  <2>7. CASE n > 0
    BY <1>3, <2>2, <2>4, <2>6, <2>7
  <2>8. CASE ~(n > 0)
    <3>1. n = 0
      BY <2>8
    <3>2. Cursor0' = 0
      BY <2>6, <3>1 DEF Cursor0
    <3>3. DecoderInPad(0, Pad1) = DecoderInPayload(0, <<>>)
      <4>1. HeaderInPad(0, Pad1) = <<>>
        BY NoHeader
      <4> QED
        BY <4>1 DEF DecoderInPad, DecoderInPayload
    <3> QED
      BY <1>3, <2>2, <2>4, <2>6, <3>1, <3>2, <3>3
  <2> QED
    BY <2>7, <2>8
<1> QED
  BY <1>7, <1>8, <1>9

\* Whatever bytes arrive, in whatever pieces, H4 is handed what a decoder that
\* reads one byte at a time takes for payload.
THEOREM PayloadIsHanded == StpSpec => []HandsPayload
<1>1. StpInit => InStep /\ HandsPayload
  <2> SUFFICES ASSUME StpInit PROVE InStep /\ HandsPayload
    OBVIOUS
  <2>1. stp_dlen = 0 /\ stp_cursor = 2 /\ ref = RefStart /\ h4 = ref_h4
    BY DEF StpInit, PadStart
  <2>2. Cursor0 = 2
    BY <2>1 DEF Cursor0
  <2>3. DecoderInPad(2, stp_pad) = RefStart
    BY NoHeader, RefStarts DEF DecoderInPad
  <2> QED
    BY <2>1, <2>2, <2>3 DEF InStep, HandsPayload
<1>2. StpTypeOK /\ InStep /\ HandsPayload /\ [StpNext]_stpVars
        => InStep' /\ HandsPayload'
  <2> SUFFICES ASSUME StpTypeOK, InStep, HandsPayload, [StpNext]_stpVars
               PROVE  InStep' /\ HandsPayload'
    OBVIOUS
  <2>1. CASE StpReset
    <3>1. /\ stp_dlen' = 0 /\ stp_cursor' = 2 /\ ref' = RefStart /\ h4' = ref_h4'
          /\ stp_pad' = stp_pad
      BY <2>1 DEF StpReset, PadStart
    <3>2. Cursor0' = 2
      BY <3>1 DEF Cursor0
    <3>3. DecoderInPad(2, stp_pad) = RefStart
      BY NoHeader, RefStarts DEF DecoderInPad
    <3> QED
      BY <3>1, <3>2, <3>3 DEF InStep, HandsPayload
  <2>2. ASSUME NEW bytes \in Pieces, StpOffer(bytes)
        PROVE  InStep' /\ HandsPayload'
    BY <2>2 DEF StpOffer, InStep, HandsPayload, Cursor0
  <2>3. CASE StpTurn
    <3>1. CASE astray
      BY <2>3, <3>1 DEF StpTurn, InStep, HandsPayload
    <3> QED
      BY <2>3, <3>1, TurnInStep
  <2>4. CASE StpTurnFails
    BY <2>4 DEF StpTurnFails, InStep, HandsPayload
  <2>5. CASE UNCHANGED stpVars
    BY <2>5 DEF stpVars, InStep, HandsPayload, Cursor0
  <2> QED
    BY <2>1, <2>2, <2>3, <2>4, <2>5 DEF StpNext
<1> QED
  BY <1>1, <1>2, PadNeverOverruns, PTL DEF StpSpec
=============================================================================
