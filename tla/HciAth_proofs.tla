----------------------------- MODULE HciAth_proofs -----------------------------
(***************************************************************************)
(* The safety of the transmit path of hci_ath.c, for any frames and any    *)
(* length of its queue.                                                    *)
(***************************************************************************)
EXTENDS HciAth, SequenceTheorems, TLAPS

\* The types, and a line that is not open: nobody sends and nothing waits.
RestInv ==
    line # "open" =>
      /\ ath_txq = <<>> /\ tx_skb = NoSkb
      /\ sender = "out" /\ writer = "idle" /\ ~write_pending

\* The bit SENDING has an owner: the sender that set it and has not scheduled
\* ctxtsw, a run of ctxtsw that will clear it, or the write work.
SendingInv ==
    line = "open" /\ sending =>
      \/ refused
      \/ sender = "schedule"
      \/ ctx_pending \/ ctxtsw \in {"wake", "clear"}
      \/ write_pending \/ writer \in {"dequeue", "clear"}

\* A frame has somebody on the way to it; the write work, once it has seen an
\* empty queue, counts only if it has been told to look again.
FrameInv ==
    line = "open" /\ (ath_txq # <<>> \/ tx_skb # NoSkb) =>
      \/ refused
      \/ sender # "out"
      \/ ctx_pending \/ ctxtsw # "idle"
      \/ write_pending \/ writer = "dequeue"
      \/ writer \in {"clear", "test"} /\ tx_wakeup
      \/ tx_skb # NoSkb /\ port_busy

AthInv == AthTypeOK /\ RestInv /\ SendingInv /\ FrameInv
-----------------------------------------------------------------------------
\* The empty queue has its type.
LEMMA EmptyQueue == <<>> \in Seq(AthFrames) /\ Len(<<>>) <= MaxQueue
<1>1. Len(<<>>) = 0 /\ <<>> \in Seq(AthFrames)
  OBVIOUS
<1> QED
  BY <1>1, AthAssumption

\* The types hold at first ...
LEMMA AthTypeInit == AthInit => AthTypeOK
  BY EmptyQueue DEF AthInit, AthTypeOK

\* ... and every step keeps them.
LEMMA AthTypeStep == AthTypeOK /\ [AthNext]_athVars => AthTypeOK'
<1> SUFFICES ASSUME AthTypeOK, [AthNext]_athVars PROVE AthTypeOK'
  OBVIOUS
<1> USE DEF AthTypeOK
<1>1. CASE AthOpen
  BY <1>1 DEF AthOpen
<1>2. ASSUME NEW f \in AthFrames, AthEnqueue(f) PROVE AthTypeOK'
  <2>1. ath_txq' \in Seq(AthFrames) /\ Len(ath_txq') <= MaxQueue
    <3>1. Len(Append(ath_txq, f)) = Len(ath_txq) + 1
      OBVIOUS
    <3> QED
      BY <1>2, <3>1, AthAssumption DEF AthEnqueue
  <2>2. cur_sleep' \in BOOLEAN
    BY <1>2 DEF AthEnqueue
  <2> QED
    BY <1>2, <2>1, <2>2 DEF AthEnqueue
<1>3. CASE AthSetsSending
  BY <1>3 DEF AthSetsSending
<1>4. CASE AthSchedules
  BY <1>4 DEF AthSchedules
<1>5. CASE SenderWakes
  BY <1>5 DEF SenderWakes, TxWakeup
<1>6. CASE CtxStarts
  BY ZenonT(60), <1>6 DEF CtxStarts
<1>7. CASE CtxWakes \/ CtxRefused
  <2>1. CASE CtxWakes
    BY <2>1 DEF CtxWakes
  <2>2. CASE CtxRefused
    BY <2>2 DEF CtxRefused
  <2> QED
    BY <1>7, <2>1, <2>2
<1>8. CASE CtxClears
  BY <1>8 DEF CtxClears
<1>9. CASE CtxWakesWriter
  BY <1>9 DEF CtxWakesWriter, TxWakeup
<1>10. CASE WriteStarts
  BY <1>10 DEF WriteStarts
<1>11. CASE WriteFrame
  <2>1. ath_txq' \in Seq(AthFrames) /\ Len(ath_txq') <= MaxQueue
    <3>1. CASE tx_skb = NoSkb
      <4>1. ath_txq' = Tail(ath_txq) /\ ath_txq # <<>>
        BY <1>11, <3>1 DEF WriteFrame
      <4>2. Tail(ath_txq) \in Seq(AthFrames) /\ Len(Tail(ath_txq)) = Len(ath_txq) - 1
        BY <4>1
      <4> QED
        BY <4>1, <4>2, AthAssumption
    <3>2. CASE tx_skb # NoSkb
      BY <1>11, <3>2 DEF WriteFrame
    <3> QED
      BY <3>1, <3>2
  <2>2. tx_skb' \in AthFrames \cup {NoSkb}
    BY <1>11 DEF WriteFrame
  <2> QED
    BY <1>11, <2>1, <2>2 DEF WriteFrame
<1>12. CASE WriteEmpty \/ WriteClears \/ WriteTests
  <2>1. CASE WriteEmpty
    BY <2>1 DEF WriteEmpty
  <2>2. CASE WriteClears
    BY ZenonT(60), <2>2 DEF WriteClears
  <2>3. CASE WriteTests
    <3>1. CASE tx_wakeup
      BY ZenonT(60), <2>3, <3>1 DEF WriteTests
    <3>2. CASE ~tx_wakeup
      BY ZenonT(60), <2>3, <3>2 DEF WriteTests
    <3> QED
      BY <3>1, <3>2
  <2> QED
    BY <1>12, <2>1, <2>2, <2>3
<1>13. CASE PortWakes
  BY ZenonT(60), <1>13 DEF PortWakes, TxWakeup
<1>14. CASE AthFlush
  BY <1>14, EmptyQueue DEF AthFlush
<1>15. CASE AthCloses \/ AthClosed
  <2>1. CASE AthCloses
    BY <2>1, EmptyQueue DEF AthCloses
  <2>2. CASE AthClosed
    BY <2>2 DEF AthClosed
  <2> QED
    BY <1>15, <2>1, <2>2
<1>16. CASE UNCHANGED athVars
  BY <1>16 DEF athVars
<1> QED
  BY <1>1, <1>2, <1>3, <1>4, <1>5, <1>6, <1>7, <1>8, <1>9, <1>10, <1>11,
     <1>12, <1>13, <1>14, <1>15, <1>16 DEF AthNext

\* TxWakeup leaves somebody who will look at the queue, provided that the bit
\* SENDING had an owner.
LEMMA WakeupAttends ==
  ASSUME AthTypeOK, SendingInv, line = "open", sender # "schedule", TxWakeup
  PROVE  \/ write_pending' \/ refused \/ ctx_pending
         \/ ctxtsw \in {"wake", "clear"}
         \/ writer = "dequeue" \/ (writer = "clear" /\ tx_wakeup')
  BY DEF AthTypeOK, SendingInv, TxWakeup

\* Every step leaves the bit and the frames attended.
LEMMA AthInvStep ==
  AthTypeOK /\ RestInv /\ SendingInv /\ FrameInv /\ [AthNext]_athVars
  => RestInv' /\ SendingInv' /\ FrameInv'
<1> SUFFICES ASSUME AthTypeOK, RestInv, SendingInv, FrameInv, [AthNext]_athVars
             PROVE  RestInv' /\ SendingInv' /\ FrameInv'
  OBVIOUS
<1> USE DEF AthTypeOK, RestInv, SendingInv, FrameInv
<1>1. CASE AthOpen
  BY <1>1 DEF AthOpen
<1>2. ASSUME NEW f \in AthFrames, AthEnqueue(f)
      PROVE  RestInv' /\ SendingInv' /\ FrameInv'
  BY <1>2 DEF AthEnqueue
<1>3. CASE AthSetsSending
  BY <1>3 DEF AthSetsSending
<1>4. CASE AthSchedules
  BY <1>4 DEF AthSchedules
<1>5. CASE SenderWakes
  <2>1. line = "open" /\ sender = "wakeup" /\ TxWakeup
    BY <1>5 DEF SenderWakes
  <2> QED
    BY <1>5, <2>1, WakeupAttends DEF SenderWakes, TxWakeup
<1>6. CASE CtxStarts
  BY <1>6 DEF CtxStarts
<1>7. CASE CtxWakes \/ CtxRefused
  BY <1>7 DEF CtxWakes, CtxRefused
<1>8. CASE CtxClears
  BY <1>8 DEF CtxClears
<1>9. CASE CtxWakesWriter
  <2>1. CASE line = "open" /\ sender # "schedule"
    BY <1>9, <2>1, WakeupAttends DEF CtxWakesWriter, TxWakeup
  <2>2. CASE line # "open" \/ sender = "schedule"
    BY <1>9, <2>2 DEF CtxWakesWriter, TxWakeup
  <2> QED
    BY <2>1, <2>2
<1>10. CASE WriteStarts
  BY <1>10 DEF WriteStarts
<1>11. CASE WriteFrame
  <2>1. line = "open" /\ line' = "open" /\ writer' \in {"dequeue", "clear"}
    BY <1>11 DEF WriteFrame
  <2>2. writer' = "dequeue" \/ (tx_skb' # NoSkb /\ port_busy')
    <3>1. ath_txq # <<>> => Head(ath_txq) # NoSkb
      BY AthAssumption
    <3> QED
      BY <1>11, <3>1 DEF WriteFrame
  <2> QED
    BY <2>1, <2>2
<1>12. CASE WriteEmpty \/ WriteClears \/ WriteTests
  BY <1>12 DEF WriteEmpty, WriteClears, WriteTests
<1>13. CASE PortWakes
  <2>1. CASE line = "open" /\ sender # "schedule"
    BY <1>13, <2>1, WakeupAttends DEF PortWakes, TxWakeup
  <2>2. CASE line # "open" \/ sender = "schedule"
    BY <1>13, <2>2 DEF PortWakes, TxWakeup
  <2> QED
    BY <2>1, <2>2
<1>14. CASE AthFlush
  BY <1>14 DEF AthFlush
<1>15. CASE AthCloses \/ AthClosed
  BY <1>15 DEF AthCloses, AthClosed
<1>16. CASE UNCHANGED athVars
  BY <1>16 DEF athVars
<1> QED
  BY <1>1, <1>2, <1>3, <1>4, <1>5, <1>6, <1>7, <1>8, <1>9, <1>10, <1>11,
     <1>12, <1>13, <1>14, <1>15, <1>16 DEF AthNext

\* A closed line has nothing to attend to.
LEMMA AthInvInit == AthInit => AthInv
  BY AthTypeInit DEF AthInit, AthInv, RestInv, SendingInv, FrameInv

\* Whatever is enqueued, flushed and woken: every variable of the transmit path
\* keeps to its range.
THEOREM AthTypeCorrect == AthSpec => []AthTypeOK
  BY AthTypeInit, AthTypeStep, PTL DEF AthSpec

\* For every interleaving of senders, ctxtsw, the write work and the port:
\* frames and the bit SENDING are never left alone, except by a run of ctxtsw
\* that found no CTS or while the rest of a frame waits for the port.
THEOREM FramesAreAttended == AthSpec => []NothingStranded
<1>1. AthInv /\ [AthNext]_athVars => AthInv'
  BY AthTypeStep, AthInvStep DEF AthInv
<1>2. AthInv => NothingStranded
  BY DEF AthInv, SendingInv, FrameInv, NothingStranded, Attended
<1> QED
  BY <1>1, <1>2, AthInvInit, PTL DEF AthSpec
-----------------------------------------------------------------------------
(* The refinement of FrameChannel.                                         *)

\* The frame in hand, then the queue: the contents of the channel.
Held == IF tx_skb = NoSkb THEN <<>> ELSE <<tx_skb>>
Contents == Held \o ath_txq

\* Nothing in hand: the contents are the queue.
LEMMA ContentsFree ==
  ASSUME AthTypeOK, tx_skb = NoSkb
  PROVE  Contents = ath_txq
  BY ConcatEmptySeq DEF AthTypeOK, Contents, Held

\* A frame put before a sequence is its head.
LEMMA FrontLeaves ==
  ASSUME NEW S, NEW x \in S, NEW q \in Seq(S)
  PROVE  <<x>> \o q # <<>> /\ Tail(<<x>> \o q) = q
<1>1. <<x>> \in Seq(S) /\ Len(<<x>>) = 1
  OBVIOUS
<1>2. <<x>> \o q \in Seq(S) /\ Len(<<x>> \o q) = 1 + Len(q)
  BY <1>1, ConcatProperties
<1>3. <<x>> \o q # <<>>
  BY <1>2, LenProperties
<1>4. Tail(<<x>> \o q) \in Seq(S) /\ Len(Tail(<<x>> \o q)) = Len(q)
  BY <1>2, <1>3, HeadTailProperties, LenProperties
<1>5. ASSUME NEW i \in 1..Len(q) PROVE Tail(<<x>> \o q)[i] = q[i]
  <2>1. Tail(<<x>> \o q)[i] = (<<x>> \o q)[i + 1]
    BY <1>2, <1>3, <1>4, HeadTailProperties
  <2>2. (<<x>> \o q)[i + 1] = q[i]
    BY <1>1, ConcatProperties, LenProperties
  <2> QED
    BY <2>1, <2>2
<1> QED
  BY <1>3, <1>4, <1>5, SeqEqual

\* A sequence is its head before its tail.
LEMMA HeadFront ==
  ASSUME NEW S, NEW q \in Seq(S), q # <<>>
  PROVE  <<Head(q)>> \o Tail(q) = q
<1>1. Head(q) \in S /\ Tail(q) \in Seq(S) /\ Len(Tail(q)) = Len(q) - 1
  BY HeadTailProperties
<1>2. <<Head(q)>> \in Seq(S) /\ Len(<<Head(q)>>) = 1 /\ <<Head(q)>>[1] = q[1]
  BY <1>1
<1>3. /\ <<Head(q)>> \o Tail(q) \in Seq(S)
      /\ Len(<<Head(q)>> \o Tail(q)) = Len(q)
  BY <1>1, <1>2, ConcatProperties, LenProperties
<1>4. ASSUME NEW i \in 1..Len(q) PROVE (<<Head(q)>> \o Tail(q))[i] = q[i]
  <2>1. CASE i = 1
    BY <2>1, <1>1, <1>2, ConcatProperties, LenProperties
  <2>2. CASE i > 1
    <3>1. (<<Head(q)>> \o Tail(q))[i] = Tail(q)[i - 1]
      BY <2>2, <1>1, <1>2, ConcatProperties, LenProperties
    <3>2. Tail(q)[i - 1] = q[i]
      BY <2>2, <1>1, HeadTailProperties, LenProperties
    <3> QED
      BY <3>1, <3>2
  <2> QED
    BY <2>1, <2>2
<1> QED
  BY <1>3, <1>4, SeqEqual

\* What a step of the driver does to the contents of the channel.
LEMMA ChannelStep ==
  ASSUME AthTypeOK, RestInv, [AthNext]_athVars
  PROVE  \/ Contents' = Contents
         \/ \E f \in AthFrames : Contents' = Append(Contents, f)
         \/ Contents # <<>> /\ Contents' = Tail(Contents)
         \/ Contents' = <<>>
<1> DEFINE Kept == tx_skb' = tx_skb /\ ath_txq' = ath_txq
<1>1. CASE Kept
  BY <1>1 DEF Contents, Held
<1>2. ASSUME NEW f \in AthFrames, AthEnqueue(f)
      PROVE  Contents' = Append(Contents, f)
  <2>1. Held \in Seq(AthFrames) /\ ath_txq \in Seq(AthFrames) /\ <<f>> \in Seq(AthFrames)
    BY DEF Held, AthTypeOK
  <2>2. Contents' = Held \o (ath_txq \o <<f>>)
    <3>1. Held' = Held /\ ath_txq' = Append(ath_txq, f)
      BY <1>2 DEF AthEnqueue, Held
    <3> QED
      BY <3>1, <2>1, AppendIsConcat DEF Contents
  <2>3. Contents' = (Held \o ath_txq) \o <<f>>
    BY <2>1, <2>2, ConcatAssociative
  <2>4. Held \o ath_txq \in Seq(AthFrames)
    BY <2>1, ConcatProperties
  <2> QED
    BY <2>3, <2>4, AppendIsConcat DEF Contents
<1>3. CASE WriteFrame
  <2>1. ath_txq \in Seq(AthFrames)
    BY DEF AthTypeOK
  <2>2. CASE tx_skb = NoSkb
    <3>1. Contents = ath_txq /\ ath_txq # <<>> /\ ath_txq' = Tail(ath_txq)
      BY <1>3, <2>2, ContentsFree DEF WriteFrame
    <3>2. Tail(ath_txq) \in Seq(AthFrames) /\ Head(ath_txq) \in AthFrames
      BY <2>1, <3>1, HeadTailProperties
    <3>3. CASE tx_skb' = NoSkb
      <4>1. Contents' = Tail(ath_txq)
        BY <3>1, <3>2, <3>3, ConcatEmptySeq DEF Contents, Held
      <4> QED
        BY <3>1, <4>1
    <3>4. CASE tx_skb' = Head(ath_txq)
      <4>1. tx_skb' # NoSkb
        BY <3>2, <3>4, AthAssumption
      <4>2. Contents' = <<Head(ath_txq)>> \o Tail(ath_txq)
        BY <3>1, <3>4, <4>1 DEF Contents, Held
      <4> QED
        BY <2>1, <3>1, <4>2, HeadFront
    <3> QED
      BY <1>3, <2>2, <3>3, <3>4 DEF WriteFrame
  <2>3. CASE tx_skb # NoSkb
    <3>1. tx_skb \in AthFrames /\ ath_txq' = ath_txq /\ tx_skb' \in {tx_skb, NoSkb}
      BY <1>3, <2>3 DEF WriteFrame, AthTypeOK
    <3>2. CASE tx_skb' = NoSkb
      <4>1. Contents' = ath_txq
        BY <2>1, <3>1, <3>2, ConcatEmptySeq DEF Contents, Held
      <4>2. Contents = <<tx_skb>> \o ath_txq
        BY <2>3 DEF Contents, Held
      <4> QED
        BY <2>1, <3>1, <4>1, <4>2, FrontLeaves
    <3>3. CASE tx_skb' = tx_skb
      BY <1>1, <3>1, <3>3
    <3> QED
      BY <3>1, <3>2, <3>3
  <2> QED
    BY <2>2, <2>3
<1>4. CASE AthFlush \/ AthCloses
  <2>1. ath_txq' = <<>> /\ tx_skb' = NoSkb
    BY <1>4 DEF AthFlush, AthCloses
  <2>2. Contents' = <<>> \o <<>>
    BY <2>1 DEF Contents, Held
  <2> QED
    BY <2>2, EmptyQueue, ConcatEmptySeq
<1>5. CASE AthOpen \/ AthSetsSending \/ AthSchedules \/ SenderWakes
  BY <1>1, <1>5 DEF AthOpen, AthSetsSending, AthSchedules, SenderWakes
<1>6. CASE CtxStarts \/ CtxWakes \/ CtxRefused \/ CtxClears \/ CtxWakesWriter
  BY <1>1, <1>6 DEF CtxStarts, CtxWakes, CtxRefused, CtxClears, CtxWakesWriter
<1>7. CASE WriteStarts \/ WriteEmpty \/ WriteClears \/ WriteTests \/ PortWakes
  BY <1>1, <1>7 DEF WriteStarts, WriteEmpty, WriteClears, WriteTests, PortWakes
<1>8. CASE AthClosed \/ UNCHANGED athVars
  BY <1>1, <1>8 DEF AthClosed, athVars
<1> QED
  BY <1>2, <1>3, <1>4, <1>5, <1>6, <1>7, <1>8 DEF AthNext

\* The driver implements the FIFO channel: whatever the port takes of a frame and
\* whenever hci_uart flushes, frames leave in the order in which ath_enqueue
\* accepted them, each of them once.
THEOREM ImplementsChannel == AthSpec => AthChannelSpec
<1>1. AthInit => AthChannel!Init
  <2> SUFFICES ASSUME AthInit PROVE Contents = <<>>
    BY DEF AthChannel!Init, Contents, Held
  <2> QED
    BY AthTypeInit, ContentsFree DEF AthInit
<1>2. AthTypeOK /\ RestInv /\ [AthNext]_athVars
      => [AthChannel!Next]_((IF tx_skb = NoSkb THEN <<>> ELSE <<tx_skb>>) \o ath_txq)
  BY ChannelStep DEF AthChannel!Next, AthChannel!Accept, AthChannel!Leave,
                     AthChannel!Flush, Contents, Held
<1>3. AthSpec => [](AthTypeOK /\ RestInv)
  <2>1. AthInv /\ [AthNext]_athVars => AthInv'
    BY AthTypeStep, AthInvStep DEF AthInv
  <2>2. AthInv => AthTypeOK /\ RestInv
    BY DEF AthInv
  <2> QED
    BY <2>1, <2>2, AthInvInit, PTL DEF AthSpec
<1> QED
  BY <1>1, <1>2, <1>3, PTL DEF AthSpec, AthChannelSpec, AthChannel!Spec
=============================================================================
