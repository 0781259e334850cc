---------------------------- MODULE LcdBus_proofs ----------------------------
(***************************************************************************)
(* Theorems about LcdBus, for every number of writers, every driver and    *)
(* every bound: the types, with the structure of the threads and of the    *)
(* display, and the enable line that is low whenever no job runs; and, for *)
(* the drivers with eight lines, what a write or ModuleExit that overlaps  *)
(* no other job leaves on a display that is in step with it.               *)
(***************************************************************************)
EXTENDS LcdBus, SequenceTheorems, TLAPS

StepNames == {"idle", "drive", "call", "line", "high", "low"}

ThreadState == [step : StepNames, line : Nat, next : Nat \ {0}, calls : Nat,
                send : Seq(Byte)]

Nibble == [rs : {0, 1}, upper : Byte]

PanelRecord == [width : {4, 8}, half : Seq(Nibble), on : BOOLEAN,
                plain : BOOLEAN, text : Seq(Byte)]

PanelState == {p \in PanelRecord : Len(p.half) <= 1 /\ Len(p.text) <= Cells}

\* What a thread carries on its way: it never loses count of its calls, has a
\* pattern to send while it works on the lines, and a writer's job fits the
\* buffer; the loader's job is the one of its phase.
ThreadInv(t) ==
    /\ th[t].next <= th[t].calls + 1
    /\ th[t].step \in {"line", "high", "low"} => th[t].send # <<>>
    /\ th[t].step = "drive" =>
         /\ t = Loader /\ module = "loading" /\ th[t].next = 1
         /\ th[t].line < Len(variant.lowers)
    /\ th[t].step # "drive" => th[t].line \in 0..7
    /\ t \in Writers => th[t].calls <= BufferSize + 1
    /\ t = Loader /\ Busy(t) =>
         \/ module = "loading" /\ th[t].calls = Len(variant.init)
         \/ module = "unloading" /\ th[t].calls = 1

LineInv == e = 1 => \E t \in Threads : th[t].step = "low"

IInv ==
    /\ variant \in Variants
    /\ module \in {"absent", "loading", "live", "unloading"}
    /\ lcd_buffer \in [1..BufferSize -> Byte]
    /\ rs \in {0, 1} /\ data \in Byte /\ e \in {0, 1}
    /\ panel \in PanelState
    /\ th \in [Threads -> ThreadState]
    /\ \A t \in Threads : ThreadInv(t)
    /\ fit \subseteq Threads
    /\ steady \in BOOLEAN
    /\ overlaps \in 0..MaxOverlaps
    /\ LineInv
-----------------------------------------------------------------------------
(* The display.                                                            *)

\* The changes an instruction makes keep the display a display.
LEMMA PanelChanges ==
    ASSUME NEW p \in PanelState
    PROVE  /\ Cleared(p) \in PanelState
           /\ Scrambled(p) \in PanelState
           /\ \A w \in {4, 8} : [p EXCEPT !.width = w, !.half = <<>>] \in PanelState
           /\ \A b \in BOOLEAN : [p EXCEPT !.on = b] \in PanelState
           /\ [p EXCEPT !.half = <<>>] \in PanelState
  <1>1. p \in PanelRecord /\ Len(p.half) <= 1 /\ Len(p.text) <= Cells
    BY DEF PanelState
  <1>2. /\ <<>> \in Seq(Byte) /\ <<>> \in Seq(Nibble)
        /\ Len(<<>>) <= 1 /\ Len(<<>>) <= Cells
    BY CellsAssumption
  <1>3. Cleared(p) \in PanelState
    BY <1>1, <1>2 DEF PanelState, PanelRecord, Cleared
  <1>4. Scrambled(p) \in PanelState
    BY <1>1, <1>2 DEF PanelState, PanelRecord, Scrambled
  <1>5. ASSUME NEW w \in {4, 8}
        PROVE  [p EXCEPT !.width = w, !.half = <<>>] \in PanelState
    BY <1>1, <1>2 DEF PanelState, PanelRecord
  <1>6. ASSUME NEW b \in BOOLEAN
        PROVE  [p EXCEPT !.on = b] \in PanelState
    BY <1>1 DEF PanelState, PanelRecord
  <1>7. [p EXCEPT !.half = <<>>] \in PanelState
    BY <1>1, <1>2 DEF PanelState, PanelRecord
  <1>. QED
    BY <1>3, <1>4, <1>5, <1>6, <1>7

\* A byte has a highest bit, or none.
LEMMA HighestBit ==
    ASSUME NEW b \in Byte
    PROVE  \/ b \cap {6, 7} # {}
           \/ b \cap {5, 6, 7} = {5}
           \/ b \cap (4..7) = {4}
           \/ b \cap (3..7) = {3}
           \/ b \cap (2..7) = {2}
           \/ b \cap (1..7) = {1}
           \/ b = {0}
           \/ b = {}
  <1>1. b \subseteq {0, 1, 2, 3, 4, 5, 6, 7}
    BY SMT DEF Byte
  <1>2. /\ 4..7 = {4, 5, 6, 7} /\ 3..7 = {3, 4, 5, 6, 7}
        /\ 2..7 = {2, 3, 4, 5, 6, 7} /\ 1..7 = {1, 2, 3, 4, 5, 6, 7}
    BY SMT
  <1>3. CASE 6 \in b \/ 7 \in b
    BY <1>3
  <1>4. CASE 6 \notin b /\ 7 \notin b /\ 5 \in b
    BY <1>4
  <1>5. CASE 5 \notin b /\ 6 \notin b /\ 7 \notin b /\ 4 \in b
    BY <1>2, <1>5
  <1>6. CASE 4 \notin b /\ 5 \notin b /\ 6 \notin b /\ 7 \notin b /\ 3 \in b
    BY <1>2, <1>6
  <1>7. CASE 3 \notin b /\ 4 \notin b /\ 5 \notin b /\ 6 \notin b /\ 7 \notin b
             /\ 2 \in b
    BY <1>2, <1>7
  <1>8. CASE 2 \notin b /\ 3 \notin b /\ 4 \notin b /\ 5 \notin b /\ 6 \notin b
             /\ 7 \notin b /\ 1 \in b
    BY <1>2, <1>8
  <1>9. CASE 1 \notin b /\ 2 \notin b /\ 3 \notin b /\ 4 \notin b /\ 5 \notin b
             /\ 6 \notin b /\ 7 \notin b
    BY <1>1, <1>9
  <1>. QED
    BY <1>3, <1>4, <1>5, <1>6, <1>7, <1>8, <1>9

\* No byte takes the display apart.
LEMMA InstructionType ==
    ASSUME NEW p \in PanelState, NEW b \in Byte
    PROVE  Instruction(p, b) \in PanelState
  <1>1. Cleared(p) \in PanelState /\ Scrambled(p) \in PanelState
    BY PanelChanges
  <1>2. [p EXCEPT !.width = IF 4 \in b THEN 8 ELSE 4, !.half = <<>>] \in PanelState
    <2>1. CASE 4 \in b
      BY <2>1, PanelChanges
    <2>2. CASE 4 \notin b
      BY <2>2, PanelChanges
    <2>. QED
      BY <2>1, <2>2
  <1>3. [p EXCEPT !.on = 2 \in b] \in PanelState
    <2>1. CASE 2 \in b
      <3>1. (2 \in b) = TRUE
        BY <2>1
      <3>. QED
        BY <3>1, PanelChanges
    <2>2. CASE 2 \notin b
      <3>1. (2 \in b) = FALSE
        BY <2>2
      <3>. QED
        BY <3>1, PanelChanges
    <2>. QED
      BY <2>1, <2>2
  <1>4. CASE b \cap {6, 7} # {}
    BY <1>1, <1>4 DEF Instruction
  <1>. QED
    BY <1>1, <1>2, <1>3, HighestBit DEF Instruction

LEMMA CharacterType ==
    ASSUME NEW p \in PanelState, NEW b \in Byte
    PROVE  Character(p, b) \in PanelState
  <1>1. CASE p.plain /\ Len(p.text) < Cells
    <2>1. p \in PanelRecord /\ Len(p.half) <= 1
      BY DEF PanelState
    <2>2. Append(p.text, b) \in Seq(Byte) /\ Len(Append(p.text, b)) <= Cells
      BY <1>1, <2>1, CellsAssumption DEF PanelRecord
    <2>3. [p EXCEPT !.text = Append(@, b)] \in PanelState
      BY <2>1, <2>2 DEF PanelState, PanelRecord
    <2>. QED
      BY <1>1, <2>3 DEF Character
  <1>2. CASE ~(p.plain /\ Len(p.text) < Cells)
    BY <1>2, PanelChanges DEF Character
  <1>. QED
    BY <1>1, <1>2

\* An enable pulse keeps the display a display, whatever is on the lines.
LEMMA LatchedType ==
    ASSUME NEW p \in PanelState, NEW r \in {0, 1}, NEW b \in Byte
    PROVE  Latched(p, r, b) \subseteq PanelState
  <1>1. \A q \in PanelState, s \in {0, 1}, c \in Byte :
          Received(q, s, c) \in PanelState
    BY InstructionType, CharacterType DEF Received
  <1>2. b \cap (4..7) \in Byte /\ {k \in 0..3 : k + 4 \in b} \in Byte
    BY DEF Byte
  <1>3. CASE p.width = 8
    BY <1>1, <1>3 DEF Latched
  <1>4. CASE p.width # 8 /\ p.half = <<>>
    <2>. DEFINE h == <<[rs |-> r, upper |-> b \cap (4..7)]>>
    <2>a. h \in Seq(Nibble) /\ Len(h) <= 1
      BY <1>2 DEF Nibble
    <2>. HIDE DEF h
    <2>1. [p EXCEPT !.half = h] \in PanelState
      BY <2>a DEF PanelState, PanelRecord
    <2>. QED
      BY <1>4, <2>1 DEF Latched, h
  <1>5. CASE p.width # 8 /\ p.half # <<>>
    <2>1. p.half[1] \in Nibble
      BY <1>5 DEF PanelState, PanelRecord
    <2>2. p.half[1].upper \cup {k \in 0..3 : k + 4 \in b} \in Byte
      BY <1>2, <2>1 DEF Nibble, Byte
    <2>3. p.half[1].rs \in {0, 1}
      BY <2>1 DEF Nibble
    <2>. QED
      <3>. DEFINE c == p.half[1].upper \cup {k \in 0..3 : k + 4 \in b}
                  whole == [p EXCEPT !.half = <<>>]
      <3>1. whole \in PanelState /\ c \in Byte
        BY <2>2, PanelChanges
      <3>2. Latched(p, r, b) = {Received(whole, s, c) : s \in {r, p.half[1].rs}}
        BY <1>5 DEF Latched
      <3>. HIDE DEF c, whole
      <3>3. Received(whole, r, c) \in PanelState
            /\ Received(whole, p.half[1].rs, c) \in PanelState
        BY <1>1, <2>3, <3>1
      <3>. QED
        BY <3>2, <3>3
  <1>. QED
    BY <1>3, <1>4, <1>5
\* A pulse that finds lines which are no outputs yet does so, too.
LEMMA UnsettledType ==
    ASSUME NEW p \in PanelState
    PROVE  Unsettled(p) \subseteq PanelState
  <1>1. /\ <<>> \in Seq(Byte) /\ <<>> \in Seq(Nibble)
        /\ Len(<<>>) <= 1 /\ Len(<<>>) <= Cells
    BY CellsAssumption
  <1>2. ASSUME NEW n \in [rs : {0, 1}, upper : SUBSET (4..7)]
        PROVE  <<n>> \in Seq(Nibble) /\ Len(<<n>>) <= 1
    <2>1. n \in Nibble
      BY DEF Nibble, Byte
    <2>. QED
      BY <2>1
  <1>3. ASSUME NEW b \in BOOLEAN, NEW w \in {4, 8},
               NEW h \in {<<>>} \cup {<<n>> : n \in [rs : {0, 1}, upper : SUBSET (4..7)]}
        PROVE  [width |-> w, half |-> h, on |-> b, plain |-> FALSE, text |-> <<>>]
                 \in PanelState
    <2>1. h \in Seq(Nibble) /\ Len(h) <= 1
      BY <1>1, <1>2
    <2>. QED
      BY <1>1, <2>1 DEF PanelState, PanelRecord
  <1>. QED
    BY <1>3 DEF Unsettled
-----------------------------------------------------------------------------
(* The calls.                                                              *)

\* A call puts at least one pattern on the lines.
LEMMA PatternsType ==
    ASSUME NEW c \in Call
    PROVE  Patterns(c) \in Seq(Byte) /\ Patterns(c) # <<>>
  <1>1. c.byte \in Byte
    BY DEF Call
  <1>2. LowNibble(c.byte) \in Byte /\ HighNibble(c.byte) \in Byte
    BY <1>1 DEF LowNibble, HighNibble, Byte
  <1>. QED
    BY <1>1, <1>2 DEF Patterns

\* The job of every thread is made of calls.
LEMMA JobCallType ==
    ASSUME IInv, NEW t \in Threads, Busy(t), NEW k \in 1..th[t].calls
    PROVE  JobCall(t, k) \in Call
  <1>1. Clear \in Call
    BY DEF Clear, Call, Byte
  <1>2. CASE t = Loader
    <2>1. ThreadInv(Loader)
      BY <1>2 DEF IInv
    <2>2. CASE module = "loading" /\ th[t].calls = Len(variant.init)
      <3>1. variant.init \in Seq(Call)
        BY LcdAssumption DEF IInv, Variant
      <3>2. variant.init[k] \in Call
        BY <2>2, <3>1
      <3>. QED
        BY <1>2, <2>2, <3>2 DEF JobCall
    <2>3. CASE module = "unloading"
      BY <1>1, <1>2, <2>3 DEF JobCall
    <2>. QED
      BY <1>2, <2>1, <2>2, <2>3 DEF ThreadInv
  <1>3. CASE t \in Writers
    <2>1. t # Loader /\ th[t].calls <= BufferSize + 1 /\ BufferSize \in Nat
          /\ th[t].calls \in Nat
      BY <1>3, LcdAssumption, CellsAssumption DEF IInv, ThreadInv, ThreadState
    <2>2. CASE k = 1
      BY <1>1, <2>1, <2>2 DEF JobCall
    <2>3. CASE k # 1
      <3>1. lcd_buffer[k - 1] \in Byte
        BY <2>1, <2>3 DEF IInv
      <3>2. [rs |-> 1, byte |-> lcd_buffer[k - 1]] \in Call
        BY <3>1 DEF Call
      <3>. QED
        BY <2>1, <2>3, <3>2 DEF JobCall
    <2>. QED
      BY <2>2, <2>3
  <1>. QED
    BY <1>2, <1>3 DEF Threads
-----------------------------------------------------------------------------
(* The invariant.                                                          *)

LEMMA InitInv == Init => IInv
  <1>. SUFFICES ASSUME Init PROVE IInv
    OBVIOUS
  <1>1. <<>> \in Seq(Byte) /\ <<>> \in Seq(Nibble) /\ Len(<<>>) = 0
    OBVIOUS
  <1>2. PowerOn \in PanelState
    BY <1>1, CellsAssumption DEF PowerOn, PanelState, PanelRecord
  <1>3. Resting \in ThreadState
    BY <1>1 DEF Resting, ThreadState, StepNames
  <1>4. th \in [Threads -> ThreadState]
    BY <1>3 DEF Init
  <1>5. \A t \in Threads : ThreadInv(t)
    BY CellsAssumption, LcdAssumption DEF Init, ThreadInv, Resting, Busy
  <1>6. lcd_buffer \in [1..BufferSize -> Byte] /\ data \in Byte
    BY DEF Init, Byte
  <1>7. steady \in BOOLEAN
    BY DEF Init
  <1>8. LineInv
    BY DEF Init, LineInv
  <1>. QED
    BY <1>2, <1>4, <1>5, <1>6, <1>7, <1>8, LcdAssumption DEF Init, IInv

\* A thread moves on: what every action of one thread has to show.
LEMMA ThreadMoves ==
    ASSUME IInv, NEW t \in Threads, NEW s \in ThreadState,
           th' = [th EXCEPT ![t] = s],
           UNCHANGED <<variant, module>>,
           s.next <= s.calls + 1,
           s.step \in {"line", "high", "low"} => s.send # <<>>,
           s.step # "drive" /\ s.line \in 0..7,
           s.step # "idle" => Busy(t) /\ s.calls = th[t].calls,
           t \in Writers => s.calls <= BufferSize + 1
    PROVE  /\ th' \in [Threads -> ThreadState]
           /\ \A u \in Threads : ThreadInv(u)'
  <1>1. th' \in [Threads -> ThreadState]
    BY DEF IInv
  <1>2. th'[t] = s /\ \A u \in Threads \ {t} : th'[u] = th[u]
    BY DEF IInv
  <1>3. ThreadInv(t)'
    BY <1>2 DEF IInv, ThreadInv, Busy
  <1>4. \A u \in Threads \ {t} : ThreadInv(u)'
    BY <1>2 DEF IInv, ThreadInv, Busy
  <1>. QED
    BY <1>1, <1>3, <1>4

\* A thread that is not at the falling edge does not hold the line high.
LEMMA LineStays ==
    ASSUME IInv, NEW t \in Threads, th[t].step # "low", e' = e,
           \A u \in Threads \ {t} : th'[u] = th[u]
    PROVE  LineInv'
  BY DEF IInv, LineInv

LEMMA StartingType ==
    ASSUME NEW n \in Nat
    PROVE  /\ Starting(n) \in ThreadState
           /\ Starting(n).step = "call" /\ Starting(n).next = 1
           /\ Starting(n).calls = n /\ Starting(n).line = 0
  <1>1. <<>> \in Seq(Byte)
    OBVIOUS
  <1>2. Resting \in ThreadState /\ Resting.next = 1 /\ Resting.line = 0
    BY <1>1 DEF Resting, ThreadState, StepNames
  <1>3. /\ [Resting EXCEPT !.step = "call", !.calls = n] \in ThreadState
        /\ [Resting EXCEPT !.step = "call", !.calls = n].step = "call"
        /\ [Resting EXCEPT !.step = "call", !.calls = n].next = 1
        /\ [Resting EXCEPT !.step = "call", !.calls = n].calls = n
        /\ [Resting EXCEPT !.step = "call", !.calls = n].line = 0
    BY <1>2 DEF ThreadState, StepNames
  <1>. QED
    BY <1>3 DEF Starting

\* The loader enters ModuleInit at its first line.
LEMMA DrivingType ==
    ASSUME NEW n \in Nat
    PROVE  LET s == [Starting(n) EXCEPT !.step = "drive"]
           IN  /\ s \in ThreadState /\ s.step = "drive" /\ s.next = 1
               /\ s.calls = n /\ s.line = 0
  BY StartingType DEF ThreadState, StepNames

LEMMA LoadInv == IInv /\ Load => IInv'
  <1>. SUFFICES ASSUME IInv, Load PROVE IInv'
    OBVIOUS
  <1>. DEFINE n == Len(variant.init)
              s == [Starting(n) EXCEPT !.step = "drive"]
  <1>1. n \in Nat /\ Len(variant.lowers) \in Nat /\ Len(variant.lowers) > 0
    BY LcdAssumption DEF IInv, Variant
  <1>2. th' = [th EXCEPT ![Loader] = s] /\ Loader \in Threads
    BY DEF Load, Threads
  <1>a. /\ s \in ThreadState /\ s.step = "drive" /\ s.next = 1
        /\ s.calls = n /\ s.line = 0
    BY <1>1, DrivingType
  <1>. HIDE DEF s
  <1>3. th' \in [Threads -> ThreadState]
    BY <1>2, <1>a DEF IInv
  <1>4. ASSUME NEW t \in Threads PROVE ThreadInv(t)'
    <2>1. CASE t = Loader
      <3>1. th'[t] = s /\ module' = "loading" /\ variant' = variant /\ t \notin Writers
        BY <1>2, <2>1, LcdAssumption DEF IInv, Load
      <3>. QED
        BY <1>1, <1>a, <2>1, <3>1 DEF ThreadInv
    <2>2. CASE t # Loader
      <3>1. th'[t] = th[t]
        BY <1>2, <2>2 DEF IInv
      <3>. QED
        BY <2>2, <3>1 DEF IInv, ThreadInv
    <2>. QED
      BY <2>1, <2>2
  <1>5. lcd_buffer' \in [1..BufferSize -> Byte]
    BY DEF Load, Byte
  <1>6. fit' \subseteq Threads /\ steady' \in BOOLEAN
    BY <1>2 DEF Load, Alone, OthersIdle, InStep
  <1>7. LineInv'
    <2>1. module = "absent" /\ ThreadInv(Loader) /\ e' = e
      BY <1>2 DEF Load, IInv
    <2>2. th[Loader].step # "low"
      BY <2>1 DEF ThreadInv, Busy
    <2>. QED
      BY <1>2, <2>1, <2>2, LineStays DEF IInv
  <1>. QED
    BY <1>3, <1>4, <1>5, <1>6, <1>7 DEF Load, IInv

LEMMA DriveInv == IInv /\ DriveLine => IInv'
  <1>. SUFFICES ASSUME IInv, DriveLine PROVE IInv'
    OBVIOUS
  <1>. DEFINE k == th[Loader].line + 1
              s == IF k = Len(variant.lowers)
                   THEN [th[Loader] EXCEPT !.step = "call", !.line = 0]
                   ELSE [th[Loader] EXCEPT !.line = k]
  <1>1. /\ Loader \in Threads /\ th[Loader] \in ThreadState /\ ThreadInv(Loader)
        /\ th[Loader].step = "drive" /\ Loader \notin Writers
        /\ Len(variant.lowers) \in Nat
    BY LcdAssumption DEF IInv, DriveLine, Threads, Variant
  <1>2. /\ th' = [th EXCEPT ![Loader] = s]
        /\ UNCHANGED <<variant, module, lcd_buffer, given, fit,
                       steady, overlaps>>
        /\ rs' \in {0, 1} /\ e' \in {0, e}
    BY DEF DriveLine, IInv
  <1>3. s \in ThreadState
    <2>1. k \in Nat
      BY <1>1 DEF ThreadState
    <2>2. [th[Loader] EXCEPT !.line = k] \in ThreadState
      BY <1>1, <2>1 DEF ThreadState
    <2>3. [th[Loader] EXCEPT !.step = "call", !.line = 0] \in ThreadState
      BY <1>1 DEF ThreadState, StepNames
    <2>. QED
      BY <2>2, <2>3
  <1>4. /\ s.next = th[Loader].next /\ s.calls = th[Loader].calls
        /\ \/ s.step = "call" /\ s.line = 0
           \/ s.step = "drive" /\ s.line < Len(variant.lowers)
    BY <1>1 DEF ThreadState, ThreadInv
  <1>. HIDE DEF s
  <1>5. th' \in [Threads -> ThreadState]
    BY <1>2, <1>3 DEF IInv
  <1>6. ASSUME NEW t \in Threads PROVE ThreadInv(t)'
    <2>1. CASE t = Loader
      <3>1. th'[t] = s
        BY <1>2, <2>1 DEF IInv
      <3>. QED
        BY <1>1, <1>2, <1>4, <2>1, <3>1 DEF ThreadInv, Busy
    <2>2. CASE t # Loader
      <3>1. th'[t] = th[t]
        BY <1>2, <2>2 DEF IInv
      <3>. QED
        BY <1>2, <2>2, <3>1 DEF IInv, ThreadInv
    <2>. QED
      BY <2>1, <2>2
  <1>7. data' \in Byte
    BY DEF DriveLine, IInv, Byte
  <1>8. panel' \in PanelState
    BY UnsettledType DEF DriveLine, IInv
  <1>9. LineInv'
    <2>1. CASE e' = e
      BY <1>1, <1>2, <2>1, LineStays DEF IInv
    <2>2. CASE e' = 0
      BY <2>2 DEF LineInv
    <2>. QED
      BY <1>2, <2>1, <2>2
  <1>. QED
    BY <1>2, <1>5, <1>6, <1>7, <1>8, <1>9 DEF IInv

LEMMA UnloadInv == IInv /\ Unload => IInv'
  <1>. SUFFICES ASSUME IInv, Unload PROVE IInv'
    OBVIOUS
  <1>1. th' = [th EXCEPT ![Loader] = Starting(1)] /\ Loader \in Threads
    BY DEF Unload, Threads
  <1>2. th' \in [Threads -> ThreadState]
    BY <1>1, StartingType DEF IInv
  <1>3. ASSUME NEW t \in Threads PROVE ThreadInv(t)'
    <2>1. CASE t = Loader
      BY <1>1, <2>1, StartingType, LcdAssumption DEF IInv, Unload, ThreadInv
    <2>2. CASE t # Loader
      <3>1. th'[t] = th[t]
        BY <1>1, <2>2 DEF IInv
      <3>. QED
        BY <2>2, <3>1 DEF IInv, ThreadInv
    <2>. QED
      BY <2>1, <2>2
  <1>4. LineInv'
    <2>1. th[Loader].step # "low" /\ e' = e
      BY <1>1 DEF Unload, Busy
    <2>. QED
      BY <1>1, <2>1, LineStays DEF IInv
  <1>5. fit' \subseteq Threads
    BY <1>1 DEF Unload
  <1>. QED
    BY <1>2, <1>3, <1>4, <1>5 DEF Unload, IInv

LEMMA WriteInv ==
    ASSUME IInv, NEW w \in Writers, NEW text \in Texts, Write(w, text)
    PROVE  IInv'
  <1>. DEFINE to_copy == Min2(Len(text), BufferSize)
  <1>1. /\ text \in Seq(Byte)
        /\ BufferSize \in Nat
        /\ to_copy \in Nat /\ to_copy <= Len(text) /\ to_copy <= BufferSize
    BY LcdAssumption, CellsAssumption DEF Min2
  <1>2. /\ th' = [th EXCEPT ![w] = Starting(to_copy + 1)]
        /\ w \in Threads /\ w # Loader
        /\ ~Busy(w)
        /\ UNCHANGED <<variant, module, rs, data, e, panel>>
    BY LcdAssumption DEF Write, Threads
  <1>. HIDE DEF to_copy
  <1>3. th' \in [Threads -> ThreadState]
    BY <1>1, <1>2, StartingType DEF IInv
  <1>4. ASSUME NEW t \in Threads PROVE ThreadInv(t)'
    <2>1. CASE t = w
      BY <1>1, <1>2, <2>1, StartingType DEF IInv, ThreadInv
    <2>2. CASE t # w
      <3>1. th'[t] = th[t]
        BY <1>2, <2>2 DEF IInv
      <3>. QED
        BY <1>2, <3>1 DEF IInv, ThreadInv, Busy
    <2>. QED
      BY <2>1, <2>2
  <1>5. LineInv'
    <2>1. th[w].step # "low"
      BY <1>2 DEF Busy
    <2>. QED
      BY <1>2, <2>1, LineStays DEF IInv
  <1>6. lcd_buffer' \in [1..BufferSize -> Byte]
    <2>1. PICK copied \in 0..to_copy :
            lcd_buffer' = [k \in 1..BufferSize |->
                             IF k <= copied THEN text[k]
                             ELSE IF k <= to_copy THEN {} ELSE lcd_buffer[k]]
      BY DEF Write, to_copy
    <2>2. \A k \in 1..BufferSize : k <= copied => text[k] \in Byte
      BY <1>1
    <2>3. {} \in Byte
      BY DEF Byte
    <2>. QED
      BY <2>1, <2>2, <2>3 DEF IInv
  <1>7. fit' \subseteq Threads /\ steady' \in BOOLEAN
    BY <1>2 DEF Write, OthersIdle
  <1>8. overlaps' \in 0..MaxOverlaps
    BY LcdAssumption DEF Write, IInv
  <1>. QED
    BY <1>2, <1>3, <1>4, <1>5, <1>6, <1>7, <1>8 DEF IInv

\* What an action that only moves thread t has to show.
LEMMA StepInv ==
    ASSUME IInv, NEW t \in Threads, NEW s \in ThreadState,
           th' = [th EXCEPT ![t] = s],
           UNCHANGED <<variant, module, lcd_buffer>>,
           s.next <= s.calls + 1,
           s.step \in {"line", "high", "low"} => s.send # <<>>,
           s.step # "drive" /\ s.line \in 0..7,
           s.step # "idle" => Busy(t) /\ s.calls = th[t].calls,
           t \in Writers => s.calls <= BufferSize + 1,
           rs' \in {0, 1}, data' \in Byte, e' \in {0, 1},
           panel' \in PanelState, fit' \subseteq Threads,
           UNCHANGED <<steady, overlaps>>,
           e' = 0 \/ s.step = "low" \/ (e' = e /\ th[t].step # "low")
    PROVE  IInv'
  <1>1. th' \in [Threads -> ThreadState] /\ \A u \in Threads : ThreadInv(u)'
    BY ThreadMoves
  <1>2. th'[t] = s /\ \A u \in Threads \ {t} : th'[u] = th[u]
    BY DEF IInv
  <1>3. LineInv'
    <2>1. CASE e' = 0
      BY <2>1 DEF LineInv
    <2>2. CASE s.step = "low"
      BY <1>2, <2>2 DEF LineInv
    <2>3. CASE e' = e /\ th[t].step # "low"
      BY <1>2, <2>3, LineStays
    <2>. QED
      BY <2>1, <2>2, <2>3
  <1>. QED
    BY <1>1, <1>3 DEF IInv

\* The records that the steps of a thread build.
LEMMA Moves ==
    ASSUME NEW r \in ThreadState
    PROVE  /\ \A b \in Seq(Byte), k \in 0..7 :
                /\ [r EXCEPT !.next = @ + 1, !.step = "line", !.line = k,
                             !.send = b] \in ThreadState
                /\ [r EXCEPT !.step = "line", !.line = k, !.send = b] \in ThreadState
                /\ [r EXCEPT !.step = "call", !.send = b] \in ThreadState
           /\ \A k \in 0..7 :
                /\ [r EXCEPT !.step = "high", !.line = k] \in ThreadState
                /\ [r EXCEPT !.line = k] \in ThreadState
           /\ FirstLine \in 0..7
  <1>1. ASSUME NEW q \in ThreadState, NEW b \in Seq(Byte), NEW k \in 0..7
        PROVE  [q EXCEPT !.step = "line", !.line = k, !.send = b] \in ThreadState
    <2>1. k \in Nat
      OBVIOUS
    <2>. QED
      BY <2>1 DEF ThreadState, StepNames
  <1>2. ASSUME NEW b \in Seq(Byte), NEW k \in 0..7
        PROVE  [r EXCEPT !.next = @ + 1, !.step = "line", !.line = k,
                         !.send = b] \in ThreadState
    <2>. DEFINE q == [r EXCEPT !.next = @ + 1]
    <2>1. q \in ThreadState
      BY DEF ThreadState
    <2>. HIDE DEF q
    <2>2. [q EXCEPT !.step = "line", !.line = k, !.send = b] \in ThreadState
      BY <1>1, <2>1
    <2>. QED
      BY <2>2 DEF q
  <1>3. ASSUME NEW b \in Seq(Byte)
        PROVE  [r EXCEPT !.step = "call", !.send = b] \in ThreadState
    BY DEF ThreadState, StepNames
  <1>4. ASSUME NEW k \in 0..7
        PROVE  [r EXCEPT !.step = "high", !.line = k] \in ThreadState
               /\ [r EXCEPT !.line = k] \in ThreadState
    <2>1. k \in Nat
      OBVIOUS
    <2>2. [r EXCEPT !.line = k] \in ThreadState
      BY <2>1 DEF ThreadState
    <2>3. [r EXCEPT !.step = "high", !.line = k] \in ThreadState
      BY <2>1 DEF ThreadState, StepNames
    <2>. QED
      BY <2>2, <2>3
  <1>5. FirstLine \in 0..7
    BY DEF FirstLine
  <1>. QED
    BY <1>1, <1>2, <1>3, <1>4, <1>5

LEMMA SelectInv ==
    ASSUME IInv, NEW t \in Threads, SelectRegister(t)
    PROVE  IInv'
  <1>. DEFINE c == JobCall(t, th[t].next)
              s == [th[t] EXCEPT !.next = @ + 1, !.step = "line",
                                 !.line = FirstLine, !.send = Patterns(c)]
  <1>1. th[t] \in ThreadState /\ ThreadInv(t) /\ Busy(t)
    BY DEF IInv, SelectRegister, Busy
  <1>2. c \in Call
    <2>1. th[t].next \in 1..th[t].calls
      BY <1>1 DEF SelectRegister, ThreadState
    <2>. QED
      BY <1>1, <2>1, JobCallType
  <1>3. Patterns(c) \in Seq(Byte) /\ Patterns(c) # <<>> /\ c.rs \in {0, 1}
    BY <1>2, PatternsType DEF Call
  <1>4. /\ th' = [th EXCEPT ![t] = s]
        /\ rs' = c.rs
        /\ th[t].step = "call" /\ th[t].next <= th[t].calls
        /\ UNCHANGED <<variant, module, lcd_buffer, data, e, panel, given, fit,
                       steady, overlaps>>
    BY DEF SelectRegister, IInv
  <1>. HIDE DEF c
  <1>5. s \in ThreadState
    BY <1>1, <1>3, Moves
  <1>6. /\ s.step = "line" /\ s.next = th[t].next + 1 /\ s.calls = th[t].calls
        /\ s.send = Patterns(c) /\ s.line \in 0..7
    BY <1>1, Moves DEF ThreadState
  <1>7. s.next <= s.calls + 1
    BY <1>1, <1>4, <1>6 DEF ThreadState
  <1>. HIDE DEF s
  <1>. QED
    BY <1>1, <1>3, <1>4, <1>5, <1>6, <1>7, StepInv DEF IInv, ThreadInv

LEMMA LineInvStep ==
    ASSUME IInv, NEW t \in Threads, SetLine(t)
    PROVE  IInv'
  <1>. DEFINE s == IF th[t].line = 7 THEN [th[t] EXCEPT !.step = "high", !.line = 0]
                   ELSE [th[t] EXCEPT !.line = th[t].line + 1]
  <1>1. th[t] \in ThreadState /\ ThreadInv(t) /\ Busy(t) /\ th[t].step = "line"
    BY DEF IInv, SetLine, Busy
  <1>2. /\ th' = [th EXCEPT ![t] = s]
        /\ UNCHANGED <<variant, module, lcd_buffer, rs, e, panel, given, fit,
                       steady, overlaps>>
    BY DEF SetLine, IInv
  <1>3. data' \in Byte
    BY <1>1 DEF SetLine, IInv, Byte, ThreadInv
  <1>4. s \in ThreadState
    <2>1. th[t].line # 7 => th[t].line + 1 \in 0..7
      BY <1>1 DEF ThreadInv
    <2>2. CASE th[t].line = 7
      <3>1. 0 \in 0..7
        OBVIOUS
      <3>2. [th[t] EXCEPT !.step = "high", !.line = 0] \in ThreadState
        BY <1>1, <3>1, Moves
      <3>. QED
        BY <2>2, <3>2
    <2>3. CASE th[t].line # 7
      BY <1>1, <2>1, <2>3, Moves
    <2>. QED
      BY <2>2, <2>3
  <1>5. /\ s.step \in {"high", "line"} /\ s.next = th[t].next
        /\ s.calls = th[t].calls /\ s.send = th[t].send /\ s.line \in 0..7
    BY <1>1 DEF ThreadState, ThreadInv
  <1>. HIDE DEF s
  <1>. QED
    BY <1>1, <1>2, <1>3, <1>4, <1>5, StepInv DEF IInv, ThreadInv

LEMMA HighInv ==
    ASSUME IInv, NEW t \in Threads, EnableHigh(t)
    PROVE  IInv'
  <1>. DEFINE s == [th[t] EXCEPT !.step = "low"]
  <1>1. th[t] \in ThreadState /\ ThreadInv(t) /\ Busy(t) /\ th[t].step = "high"
    BY DEF IInv, EnableHigh, Busy
  <1>2. /\ th' = [th EXCEPT ![t] = s]
        /\ e' = 1
        /\ UNCHANGED <<variant, module, lcd_buffer, rs, data, panel, given, fit,
                       steady, overlaps>>
    BY DEF EnableHigh, IInv
  <1>3. s \in ThreadState
    BY <1>1 DEF ThreadState, StepNames
  <1>4. /\ s.step = "low" /\ s.next = th[t].next
        /\ s.calls = th[t].calls /\ s.send = th[t].send /\ s.line \in 0..7
    BY <1>1 DEF ThreadState, ThreadInv
  <1>. HIDE DEF s
  <1>. QED
    BY <1>1, <1>2, <1>3, <1>4, StepInv DEF IInv, ThreadInv

LEMMA LowInv ==
    ASSUME IInv, NEW t \in Threads, EnableLow(t)
    PROVE  IInv'
  <1>. DEFINE tail == Tail(th[t].send)
              s == IF tail = <<>> THEN [th[t] EXCEPT !.step = "call", !.send = <<>>]
                   ELSE [th[t] EXCEPT !.step = "line", !.line = FirstLine,
                                      !.send = tail]
  <1>1. th[t] \in ThreadState /\ ThreadInv(t) /\ Busy(t) /\ th[t].step = "low"
    BY DEF IInv, EnableLow, Busy
  <1>2. tail \in Seq(Byte) /\ <<>> \in Seq(Byte)
    BY <1>1 DEF ThreadState, ThreadInv
  <1>3. /\ th' = [th EXCEPT ![t] = s]
        /\ e' = 0
        /\ UNCHANGED <<variant, module, lcd_buffer, rs, data, given, fit,
                       steady, overlaps>>
    BY DEF EnableLow, IInv
  <1>4. panel' \in PanelState
    <2>1. Latched(panel, rs, data) \subseteq PanelState /\ Unsettled(panel) \subseteq PanelState
      BY LatchedType, UnsettledType DEF IInv
    <2>. QED
      BY <2>1 DEF EnableLow, IInv
  <1>. HIDE DEF tail
  <1>5. s \in ThreadState
    BY <1>1, <1>2, Moves
  <1>6. /\ s.step \in {"call", "line"} /\ s.next = th[t].next
        /\ s.calls = th[t].calls /\ s.line \in 0..7
        /\ s.step = "line" => s.send # <<>>
    BY <1>1, Moves DEF ThreadState, ThreadInv
  <1>. HIDE DEF s
  <1>. QED
    BY <1>1, <1>3, <1>4, <1>5, <1>6, StepInv DEF IInv, ThreadInv

LEMMA RestingType ==
    /\ Resting \in ThreadState
    /\ Resting.step = "idle" /\ Resting.next = 1 /\ Resting.calls = 0
    /\ Resting.line = 0
  <1>1. <<>> \in Seq(Byte)
    OBVIOUS
  <1>. QED
    BY <1>1 DEF Resting, ThreadState, StepNames

LEMMA WriteDoneInv ==
    ASSUME IInv, NEW w \in Writers, WriteDone(w)
    PROVE  IInv'
  <1>1. w \in Threads /\ th[w].step = "call" /\ BufferSize \in Nat
    BY LcdAssumption, CellsAssumption DEF WriteDone, Threads
  <1>2. /\ th' = [th EXCEPT ![w] = Resting]
        /\ fit' = fit \ {w}
        /\ UNCHANGED <<variant, module, lcd_buffer, rs, data, e, panel, steady, overlaps>>
    BY DEF WriteDone
  <1>3. /\ Resting.calls <= BufferSize + 1 /\ Resting.next <= Resting.calls + 1
        /\ Resting.line \in 0..7 /\ Resting.step \notin {"drive", "line", "high", "low"}
        /\ fit' \subseteq Threads
    BY <1>1, <1>2, RestingType DEF IInv
  <1>. QED
    BY <1>1, <1>2, <1>3, RestingType, StepInv DEF IInv

LEMMA LoaderDoneInv == IInv /\ LoaderDone => IInv'
  <1>. SUFFICES ASSUME IInv, LoaderDone PROVE IInv'
    OBVIOUS
  <1>1. /\ Loader \in Threads /\ Loader \notin Writers
        /\ th[Loader].step = "call"
        /\ th' = [th EXCEPT ![Loader] = Resting]
    BY LcdAssumption DEF LoaderDone, Threads
  <1>2. th' \in [Threads -> ThreadState]
    BY <1>1, RestingType DEF IInv
  <1>3. ASSUME NEW t \in Threads PROVE ThreadInv(t)'
    <2>1. CASE t = Loader
      BY <1>1, <2>1, RestingType DEF IInv, ThreadInv, Busy
    <2>2. CASE t # Loader
      <3>1. th'[t] = th[t] /\ UNCHANGED variant
        BY <1>1, <2>2 DEF IInv, LoaderDone
      <3>. QED
        BY <2>2, <3>1 DEF IInv, ThreadInv
    <2>. QED
      BY <2>1, <2>2
  <1>4. /\ module' \in {"live", "absent"}
        /\ UNCHANGED <<variant, lcd_buffer, panel, steady, overlaps>>
        /\ fit' \subseteq Threads
    BY DEF LoaderDone, IInv
  <1>5. \/ UNCHANGED <<rs, data, e>>
        \/ rs' = 0 /\ data' = {} /\ e' = 0
    BY DEF LoaderDone
  <1>6. LineInv'
    <2>1. CASE e' = e
      BY <1>1, <2>1, LineStays DEF IInv
    <2>2. CASE e' = 0
      BY <2>2 DEF LineInv
    <2>. QED
      BY <1>5, <2>1, <2>2
  <1>7. rs' \in {0, 1} /\ data' \in Byte /\ e' \in {0, 1}
    BY <1>5 DEF IInv, Byte
  <1>. QED
    BY <1>2, <1>3, <1>4, <1>6, <1>7 DEF IInv
-----------------------------------------------------------------------------
(* The theorems.                                                           *)

LEMMA NextInv == IInv /\ [Next]_vars => IInv'
  <1>. SUFFICES ASSUME IInv, [Next]_vars PROVE IInv'
    OBVIOUS
  <1>1. CASE Load
    BY <1>1, LoadInv
  <1>2. CASE Unload
    BY <1>2, UnloadInv
  <1>6. CASE DriveLine
    BY <1>6, DriveInv
  <1>3. ASSUME NEW w \in Writers, NEW text \in Texts, Write(w, text) PROVE IInv'
    BY <1>3, WriteInv
  <1>4. ASSUME NEW t \in Threads, Step(t) PROVE IInv'
    BY <1>4, SelectInv, LineInvStep, HighInv, LowInv, WriteDoneInv, LoaderDoneInv
       DEF Step
  <1>5. CASE UNCHANGED vars
    BY <1>5 DEF vars, IInv, ThreadInv, LineInv, Busy
  <1>. QED
    BY <1>1, <1>2, <1>3, <1>4, <1>5, <1>6 DEF Next

LEMMA Invariance == Spec => []IInv
  BY InitInv, NextInv, PTL DEF Spec

\* Every variable keeps its type: no job outgrows the buffer, no thread loses
\* count of its calls, and no sequence of pulses takes the display apart.
THEOREM TypeCorrect == Spec => []TypeOK
  <1>1. IInv => TypeOK
    BY DEF IInv, TypeOK, ThreadInv, ThreadState, StepNames, PanelState, PanelRecord
  <1>. QED
    BY <1>1, Invariance, PTL

\* Whenever no job runs the enable line is low, however the jobs before have
\* interleaved: the next job makes an edge for every byte.
THEOREM EnableRests == Spec => []EnableParksLow
  <1>1. IInv => EnableParksLow
    BY DEF IInv, LineInv, EnableParksLow, Busy
  <1>. QED
    BY <1>1, Invariance, PTL
-----------------------------------------------------------------------------
(* A job that fits: it runs alone, on a display that is in step with eight *)
(* lines.                                                                  *)

\* No function set of the driver's ModuleInit asks for four lines.
KeepsWidth(c) == c.rs = 0 /\ c.byte \cap {5, 6, 7} = {5} => 4 \in c.byte

EightWires ==
    \A v \in Variants : v.wires = 8 /\ \A k \in 1..Len(v.init) : KeepsWidth(v.init[k])

Settled(t) == t \in fit

\* The calls of ModuleInit may write anything; the other jobs clear and type.
Installing(t) == t = Loader /\ module = "loading"

\* How many calls have reached the display, and how many of them are text.
Done(t) == IF th[t].step \in {"drive", "call"} THEN th[t].next - 1
           ELSE th[t].next - 2
Typed(t) == IF t = Loader THEN 0 ELSE Done(t) - 1

\* The first n characters of the buffer.
Opening(s, n) == /\ s \in Seq(Byte) /\ Len(s) = n
                 /\ \A i \in 1..n : s[i] = lcd_buffer[i]

\* The lines carry the call at hand, as far as it has been put on them.
OnTheLines(t) ==
    LET c == JobCall(t, th[t].next - 1)
    IN  /\ th[t].step \in {"line", "high", "low"} =>
             th[t].next >= 2 /\ th[t].send = <<c.byte>> /\ rs = c.rs
        /\ th[t].step = "line" =>
             \A j \in 0..7 : j < th[t].line => (j \in data <=> j \in c.byte)
        /\ th[t].step \in {"high", "low"} => data = c.byte
        /\ th[t].step = "low" => e = 1

SettledInv(t) ==
    /\ Busy(t) /\ OthersIdle(t)
    /\ panel.width = 8 /\ panel.half = <<>>
    /\ ~Installing(t) =>
         /\ th[t].calls >= 1
         /\ Done(t) >= 1 => panel.plain /\ Opening(panel.text, Typed(t))
    /\ OnTheLines(t)
    /\ t \in Writers => Opening(given, Len(given)) /\ Len(given) <= th[t].calls - 1

FitInv == \A t \in Threads : Settled(t) => SettledInv(t)

\* The bits of 0x1 make it the instruction that clears.
LEMMA ClearClears ==
    ASSUME NEW p
    PROVE  Instruction(p, {0}) = Cleared(p)
  <1>1. /\ {0} \cap {6, 7} = {} /\ {0} \cap {5, 6, 7} # {5}
        /\ {0} \cap (4..7) # {4} /\ {0} \cap (3..7) # {3}
        /\ {0} \cap (2..7) # {2} /\ {0} \cap (1..7) # {1}
    BY SMT
  <1>. QED
    BY <1>1 DEF Instruction

\* What a settled job sends when it is not ModuleInit's.
LEMMA SettledCalls ==
    ASSUME NEW t \in Threads, ~Installing(t), NEW k
    PROVE  JobCall(t, k) = IF t = Loader \/ k = 1 THEN Clear
                           ELSE [rs |-> 1, byte |-> lcd_buffer[k - 1]]
  BY DEF Installing, JobCall

\* While a job is settled nobody else takes a step.
LEMMA OneSettled ==
    ASSUME FitInv, NEW t \in Threads, Busy(t), NEW u \in Threads, Settled(u)
    PROVE  u = t
  BY DEF FitInv, SettledInv, OthersIdle

LEMMA FitInit == Init => FitInv
  BY DEF Init, FitInv, Settled

\* A job that starts.
LEMMA StartSettled ==
    ASSUME IInv, NEW t \in Threads, NEW s \in ThreadState,
           s.step \in {"drive", "call"}, s.next = 1,
           Installing(t)' \/ s.calls >= 1,
           th' = [th EXCEPT ![t] = s], panel' = panel,
           OthersIdle(t), panel.width = 8, panel.half = <<>>,
           t \in Writers => Opening(given, Len(given))' /\ Len(given') <= s.calls - 1
    PROVE  SettledInv(t)'
  <1>1. th'[t] = s /\ \A u \in Threads \ {t} : th'[u] = th[u]
    BY DEF IInv
  <1>2. Busy(t)' /\ OthersIdle(t)'
    BY <1>1 DEF Busy, OthersIdle
  <1>3. Done(t)' = 0
    BY <1>1 DEF Done
  <1>4. OnTheLines(t)'
    BY <1>1 DEF OnTheLines
  <1>. QED
    BY <1>1, <1>2, <1>3, <1>4 DEF SettledInv

\* With eight lines a display in step has an interface of eight bits.
LEMMA StepMeansEight ==
    ASSUME IInv, EightWires, InStep
    PROVE  panel.width = 8 /\ panel.half = <<>>
  BY DEF IInv, EightWires, InStep

LEMMA LoadFit ==
    ASSUME IInv, EightWires, Load
    PROVE  FitInv'
  <1>. SUFFICES ASSUME NEW t \in Threads, Settled(t)' PROVE SettledInv(t)'
    BY DEF FitInv
  <1>. DEFINE s == [Starting(Len(variant.init)) EXCEPT !.step = "drive"]
  <1>1. /\ t = Loader /\ Alone(t) /\ panel' = panel /\ t \notin Writers
        /\ th' = [th EXCEPT ![t] = s] /\ Installing(t)'
    BY LcdAssumption DEF Load, Settled, Installing
  <1>2. Len(variant.init) \in Nat
    BY LcdAssumption DEF IInv, Variant
  <1>3. s \in ThreadState /\ s.step = "drive" /\ s.next = 1
    BY <1>2, DrivingType
  <1>. HIDE DEF s
  <1>. QED
    BY <1>1, <1>3, StepMeansEight, StartSettled DEF Alone

LEMMA UnloadFit ==
    ASSUME IInv, EightWires, Unload
    PROVE  FitInv'
  <1>. SUFFICES ASSUME NEW t \in Threads, Settled(t)' PROVE SettledInv(t)'
    BY DEF FitInv
  <1>1. /\ t = Loader /\ Alone(t) /\ panel' = panel /\ t \notin Writers
        /\ th' = [th EXCEPT ![t] = Starting(1)]
    BY LcdAssumption DEF Unload, Settled
  <1>2. /\ Starting(1) \in ThreadState /\ Starting(1).step = "call"
        /\ Starting(1).next = 1 /\ Starting(1).calls >= 1
    BY StartingType
  <1>. QED
    BY <1>1, <1>2, StepMeansEight, StartSettled DEF Alone

LEMMA WriteFit ==
    ASSUME IInv, EightWires, NEW w \in Writers, NEW text \in Texts, Write(w, text)
    PROVE  FitInv'
  <1>. SUFFICES ASSUME NEW t \in Threads, Settled(t)' PROVE SettledInv(t)'
    BY DEF FitInv
  <1>. DEFINE to_copy == Min2(Len(text), BufferSize)
  <1>1. t = w /\ Alone(t) /\ panel' = panel /\ w \in fit'
    BY DEF Write, Settled
  <1>2. /\ text \in Seq(Byte) /\ BufferSize \in Nat
        /\ to_copy \in Nat /\ to_copy <= Len(text) /\ to_copy <= BufferSize
    BY LcdAssumption, CellsAssumption DEF Min2
  <1>3. th' = [th EXCEPT ![t] = Starting(to_copy + 1)]
    BY <1>1 DEF Write
  <1>4. PICK copied \in 0..to_copy :
          /\ lcd_buffer' = [k \in 1..BufferSize |->
                              IF k <= copied THEN text[k]
                              ELSE IF k <= to_copy THEN {} ELSE lcd_buffer[k]]
          /\ given' = IF w \in fit' THEN SubSeq(text, 1, copied) ELSE <<>>
    BY DEF Write
  <1>. HIDE DEF to_copy
  <1>5. Opening(given, Len(given))' /\ Len(given') = copied
    <2>1. given' = SubSeq(text, 1, copied)
      BY <1>1, <1>4
    <2>2. \A i \in 1..copied : lcd_buffer'[i] = text[i]
      BY <1>2, <1>4
    <2>3. /\ SubSeq(text, 1, copied) \in Seq(Byte)
          /\ Len(SubSeq(text, 1, copied)) = copied
          /\ \A i \in 1..copied : SubSeq(text, 1, copied)[i] = text[i]
      BY <1>2
    <2>. QED
      BY <2>1, <2>2, <2>3 DEF Opening
  <1>6. /\ Starting(to_copy + 1) \in ThreadState
        /\ Starting(to_copy + 1).step = "call" /\ Starting(to_copy + 1).next = 1
        /\ Starting(to_copy + 1).calls = to_copy + 1
    BY <1>2, StartingType
  <1>7. Starting(to_copy + 1).calls >= 1 /\ Len(given') <= Starting(to_copy + 1).calls - 1
    BY <1>2, <1>5, <1>6
  <1>. QED
    BY <1>1, <1>3, <1>5, <1>6, <1>7, StepMeansEight, StartSettled DEF Alone

\* What a step of thread t has to show when its job is settled.
LEMMA StepFit ==
    ASSUME IInv, FitInv, NEW t \in Threads, Busy(t), NEW s \in ThreadState,
           th' = [th EXCEPT ![t] = s],
           UNCHANGED <<module, fit>>,
           SettledInv(t) => SettledInv(t)'
    PROVE  FitInv'
  <1>. SUFFICES ASSUME NEW u \in Threads, Settled(u)' PROVE SettledInv(u)'
    BY DEF FitInv
  <1>1. Settled(u)
    BY DEF Settled
  <1>2. u = t
    BY <1>1, OneSettled
  <1>. QED
    BY <1>1, <1>2 DEF FitInv

\* The others keep still, and the calls and the text are those of before.
LEMMA StepKeeps ==
    ASSUME IInv, NEW t \in Threads, SettledInv(t), NEW s \in ThreadState,
           th' = [th EXCEPT ![t] = s], s.step # "idle", s.calls = th[t].calls,
           UNCHANGED <<variant, module, lcd_buffer, given>>
    PROVE  /\ th'[t] = s /\ Busy(t)' /\ OthersIdle(t)'
           /\ Installing(t)' = Installing(t)
           /\ ~Installing(t) => th'[t].calls >= 1
           /\ \A q, n : Opening(q, n)' = Opening(q, n)
           /\ t \in Writers =>
                Opening(given, Len(given))' /\ Len(given') <= th'[t].calls - 1
  <1>1. th'[t] = s /\ \A u \in Threads \ {t} : th'[u] = th[u]
    BY DEF IInv
  <1>2. Busy(t)' /\ OthersIdle(t)' /\ Installing(t)' = Installing(t)
    BY <1>1 DEF Busy, OthersIdle, SettledInv, Installing
  <1>3. ~Installing(t) => th'[t].calls >= 1
    BY <1>1 DEF SettledInv
  <1>4. \A q, n : Opening(q, n)' = Opening(q, n)
    BY DEF Opening
  <1>5. t \in Writers =>
          Opening(given, Len(given))' /\ Len(given') <= th'[t].calls - 1
    BY <1>1 DEF SettledInv, Opening
  <1>. QED
    BY <1>1, <1>2, <1>3, <1>4, <1>5

\* Only the call at hand reaches the lines.
LEMMA SelectFit ==
    ASSUME IInv, FitInv, EightWires, NEW t \in Threads, SelectRegister(t)
    PROVE  FitInv'
  <1>. DEFINE c == JobCall(t, th[t].next)
              s == [th[t] EXCEPT !.next = @ + 1, !.step = "line",
                                 !.line = FirstLine, !.send = Patterns(c)]
  <1>1. th[t] \in ThreadState /\ ThreadInv(t) /\ Busy(t)
    BY DEF IInv, SelectRegister, Busy
  <1>2. /\ th' = [th EXCEPT ![t] = s]
        /\ rs' = c.rs
        /\ th[t].step = "call" /\ th[t].next <= th[t].calls
        /\ UNCHANGED <<variant, module, lcd_buffer, data, e, panel, given, fit,
                       steady, overlaps>>
    BY DEF SelectRegister, IInv
  <1>3. th[t].next \in 1..th[t].calls
    BY <1>1, <1>2 DEF ThreadState
  <1>4. c \in Call
    BY <1>1, <1>3, JobCallType
  <1>5. Patterns(c) \in Seq(Byte)
    BY <1>4, PatternsType
  <1>6. s \in ThreadState
    BY <1>1, <1>5, Moves
  <1>7. variant.wires = 8
    BY DEF IInv, EightWires
  <1>8. Patterns(c) = <<c.byte>> /\ FirstLine = 0
    BY <1>7 DEF Patterns, FirstLine
  <1>9. /\ s.step = "line" /\ s.next = th[t].next + 1 /\ s.calls = th[t].calls
        /\ s.send = <<c.byte>> /\ s.line = 0
    BY <1>1, <1>8 DEF ThreadState
  <1>10. SUFFICES ASSUME Settled(t), SettledInv(t) PROVE SettledInv(t)'
    <2>1. CASE Settled(t)
      BY <1>10, <2>1, <1>1, <1>2, <1>6, StepFit DEF FitInv
    <2>2. CASE ~Settled(t)
      <3>1. \A u \in Threads : ~Settled(u)'
        BY <1>1, <1>2, <2>2, OneSettled DEF Settled
      <3>. QED
        BY <3>1 DEF FitInv
    <2>. QED
      BY <2>1, <2>2
  <1>11. c = JobCall(t, th[t].next)
    OBVIOUS
  <1>. HIDE DEF c, s
  <1>12. /\ th'[t] = s /\ Busy(t)' /\ OthersIdle(t)'
         /\ Installing(t)' = Installing(t)
         /\ ~Installing(t) => th'[t].calls >= 1
         /\ \A q, n : Opening(q, n)' = Opening(q, n)
         /\ t \in Writers =>
              Opening(given, Len(given))' /\ Len(given') <= th'[t].calls - 1
    BY <1>2, <1>6, <1>9, <1>10, StepKeeps
  <1>13. Done(t)' = Done(t) /\ Typed(t)' = Typed(t)
    BY <1>1, <1>2, <1>9, <1>12 DEF Done, Typed, ThreadState
  <1>14. OnTheLines(t)'
    <2>1. th'[t].next - 1 = th[t].next /\ th'[t].next >= 2
      BY <1>1, <1>9, <1>12 DEF ThreadState
    <2>2. JobCall(t, th[t].next - 1)' = c
      <3>1. variant' = variant /\ module' = module /\ lcd_buffer' = lcd_buffer
        BY <1>2
      <3>2. CASE t = Loader
        BY <1>11, <2>1, <3>1, <3>2 DEF JobCall
      <3>3. CASE t # Loader
        BY <1>11, <2>1, <3>1, <3>3 DEF JobCall
      <3>. QED
        BY <3>2, <3>3
    <2>. QED
      BY <1>2, <1>9, <1>11, <1>12, <2>1, <2>2 DEF OnTheLines
  <1>. QED
    BY <1>2, <1>9, <1>10, <1>12, <1>13, <1>14 DEF SettledInv

\* The call at hand is still the one at hand.
LEMMA SameCall ==
    ASSUME IInv, NEW t \in Threads, UNCHANGED <<variant, module, lcd_buffer>>,
           th'[t].next = th[t].next
    PROVE  JobCall(t, th[t].next - 1)' = JobCall(t, th[t].next - 1)
  BY DEF JobCall

LEMMA SetLineFit ==
    ASSUME IInv, FitInv, NEW t \in Threads, SetLine(t)
    PROVE  FitInv'
  <1>. DEFINE s == IF th[t].line = 7 THEN [th[t] EXCEPT !.step = "high", !.line = 0]
                   ELSE [th[t] EXCEPT !.line = th[t].line + 1]
              c == JobCall(t, th[t].next - 1)
  <1>1. th[t] \in ThreadState /\ ThreadInv(t) /\ Busy(t) /\ th[t].step = "line"
    BY DEF IInv, SetLine, Busy
  <1>2. /\ th' = [th EXCEPT ![t] = s]
        /\ UNCHANGED <<variant, module, lcd_buffer, rs, e, panel, given, fit,
                       steady, overlaps>>
        /\ data' = IF th[t].line \in Head(th[t].send) THEN data \cup {th[t].line}
                   ELSE data \ {th[t].line}
    BY DEF SetLine, IInv
  <1>3. s \in ThreadState
    <2>1. CASE th[t].line = 7
      <3>1. 0 \in 0..7
        OBVIOUS
      <3>2. [th[t] EXCEPT !.step = "high", !.line = 0] \in ThreadState
        BY <1>1, <3>1, Moves
      <3>. QED
        BY <2>1, <3>2
    <2>2. CASE th[t].line # 7
      <3>1. th[t].line + 1 \in 0..7
        BY <1>1, <2>2 DEF ThreadInv
      <3>. QED
        BY <1>1, <2>2, <3>1, Moves
    <2>. QED
      BY <2>1, <2>2
  <1>4. /\ s.next = th[t].next /\ s.calls = th[t].calls /\ s.send = th[t].send
        /\ s.step = IF th[t].line = 7 THEN "high" ELSE "line"
        /\ s.line = IF th[t].line = 7 THEN 0 ELSE th[t].line + 1
        /\ th[t].line \in 0..7 /\ th[t].next \in Nat /\ th[t].calls \in Nat
    BY <1>1 DEF ThreadState, ThreadInv
  <1>. HIDE DEF s
  <1>5. SUFFICES ASSUME SettledInv(t) PROVE SettledInv(t)'
    BY <1>1, <1>2, <1>3, <1>5, StepFit
  <1>6. /\ th'[t] = s /\ Busy(t)' /\ OthersIdle(t)'
        /\ Installing(t)' = Installing(t)
        /\ ~Installing(t) => th'[t].calls >= 1
        /\ \A q, n : Opening(q, n)' = Opening(q, n)
        /\ t \in Writers =>
             Opening(given, Len(given))' /\ Len(given') <= th'[t].calls - 1
    BY <1>2, <1>3, <1>4, <1>5, StepKeeps
  <1>7. Done(t)' = Done(t) /\ Typed(t)' = Typed(t)
    BY <1>1, <1>4, <1>6 DEF Done, Typed
  <1>8. /\ th[t].next >= 2 /\ th[t].send = <<c.byte>> /\ rs = c.rs
        /\ \A j \in 0..7 : j < th[t].line => (j \in data <=> j \in c.byte)
    BY <1>1, <1>5 DEF SettledInv, OnTheLines
  <1>9. JobCall(t, th[t].next - 1)' = c
    BY <1>2, <1>4, <1>6, SameCall
  <1>10. c.byte \in Byte /\ data \in Byte
    <2>1. th[t].next - 1 \in 1..th[t].calls
      BY <1>1, <1>4, <1>8 DEF ThreadInv
    <2>2. c \in Call
      BY <1>1, <2>1, JobCallType
    <2>. QED
      BY <2>2 DEF Call, IInv
  <1>. HIDE DEF c
  <1>11. \A j \in 0..7 : j <= th[t].line => (j \in data' <=> j \in c.byte)
    <2>1. Head(th[t].send) = c.byte
      BY <1>8
    <2>2. TAKE j \in 0..7
    <2>3. HAVE j <= th[t].line
    <2>4. CASE j = th[t].line
      BY <1>2, <2>1, <2>4
    <2>5. CASE j # th[t].line
      <3>1. j < th[t].line
        BY <1>4, <2>3, <2>5
      <3>. QED
        BY <1>2, <1>8, <2>5, <3>1
    <2>. QED
      BY <2>4, <2>5
  <1>12. th[t].line = 7 => data' = c.byte
    <2>. HAVE th[t].line = 7
    <2>1. \A j \in 0..7 : j \in data' <=> j \in c.byte
      BY <1>11
    <2>2. data' \subseteq 0..7 /\ c.byte \subseteq 0..7
      BY <1>2, <1>4, <1>10 DEF Byte
    <2>. QED
      BY <2>1, <2>2
  <1>13. OnTheLines(t)'
    <2>1. CASE th[t].line = 7
      BY <1>2, <1>4, <1>6, <1>8, <1>9, <1>12, <2>1 DEF OnTheLines
    <2>2. CASE th[t].line # 7
      <3>1. \A j \in 0..7 : j < th'[t].line => (j \in data' <=> j \in c.byte)
        BY <1>4, <1>6, <1>11, <2>2
      <3>. QED
        BY <1>2, <1>4, <1>6, <1>8, <1>9, <2>2, <3>1 DEF OnTheLines
    <2>. QED
      BY <2>1, <2>2
  <1>. QED
    BY <1>2, <1>4, <1>5, <1>6, <1>7, <1>13 DEF SettledInv

LEMMA HighFit ==
    ASSUME IInv, FitInv, NEW t \in Threads, EnableHigh(t)
    PROVE  FitInv'
  <1>. DEFINE s == [th[t] EXCEPT !.step = "low"]
  <1>1. th[t] \in ThreadState /\ Busy(t) /\ th[t].step = "high"
    BY DEF IInv, EnableHigh, Busy
  <1>2. /\ th' = [th EXCEPT ![t] = s]
        /\ e' = 1
        /\ UNCHANGED <<variant, module, lcd_buffer, rs, data, panel, given, fit,
                       steady, overlaps>>
    BY DEF EnableHigh, IInv
  <1>3. s \in ThreadState
    BY <1>1 DEF ThreadState, StepNames
  <1>4. /\ s.step = "low" /\ s.next = th[t].next
        /\ s.calls = th[t].calls /\ s.send = th[t].send
    BY <1>1 DEF ThreadState
  <1>. HIDE DEF s
  <1>5. SUFFICES ASSUME SettledInv(t) PROVE SettledInv(t)'
    BY <1>1, <1>2, <1>3, <1>5, StepFit
  <1>6. /\ th'[t] = s /\ Busy(t)' /\ OthersIdle(t)'
        /\ Installing(t)' = Installing(t)
        /\ ~Installing(t) => th'[t].calls >= 1
        /\ \A q, n : Opening(q, n)' = Opening(q, n)
        /\ t \in Writers =>
             Opening(given, Len(given))' /\ Len(given') <= th'[t].calls - 1
    BY <1>2, <1>3, <1>4, <1>5, StepKeeps
  <1>7. Done(t)' = Done(t) /\ Typed(t)' = Typed(t)
    BY <1>1, <1>4, <1>6 DEF Done, Typed
  <1>8. JobCall(t, th[t].next - 1)' = JobCall(t, th[t].next - 1)
    BY <1>2, <1>4, <1>6, SameCall
  <1>9. OnTheLines(t)'
    BY <1>1, <1>2, <1>4, <1>5, <1>6, <1>8 DEF OnTheLines, SettledInv
  <1>. QED
    BY <1>2, <1>4, <1>5, <1>6, <1>7, <1>9 DEF SettledInv

\* No call of a settled job takes the interface away.
LEMMA CallKeepsWidth ==
    ASSUME IInv, EightWires, NEW t \in Threads, Busy(t),
           panel.width = 8, panel.half = <<>>, NEW k \in 1..th[t].calls
    PROVE  LET c == JobCall(t, k)
               q == Received(panel, c.rs, c.byte)
           IN  q.width = 8 /\ q.half = <<>>
  <1>. DEFINE c == JobCall(t, k)
              q == Received(panel, c.rs, c.byte)
  <1>. SUFFICES q.width = 8 /\ q.half = <<>>
    OBVIOUS
  <1>1. panel \in PanelRecord
    BY DEF IInv, PanelState
  <1>2. KeepsWidth(c)
    <2>1. CASE Installing(t)
      <3>1. th[t].calls = Len(variant.init) /\ variant \in Variants
        BY <2>1 DEF IInv, ThreadInv, Installing
      <3>2. c = variant.init[k]
        BY <2>1 DEF JobCall, Installing
      <3>. QED
        BY <3>1, <3>2 DEF EightWires
    <2>2. CASE ~Installing(t)
      <3>1. c = Clear \/ c.rs = 1
        BY <2>2, SettledCalls
      <3>2. {0} \cap {5, 6, 7} # {5}
        OBVIOUS
      <3>3. CASE c = Clear
        <4>1. c.byte = {0}
          BY <3>3 DEF Clear
        <4>. QED
          BY <3>2, <4>1 DEF KeepsWidth
      <3>4. CASE c.rs = 1
        BY <3>4 DEF KeepsWidth
      <3>. HIDE DEF c
      <3>. QED
        BY <3>1, <3>3, <3>4
    <2>. QED
      BY <2>1, <2>2
  <1>3. c.rs \in {0, 1} /\ c.byte \in Byte
    <2>1. c \in Call
      BY JobCallType
    <2>. QED
      BY <2>1 DEF Call
  <1>. HIDE DEF c
  <1>4. /\ Cleared(panel).width = 8 /\ Cleared(panel).half = <<>>
        /\ Scrambled(panel).width = 8 /\ Scrambled(panel).half = <<>>
        /\ \A b : [panel EXCEPT !.on = b].width = 8 /\ [panel EXCEPT !.on = b].half = <<>>
        /\ \A b : [panel EXCEPT !.text = b].width = 8 /\ [panel EXCEPT !.text = b].half = <<>>
        /\ [panel EXCEPT !.width = 8, !.half = <<>>].width = 8
        /\ [panel EXCEPT !.width = 8, !.half = <<>>].half = <<>>
    BY <1>1 DEF Cleared, Scrambled, PanelRecord
  <1>5. CASE c.rs = 1
    BY <1>4, <1>5 DEF Received, Character
  <1>6. CASE c.rs = 0
    <2>1. q = Instruction(panel, c.byte)
      BY <1>6 DEF Received
    <2>. HIDE DEF q
    <2>2. CASE c.byte \cap {6, 7} # {}
      BY <1>4, <2>1, <2>2 DEF Instruction
    <2>3. CASE c.byte \cap {6, 7} = {} /\ c.byte \cap {5, 6, 7} = {5}
      <3>1. 4 \in c.byte
        BY <1>2, <1>6, <2>3 DEF KeepsWidth
      <3>2. q = [panel EXCEPT !.width = 8, !.half = <<>>]
        <4>1. /\ c.byte \cap (4..7) # {4} /\ c.byte \cap (3..7) # {3}
              /\ c.byte \cap (2..7) # {2} /\ c.byte \cap (1..7) # {1}
              /\ c.byte # {0} /\ c.byte # {}
          <5>1. 5 \in c.byte /\ \A j \in 1..4 : 5 \in j..7
            BY <2>3
          <5>. QED
            BY <5>1
        <4>. QED
          BY <2>1, <2>3, <3>1, <4>1 DEF Instruction
      <3>. QED
        BY <1>4, <3>2
    <2>4. CASE c.byte \cap {6, 7} = {} /\ c.byte \cap {5, 6, 7} # {5}
      BY <1>3, <1>4, <2>1, <2>4, HighestBit DEF Instruction
    <2>. QED
      BY <2>2, <2>3, <2>4
  <1>. QED
    BY <1>3, <1>5, <1>6

\* What a call does to the display when ModuleInit is done: the first one of a
\* job clears it, each of the others adds its character.
LEMMA CallArrives ==
    ASSUME IInv, NEW t \in Threads, SettledInv(t), th[t].step = "low",
           ~Installing(t), t = Loader => th[t].calls = 1
    PROVE  LET k == th[t].next - 1
               c == JobCall(t, k)
               q == Received(panel, c.rs, c.byte)
           IN  /\ q.plain
               /\ Opening(q.text, IF t = Loader THEN 0 ELSE k - 1)
  <1>. DEFINE k == th[t].next - 1
              c == JobCall(t, k)
              q == Received(panel, c.rs, c.byte)
  <1>. SUFFICES /\ q.plain
                /\ Opening(q.text, IF t = Loader THEN 0 ELSE k - 1)
    OBVIOUS
  <1>1. panel \in PanelRecord /\ panel.text \in Seq(Byte)
    BY DEF IInv, PanelState, PanelRecord
  <1>2. /\ th[t] \in ThreadState /\ ThreadInv(t)
        /\ th[t].next >= 2 /\ th[t].next \in Nat /\ th[t].calls \in Nat
        /\ Done(t) = k - 1
    BY DEF IInv, SettledInv, OnTheLines, ThreadState, Done
  <1>3. k \in 1..th[t].calls
    <2>1. th[t].next <= th[t].calls + 1
      BY <1>2 DEF ThreadInv
    <2>. QED
      BY <1>2, <2>1
  <1>4. CASE t = Loader \/ k = 1
    <2>1. c.rs = 0 /\ c.byte = {0}
      BY <1>4, SettledCalls DEF Clear
    <2>2. q = Cleared(panel)
      BY <2>1, ClearClears DEF Received
    <2>3. q.plain /\ q.text = <<>>
      BY <1>1, <2>2 DEF Cleared, PanelRecord
    <2>4. (IF t = Loader THEN 0 ELSE k - 1) = 0
      BY <1>4
    <2>5. Opening(<<>>, 0)
      BY DEF Opening
    <2>. HIDE DEF q, k
    <2>. QED
      BY <2>3, <2>4, <2>5
  <1>5. CASE t \in Writers /\ k # 1
    <2>1. t # Loader
      BY <1>5, LcdAssumption
    <2>2. c.rs = 1 /\ c.byte = lcd_buffer[k - 1]
      <3>1. c = [rs |-> 1, byte |-> lcd_buffer[k - 1]]
        BY <1>5, <2>1, SettledCalls
      <3>. HIDE DEF c, k
      <3>. QED
        BY <3>1
    <2>3. k - 1 \in 1..BufferSize /\ k - 2 < Cells /\ BufferSize \in Nat /\ Cells \in Nat
      <3>1. /\ th[t].calls <= BufferSize + 1 /\ th[t].calls \in Nat
            /\ Cells \in Nat /\ BufferSize \in 1..Cells
        BY <1>2, <1>5, LcdAssumption, CellsAssumption DEF ThreadInv
      <3>. HIDE DEF k
      <3>. QED
        BY <1>3, <1>5, <3>1
    <2>4. c.byte \in Byte
      BY <2>2, <2>3 DEF IInv
    <2>5. panel.plain /\ Opening(panel.text, k - 2)
      <3>1. Done(t) >= 1 /\ Typed(t) = k - 2
        BY <1>2, <1>3, <1>5, <2>1 DEF Typed
      <3>. QED
        BY <3>1 DEF SettledInv
    <2>6. q = [panel EXCEPT !.text = Append(@, c.byte)]
      BY <2>2, <2>3, <2>5 DEF Received, Character, Opening
    <2>. HIDE DEF c
    <2>7. q.plain /\ q.text = Append(panel.text, c.byte)
      BY <1>1, <2>5, <2>6 DEF PanelRecord
    <2>8. Opening(Append(panel.text, c.byte), k - 1)
      <3>1. /\ Append(panel.text, c.byte) \in Seq(Byte)
            /\ Len(Append(panel.text, c.byte)) = k - 1
        BY <1>1, <1>3, <2>4, <2>5 DEF Opening
      <3>2. ASSUME NEW i \in 1..(k - 1)
            PROVE  Append(panel.text, c.byte)[i] = lcd_buffer[i]
        <4>1. CASE i = k - 1
          BY <1>1, <1>3, <2>2, <2>5, <4>1 DEF Opening
        <4>2. CASE i # k - 1
          <5>1. i \in 1..(k - 2) /\ Len(panel.text) = k - 2
            BY <1>3, <2>5, <4>2 DEF Opening
          <5>. HIDE DEF k
          <5>2. Append(panel.text, c.byte)[i] = panel.text[i]
            BY <1>1, <5>1
          <5>. QED
            BY <2>5, <5>1, <5>2 DEF Opening
        <4>. QED
          BY <4>1, <4>2
      <3>. QED
        BY <3>1, <3>2 DEF Opening
    <2>. HIDE DEF q, k
    <2>. QED
      BY <2>1, <2>7, <2>8
  <1>. QED
    BY <1>4, <1>5 DEF Threads

\* The pulse of a settled job sends the call at hand to the display.
LEMMA CallLatched ==
    ASSUME IInv, NEW t \in Threads, SettledInv(t), EnableLow(t)
    PROVE  LET c == JobCall(t, th[t].next - 1)
           IN  /\ panel' = Received(panel, c.rs, c.byte)
               /\ Tail(th[t].send) = <<>>
               /\ th[t].next - 1 \in 1..th[t].calls
  <1>. DEFINE c == JobCall(t, th[t].next - 1)
  <1>1. /\ th[t] \in ThreadState /\ ThreadInv(t) /\ th[t].step = "low"
        /\ Loader \in Threads
    BY DEF IInv, EnableLow, Threads
  <1>2. /\ th[t].send = <<c.byte>> /\ rs = c.rs /\ data = c.byte /\ e = 1
        /\ th[t].next >= 2
    BY <1>1 DEF SettledInv, OnTheLines
  <1>3. th[Loader].step # "drive"
    BY <1>1 DEF SettledInv, OthersIdle, Busy
  <1>4. panel' \in Latched(panel, c.rs, c.byte) /\ panel.width = 8
    BY <1>2, <1>3 DEF EnableLow, SettledInv
  <1>5. panel' = Received(panel, c.rs, c.byte)
    BY <1>4 DEF Latched
  <1>6. Tail(th[t].send) = <<>>
    BY <1>2
  <1>7. th[t].next - 1 \in 1..th[t].calls
    BY <1>1, <1>2 DEF ThreadInv, ThreadState
  <1>. QED
    BY <1>5, <1>6, <1>7

\* ModuleInit lowers its lines while no pulse is on its way.
LEMMA DriveKeeps ==
    ASSUME IInv, SettledInv(Loader), DriveLine
    PROVE  panel' = panel
  <1>1. \A t \in Threads : th[t].step # "low"
    BY DEF SettledInv, OthersIdle, Busy, DriveLine
  <1>2. e # 1
    BY <1>1 DEF IInv, LineInv
  <1>. QED
    BY <1>2 DEF DriveLine

LEMMA DriveFit ==
    ASSUME IInv, FitInv, DriveLine
    PROVE  FitInv'
  <1>. DEFINE k == th[Loader].line + 1
              s == IF k = Len(variant.lowers)
                   THEN [th[Loader] EXCEPT !.step = "call", !.line = 0]
                   ELSE [th[Loader] EXCEPT !.line = k]
  <1>1. /\ Loader \in Threads /\ th[Loader] \in ThreadState /\ ThreadInv(Loader)
        /\ th[Loader].step = "drive" /\ Busy(Loader) /\ Loader \notin Writers
    BY LcdAssumption DEF IInv, DriveLine, Threads, Busy
  <1>2. /\ th' = [th EXCEPT ![Loader] = s]
        /\ UNCHANGED <<variant, module, lcd_buffer, given, fit>>
    BY DEF DriveLine, IInv
  <1>3. s \in ThreadState
    <2>1. k \in Nat
      BY <1>1 DEF ThreadState
    <2>2. [th[Loader] EXCEPT !.line = k] \in ThreadState
      BY <1>1, <2>1 DEF ThreadState
    <2>3. [th[Loader] EXCEPT !.step = "call", !.line = 0] \in ThreadState
      BY <1>1 DEF ThreadState, StepNames
    <2>. QED
      BY <2>2, <2>3
  <1>4. s.calls = th[Loader].calls /\ s.step \in {"call", "drive"}
    BY <1>1 DEF ThreadState
  <1>. HIDE DEF s
  <1>5. SUFFICES ASSUME SettledInv(Loader) PROVE SettledInv(Loader)'
    BY <1>1, <1>2, <1>3, <1>5, StepFit
  <1>6. /\ th'[Loader] = s /\ Busy(Loader)' /\ OthersIdle(Loader)'
        /\ Installing(Loader)'
    BY <1>1, <1>2, <1>3, <1>4, <1>5, StepKeeps DEF Installing, ThreadInv
  <1>7. OnTheLines(Loader)'
    BY <1>4, <1>6 DEF OnTheLines
  <1>. QED
    BY <1>1, <1>5, <1>6, <1>7, DriveKeeps DEF SettledInv

LEMMA LowFit ==
    ASSUME IInv, FitInv, EightWires, NEW t \in Threads, EnableLow(t)
    PROVE  FitInv'
  <1>. DEFINE tail == Tail(th[t].send)
              s == IF tail = <<>> THEN [th[t] EXCEPT !.step = "call", !.send = <<>>]
                   ELSE [th[t] EXCEPT !.step = "line", !.line = FirstLine,
                                      !.send = tail]
              c == JobCall(t, th[t].next - 1)
  <1>1. th[t] \in ThreadState /\ ThreadInv(t) /\ Busy(t) /\ th[t].step = "low"
    BY DEF IInv, EnableLow, Busy
  <1>2. tail \in Seq(Byte) /\ <<>> \in Seq(Byte)
    BY <1>1 DEF ThreadState, ThreadInv
  <1>3. /\ th' = [th EXCEPT ![t] = s]
        /\ UNCHANGED <<variant, module, lcd_buffer, rs, data, given, fit,
                       steady, overlaps>>
    BY DEF EnableLow, IInv
  <1>. HIDE DEF tail
  <1>4. s \in ThreadState
    BY <1>1, <1>2, Moves
  <1>5. /\ s.next = th[t].next /\ s.calls = th[t].calls
        /\ s.step = IF tail = <<>> THEN "call" ELSE "line"
        /\ th[t].next \in Nat /\ th[t].calls \in Nat
    BY <1>1 DEF ThreadState
  <1>. HIDE DEF s
  <1>6. SUFFICES ASSUME Settled(t), SettledInv(t) PROVE SettledInv(t)'
    <2>1. CASE Settled(t)
      BY <1>6, <2>1, <1>1, <1>3, <1>4, StepFit DEF FitInv
    <2>2. CASE ~Settled(t)
      <3>1. \A u \in Threads : ~Settled(u)'
        BY <1>1, <1>3, <2>2, OneSettled DEF Settled
      <3>. QED
        BY <3>1 DEF FitInv
    <2>. QED
      BY <2>1, <2>2
  <1>7. /\ panel' = Received(panel, c.rs, c.byte) /\ tail = <<>>
        /\ th[t].next - 1 \in 1..th[t].calls
    BY <1>6, CallLatched DEF tail
  <1>8. s.step = "call"
    BY <1>5, <1>7
  <1>9. /\ th'[t] = s /\ Busy(t)' /\ OthersIdle(t)'
        /\ Installing(t)' = Installing(t)
        /\ ~Installing(t) => th'[t].calls >= 1
        /\ \A q, n : Opening(q, n)' = Opening(q, n)
        /\ t \in Writers =>
             Opening(given, Len(given))' /\ Len(given') <= th'[t].calls - 1
    BY <1>3, <1>4, <1>5, <1>6, <1>8, StepKeeps
  <1>10. panel'.width = 8 /\ panel'.half = <<>>
    BY <1>1, <1>6, <1>7, CallKeepsWidth DEF SettledInv
  <1>11. ASSUME ~Installing(t)
         PROVE  panel'.plain /\ Opening(panel.text, Typed(t))'
    <2>1. t = Loader => th[t].calls = 1
      BY <1>1, <1>11 DEF ThreadInv, Installing
    <2>2. /\ panel'.plain
          /\ Opening(panel'.text, IF t = Loader THEN 0 ELSE th[t].next - 1 - 1)
      BY <1>1, <1>6, <1>7, <1>11, <2>1, CallArrives
    <2>3. Typed(t)' = IF t = Loader THEN 0 ELSE th[t].next - 1 - 1
      BY <1>5, <1>8, <1>9 DEF Typed, Done
    <2>. QED
      BY <1>3, <2>2, <2>3 DEF Opening
  <1>12. OnTheLines(t)'
    BY <1>8, <1>9 DEF OnTheLines
  <1>. QED
    BY <1>5, <1>9, <1>10, <1>11, <1>12 DEF SettledInv

\* A job that returns is no longer one that fits.
LEMMA DoneFit ==
    ASSUME FitInv, NEW t \in Threads, Busy(t), fit' = fit \ {t}
    PROVE  FitInv'
  <1>1. SUFFICES ASSUME NEW u \in Threads, Settled(u)' PROVE FALSE
    BY DEF FitInv
  <1>2. u # t /\ Settled(u)
    BY <1>1 DEF Settled
  <1>. QED
    BY <1>2, OneSettled

LEMMA WriteDoneFit ==
    ASSUME IInv, FitInv, NEW w \in Writers, WriteDone(w)
    PROVE  FitInv'
  <1>1. w \in Threads /\ Busy(w) /\ fit' = fit \ {w}
    BY DEF WriteDone, Threads, Busy
  <1>. QED
    BY <1>1, DoneFit

LEMMA LoaderDoneFit ==
    ASSUME IInv, FitInv, LoaderDone
    PROVE  FitInv'
  <1>1. Loader \in Threads /\ Busy(Loader) /\ fit' = fit \ {Loader}
    BY DEF LoaderDone, Threads, Busy
  <1>. QED
    BY <1>1, DoneFit

LEMMA NextFit ==
    ASSUME EightWires, IInv, FitInv, [Next]_vars
    PROVE  FitInv'
  <1>1. CASE Load
    BY <1>1, LoadFit
  <1>2. CASE Unload
    BY <1>2, UnloadFit
  <1>6. CASE DriveLine
    BY <1>6, DriveFit
  <1>3. ASSUME NEW w \in Writers, NEW text \in Texts, Write(w, text) PROVE FitInv'
    BY <1>3, WriteFit
  <1>4. ASSUME NEW t \in Threads, Step(t) PROVE FitInv'
    BY <1>4, SelectFit, SetLineFit, HighFit, LowFit, WriteDoneFit, LoaderDoneFit
       DEF Step
  <1>5. CASE UNCHANGED vars
    BY <1>5 DEF vars, FitInv, Settled, SettledInv, OnTheLines, JobCall, Done, Typed,
                Opening, Busy, OthersIdle, Installing
  <1>. QED
    BY <1>1, <1>2, <1>3, <1>4, <1>5, <1>6 DEF Next

LEMMA Fitness == ASSUME EightWires PROVE Spec => [](IInv /\ FitInv)
  <1>1. Init => IInv /\ FitInv
    BY InitInv, FitInit
  <1>2. IInv /\ FitInv /\ [Next]_vars => (IInv /\ FitInv)'
    BY NextInv, NextFit
  <1>. QED
    BY <1>1, <1>2, PTL DEF Spec

\* A settled job that is about to return has made all its calls.
LEMMA AllArrived ==
    ASSUME IInv, FitInv, NEW t \in Threads, Settled(t), ~Installing(t),
           th[t].step = "call", th[t].next > th[t].calls
    PROVE  /\ panel.plain
           /\ Opening(panel.text, IF t = Loader THEN 0 ELSE th[t].calls - 1)
  <1>1. SettledInv(t) /\ ThreadInv(t) /\ th[t] \in ThreadState
    BY DEF FitInv, IInv
  <1>2. th[t].next = th[t].calls + 1 /\ th[t].calls >= 1 /\ th[t].calls \in Nat
    BY <1>1 DEF ThreadInv, ThreadState, SettledInv
  <1>3. Done(t) = th[t].calls
    BY <1>2 DEF Done
  <1>. QED
    BY <1>1, <1>2, <1>3 DEF SettledInv, Typed

\* Two openings of one length are one text.
LEMMA SameOpening ==
    ASSUME NEW n, NEW q, NEW r, Opening(q, n), Opening(r, n)
    PROVE  q = r
  <1>1. /\ q \in Seq(Byte) /\ r \in Seq(Byte) /\ Len(q) = Len(r)
        /\ \A i \in 1..Len(q) : q[i] = r[i]
    BY DEF Opening
  <1>. QED
    BY <1>1, SeqEqual

\* An opening starts with every shorter one.
LEMMA ShorterOpening ==
    ASSUME NEW n \in Nat, NEW m \in 0..n, NEW q, NEW r, Opening(q, n), Opening(r, m)
    PROVE  SubSeq(q, 1, m) = r
  <1>1. q \in Seq(Byte) /\ Len(q) = n /\ \A i \in 1..n : q[i] = lcd_buffer[i]
    BY DEF Opening
  <1>2. /\ SubSeq(q, 1, m) \in Seq(Byte) /\ Len(SubSeq(q, 1, m)) = m
        /\ \A i \in 1..m : SubSeq(q, 1, m)[i] = q[i]
    BY <1>1
  <1>3. Opening(SubSeq(q, 1, m), m)
    BY <1>1, <1>2 DEF Opening
  <1>. QED
    BY <1>3, SameOpening

\* Only the end of its job makes a thread idle.
LEMMA OnlyReturnsIdle ==
    ASSUME IInv, [Next]_vars, NEW w \in Writers, Busy(w), ~Busy(w)'
    PROVE  WriteDone(w)
  <1>1. w \in Threads /\ w # Loader /\ Loader \in Threads
    BY LcdAssumption DEF Threads
  <1>2. ASSUME NEW n \in Nat, NEW u \in Threads, th' = [th EXCEPT ![u] = Starting(n)]
        PROVE  FALSE
    <2>1. th'[u].step = "call" /\ (w # u => th'[w] = th[w])
      BY <1>1, <1>2, StartingType DEF IInv
    <2>. QED
      BY <2>1 DEF Busy
  <1>3. ~Load /\ ~DriveLine /\ ~LoaderDone
    <2>1. \A s : th' = [th EXCEPT ![Loader] = s] => th'[w] = th[w]
      BY <1>1 DEF IInv
    <2>2. th'[w] # th[w]
      BY DEF Busy
    <2>3. ~Load
      BY <2>1, <2>2 DEF Load
    <2>4. ~DriveLine
      <3>. SUFFICES ASSUME DriveLine PROVE FALSE
        OBVIOUS
      <3>1. th'[w] = th[w]
        BY <1>1 DEF DriveLine, IInv
      <3>. QED
        BY <2>2, <3>1
    <2>5. ~LoaderDone
      BY <2>1, <2>2 DEF LoaderDone
    <2>. QED
      BY <2>3, <2>4, <2>5
  <1>4. ~Unload
    BY <1>1, <1>2 DEF Unload
  <1>5. ASSUME NEW v \in Writers, NEW text \in Texts, Write(v, text) PROVE FALSE
    <2>1. Min2(Len(text), BufferSize) + 1 \in Nat /\ v \in Threads
      BY LcdAssumption, CellsAssumption DEF Min2, Threads
    <2>. QED
      BY <1>2, <1>5, <2>1 DEF Write
  <1>6. ASSUME NEW t \in Threads, SelectRegister(t) \/ SetLine(t) \/ EnableHigh(t)
                                  \/ EnableLow(t)
        PROVE  FALSE
    <2>1. th'[t].step \in {"line", "high", "low", "call"} /\ (w # t => th'[w] = th[w])
      <3>1. CASE SelectRegister(t)
        BY <1>1, <3>1 DEF SelectRegister, IInv, ThreadState
      <3>2. CASE SetLine(t)
        BY <1>1, <3>2 DEF SetLine, IInv, ThreadState
      <3>3. CASE EnableHigh(t)
        BY <1>1, <3>3 DEF EnableHigh, IInv, ThreadState
      <3>4. CASE EnableLow(t)
        BY <1>1, <3>4 DEF EnableLow, IInv, ThreadState
      <3>. QED
        BY <1>6, <3>1, <3>2, <3>3, <3>4
    <2>. QED
      BY <2>1 DEF Busy
  <1>7. ASSUME NEW t \in Writers, WriteDone(t), t # w PROVE FALSE
    BY <1>7, <1>1 DEF WriteDone, Busy, IInv, Threads
  <1>9. ~UNCHANGED vars
    BY DEF vars, Busy
  <1>. QED
    BY <1>3, <1>4, <1>5, <1>6, <1>7, <1>9 DEF Next, Step
-----------------------------------------------------------------------------
(* Whether the display is on, as long as jobs have not overlapped.         *)

DisplayControl(c) == c.rs = 0 /\ c.byte \cap (3..7) = {3}

\* Call k turns the display on and no later one turns it off.
TurnsOn(init, k) ==
    /\ DisplayControl(init[k])
    /\ \A j \in k..Len(init) : DisplayControl(init[j]) => 2 \in init[j].byte

\* ModuleInit of every driver leaves the display on.
LeavesOn == \A v \in Variants : \E k \in 1..Len(v.init) : TurnsOn(v.init, k)

\* The loader works exactly in its phases, and nobody writes outside of theirs.
PhaseInv ==
    /\ module \in {"loading", "unloading"} => Busy(Loader)
    /\ module \in {"absent", "unloading"} => \A w \in Writers : ~Busy(w)

SteadyInv ==
    /\ \A t \in Threads : Busy(t) => t \in fit
    /\ panel.width = 8 /\ panel.half = <<>>
    /\ module \in {"live", "unloading"} => panel.on
    /\ module = "loading" =>
         \A k \in 1..Len(variant.init) :
           TurnsOn(variant.init, k) /\ Done(Loader) >= k => panel.on

OnInv == PhaseInv /\ (steady => SteadyInv)

\* Only a display control instruction turns the display on or off.
LEMMA ReceivedOn ==
    ASSUME NEW p \in PanelRecord, NEW c \in Call
    PROVE  Received(p, c.rs, c.byte).on = IF DisplayControl(c) THEN 2 \in c.byte ELSE p.on
  <1>1. c.rs \in {0, 1} /\ c.byte \in Byte
    BY DEF Call
  <1>2. /\ Cleared(p).on = p.on /\ Scrambled(p).on = p.on
        /\ \A b : [p EXCEPT !.on = b].on = b
        /\ \A b : [p EXCEPT !.text = b].on = p.on
        /\ \A b : [p EXCEPT !.width = b, !.half = <<>>].on = p.on
    BY DEF Cleared, Scrambled, PanelRecord
  <1>3. CASE c.rs = 1
    BY <1>2, <1>3 DEF Received, Character, DisplayControl
  <1>4. CASE c.rs = 0 /\ DisplayControl(c)
    <2>1. c.byte \cap (3..7) = {3}
      BY <1>4 DEF DisplayControl
    <2>2. /\ 3 \in c.byte /\ 4 \notin c.byte /\ 5 \notin c.byte
          /\ 6 \notin c.byte /\ 7 \notin c.byte
      <3>1. 3 \in 3..7 /\ 4 \in 3..7 /\ 5 \in 3..7 /\ 6 \in 3..7 /\ 7 \in 3..7
        OBVIOUS
      <3>. QED
        BY <2>1, <3>1
    <2>3. c.byte \cap {6, 7} = {} /\ c.byte \cap {5, 6, 7} # {5}
          /\ c.byte \cap (4..7) # {4} /\ c.byte \cap (2..7) # {2}
          /\ c.byte \cap (1..7) # {1} /\ c.byte # {0} /\ c.byte # {}
      <3>1. 3 \in 2..7 /\ 3 \in 1..7
        OBVIOUS
      <3>. QED
        BY <2>2, <3>1
    <2>4. Instruction(p, c.byte) = [p EXCEPT !.on = 2 \in c.byte]
      BY <2>1, <2>3 DEF Instruction
    <2>. QED
      BY <1>2, <1>4, <2>4 DEF Received
  <1>5. CASE c.rs = 0 /\ ~DisplayControl(c)
    <2>1. c.byte \cap (3..7) # {3}
      BY <1>5 DEF DisplayControl
    <2>2. Instruction(p, c.byte).on = p.on
      BY <1>1, <1>2, <2>1, HighestBit DEF Instruction
    <2>. QED
      BY <1>5, <2>2 DEF Received
  <1>. QED
    BY <1>1, <1>3, <1>4, <1>5

\* A settled job that is not ModuleInit's does not turn the display on or off.
LEMMA SettledKeepsOn ==
    ASSUME IInv, FitInv, NEW t \in Threads, EnableLow(t), Settled(t), ~Installing(t)
    PROVE  panel'.on = panel.on
  <1>. DEFINE c == JobCall(t, th[t].next - 1)
  <1>1. panel' = Received(panel, c.rs, c.byte) /\ th[t].next - 1 \in 1..th[t].calls
    BY CallLatched DEF FitInv
  <1>2. panel \in PanelRecord /\ c \in Call
    BY <1>1, JobCallType DEF IInv, PanelState, EnableLow, Busy
  <1>3. c = Clear \/ c.rs = 1
    BY SettledCalls
  <1>. HIDE DEF c
  <1>4. ~DisplayControl(c)
    <2>1. {0} \cap (3..7) # {3}
      OBVIOUS
    <2>2. CASE c = Clear
      <3>1. c.byte = {0}
        BY <2>2 DEF Clear
      <3>. QED
        BY <2>1, <3>1 DEF DisplayControl
    <2>3. CASE c.rs = 1
      BY <2>3 DEF DisplayControl
    <2>. QED
      BY <1>3, <2>2, <2>3
  <1>. QED
    BY <1>1, <1>2, <1>4, ReceivedOn

\* What a step in the middle of a job has to show.
LEMMA MiddleOn ==
    ASSUME IInv, OnInv, NEW t \in Threads, Busy(t), NEW s \in ThreadState,
           s.step # "idle", th' = [th EXCEPT ![t] = s],
           UNCHANGED <<variant, module, fit, steady>>,
           steady /\ SteadyInv =>
             /\ panel'.width = 8 /\ panel'.half = <<>>
             /\ module \in {"live", "unloading"} => panel'.on
             /\ module = "loading" =>
                  \A k \in 1..Len(variant.init) :
                    TurnsOn(variant.init, k) /\ Done(Loader)' >= k => panel'.on
    PROVE  OnInv'
  <1>1. th'[t] = s /\ \A u \in Threads \ {t} : th'[u] = th[u]
    BY DEF IInv
  <1>2. \A u \in Threads : Busy(u)' = Busy(u)
    BY <1>1 DEF Busy
  <1>3. PhaseInv'
    BY <1>2 DEF OnInv, PhaseInv, Threads
  <1>4. ASSUME steady' PROVE SteadyInv'
    <2>1. steady /\ SteadyInv
      BY <1>4 DEF OnInv
    <2>. QED
      BY <1>2, <2>1 DEF SteadyInv, TurnsOn, DisplayControl
  <1>. QED
    BY <1>3, <1>4 DEF OnInv

\* A step that changes neither the display nor the calls that have reached it.
LEMMA QuietOn ==
    ASSUME IInv, OnInv, NEW t \in Threads, Busy(t), NEW s \in ThreadState,
           s.step # "idle", th' = [th EXCEPT ![t] = s],
           UNCHANGED <<variant, module, fit, steady, panel>>,
           Done(Loader)' = Done(Loader)
    PROVE  OnInv'
  <1>1. steady /\ SteadyInv =>
             /\ panel'.width = 8 /\ panel'.half = <<>>
             /\ module \in {"live", "unloading"} => panel'.on
             /\ module = "loading" =>
                  \A k \in 1..Len(variant.init) :
                    TurnsOn(variant.init, k) /\ Done(Loader)' >= k => panel'.on
    BY DEF SteadyInv
  <1>. QED
    BY <1>1, MiddleOn

LEMMA InitOn == Init => OnInv
  BY LcdAssumption DEF Init, OnInv, PhaseInv, Resting, Busy, Threads

LEMMA LoadOn ==
    ASSUME IInv, EightWires, OnInv, Load
    PROVE  OnInv'
  <1>. DEFINE s == [Starting(Len(variant.init)) EXCEPT !.step = "drive"]
  <1>1. /\ th' = [th EXCEPT ![Loader] = s] /\ Loader \in Threads
        /\ module' = "loading" /\ UNCHANGED <<variant, panel>>
        /\ steady' => Alone(Loader) /\ Loader \in fit'
    BY DEF Load, Threads
  <1>2. s.step = "drive" /\ s.next = 1
    <2>1. Len(variant.init) \in Nat
      BY LcdAssumption DEF IInv, Variant
    <2>. QED
      BY <2>1, DrivingType
  <1>. HIDE DEF s
  <1>3. th'[Loader] = s /\ \A u \in Threads \ {Loader} : th'[u] = th[u]
    BY <1>1 DEF IInv
  <1>4. PhaseInv'
    BY <1>1, <1>2, <1>3 DEF PhaseInv, Busy
  <1>5. ASSUME steady' PROVE SteadyInv'
    <2>1. Alone(Loader) /\ Loader \in fit'
      BY <1>1, <1>5
    <2>2. \A t \in Threads : Busy(t)' => t \in fit'
      BY <1>3, <2>1 DEF Alone, OthersIdle, Busy
    <2>3. panel.width = 8 /\ panel.half = <<>>
      BY <2>1, StepMeansEight DEF Alone
    <2>4. Done(Loader)' = 0
      BY <1>2, <1>3 DEF Done
    <2>. QED
      BY <1>1, <2>2, <2>3, <2>4 DEF SteadyInv
  <1>. QED
    BY <1>4, <1>5 DEF OnInv

LEMMA UnloadOn ==
    ASSUME IInv, EightWires, OnInv, Unload
    PROVE  OnInv'
  <1>1. /\ th' = [th EXCEPT ![Loader] = Starting(1)] /\ Loader \in Threads
        /\ module = "live" /\ module' = "unloading"
        /\ UNCHANGED <<variant, panel, steady>>
        /\ \A t \in Threads : ~Busy(t)
        /\ fit' = IF Alone(Loader) THEN {Loader} ELSE {}
    BY DEF Unload, Threads
  <1>2. Starting(1).step = "call"
    BY StartingType
  <1>3. th'[Loader] = Starting(1) /\ \A u \in Threads \ {Loader} : th'[u] = th[u]
    BY <1>1 DEF IInv
  <1>4. PhaseInv'
    BY <1>1, <1>2, <1>3, LcdAssumption DEF PhaseInv, Busy, Threads
  <1>5. ASSUME steady' PROVE SteadyInv'
    <2>1. SteadyInv
      BY <1>1, <1>5 DEF OnInv
    <2>2. variant.wires = 8
      BY DEF IInv, EightWires
    <2>3. Alone(Loader)
      BY <1>1, <2>1, <2>2 DEF SteadyInv, Alone, OthersIdle, InStep
    <2>4. \A t \in Threads : Busy(t)' => t \in fit'
      BY <1>1, <1>3, <2>3 DEF Busy
    <2>. QED
      BY <1>1, <2>1, <2>4 DEF SteadyInv
  <1>. QED
    BY <1>4, <1>5 DEF OnInv

LEMMA WriteOn ==
    ASSUME IInv, EightWires, OnInv, NEW w \in Writers, NEW text \in Texts,
           Write(w, text)
    PROVE  OnInv'
  <1>. DEFINE n == Min2(Len(text), BufferSize) + 1
  <1>1. /\ th' = [th EXCEPT ![w] = Starting(n)]
        /\ w \in Threads /\ w # Loader /\ Loader \in Threads
        /\ module \in {"loading", "live"} /\ UNCHANGED <<variant, module, panel>>
        /\ steady' = (steady /\ OthersIdle(w))
        /\ fit' = IF Alone(w) THEN {w} ELSE {}
    BY LcdAssumption DEF Write, Threads
  <1>. HIDE DEF n
  <1>2. th'[Loader] = th[Loader] /\ \A u \in Threads \ {w} : th'[u] = th[u]
    BY <1>1 DEF IInv
  <1>3. PhaseInv'
    BY <1>1, <1>2 DEF OnInv, PhaseInv, Busy
  <1>4. ASSUME steady' PROVE SteadyInv'
    <2>1. SteadyInv /\ OthersIdle(w)
      BY <1>1, <1>4 DEF OnInv
    <2>2. variant.wires = 8
      BY DEF IInv, EightWires
    <2>3. Alone(w)
      BY <2>1, <2>2 DEF SteadyInv, Alone, InStep
    <2>4. \A t \in Threads : Busy(t)' => t \in fit'
      BY <1>1, <1>2, <2>1, <2>3 DEF Busy, OthersIdle
    <2>5. Done(Loader)' = Done(Loader)
      BY <1>2 DEF Done
    <2>6. \A k : TurnsOn(variant.init, k)' = TurnsOn(variant.init, k)
      BY <1>1 DEF TurnsOn, DisplayControl
    <2>. QED
      BY <1>1, <2>1, <2>4, <2>5, <2>6 DEF SteadyInv
  <1>. QED
    BY <1>3, <1>4 DEF OnInv

LEMMA DriveOn ==
    ASSUME IInv, FitInv, OnInv, DriveLine
    PROVE  OnInv'
  <1>. DEFINE k == th[Loader].line + 1
              s == IF k = Len(variant.lowers)
                   THEN [th[Loader] EXCEPT !.step = "call", !.line = 0]
                   ELSE [th[Loader] EXCEPT !.line = k]
  <1>1. /\ Loader \in Threads /\ th[Loader] \in ThreadState
        /\ th[Loader].step = "drive" /\ Busy(Loader)
    BY DEF IInv, DriveLine, Threads, Busy
  <1>2. /\ th' = [th EXCEPT ![Loader] = s]
        /\ UNCHANGED <<variant, module, fit, steady>>
    BY DEF DriveLine, IInv
  <1>3. s \in ThreadState
    <2>1. k \in Nat
      BY <1>1 DEF ThreadState
    <2>2. [th[Loader] EXCEPT !.line = k] \in ThreadState
      BY <1>1, <2>1 DEF ThreadState
    <2>3. [th[Loader] EXCEPT !.step = "call", !.line = 0] \in ThreadState
      BY <1>1 DEF ThreadState, StepNames
    <2>. QED
      BY <2>2, <2>3
  <1>4. s.next = th[Loader].next /\ s.step \in {"call", "drive"}
    BY <1>1 DEF ThreadState
  <1>. HIDE DEF s
  <1>5. th'[Loader] = s
    BY <1>1, <1>2 DEF IInv
  <1>6. Done(Loader)' = Done(Loader)
    BY <1>1, <1>4, <1>5 DEF Done
  <1>7. steady /\ SteadyInv => panel' = panel
    BY <1>1, DriveKeeps DEF SteadyInv, FitInv, Settled
  <1>8. steady /\ SteadyInv =>
             /\ panel'.width = 8 /\ panel'.half = <<>>
             /\ module \in {"live", "unloading"} => panel'.on
             /\ module = "loading" =>
                  \A i \in 1..Len(variant.init) :
                    TurnsOn(variant.init, i) /\ Done(Loader)' >= i => panel'.on
    BY <1>6, <1>7 DEF SteadyInv
  <1>. QED
    BY <1>1, <1>2, <1>3, <1>4, <1>8, MiddleOn

LEMMA SelectOn ==
    ASSUME IInv, EightWires, OnInv, NEW t \in Threads, SelectRegister(t)
    PROVE  OnInv'
  <1>. DEFINE c == JobCall(t, th[t].next)
              s == [th[t] EXCEPT !.next = @ + 1, !.step = "line",
                                 !.line = FirstLine, !.send = Patterns(c)]
  <1>1. /\ th[t] \in ThreadState /\ Busy(t) /\ th[t].step = "call"
        /\ th[t].next \in 1..th[t].calls
    BY DEF IInv, SelectRegister, Busy, ThreadState
  <1>2. /\ th' = [th EXCEPT ![t] = s]
        /\ UNCHANGED <<variant, module, fit, steady, panel>>
    BY DEF SelectRegister, IInv
  <1>3. Patterns(c) \in Seq(Byte)
    BY <1>1, JobCallType, PatternsType
  <1>4. s \in ThreadState
    BY <1>1, <1>3, Moves
  <1>5. s.step = "line" /\ s.next = th[t].next + 1 /\ th[t].next \in Nat
    BY <1>1 DEF ThreadState
  <1>. HIDE DEF c, s
  <1>6. th'[t] = s /\ (t # Loader => th'[Loader] = th[Loader])
    BY <1>2 DEF IInv, Threads
  <1>7. Done(Loader)' = Done(Loader)
    BY <1>1, <1>5, <1>6 DEF Done
  <1>. QED
    BY <1>1, <1>2, <1>4, <1>5, <1>7, QuietOn

LEMMA SetLineOn ==
    ASSUME IInv, OnInv, NEW t \in Threads, SetLine(t)
    PROVE  OnInv'
  <1>. DEFINE s == IF th[t].line = 7 THEN [th[t] EXCEPT !.step = "high", !.line = 0]
                   ELSE [th[t] EXCEPT !.line = th[t].line + 1]
  <1>1. th[t] \in ThreadState /\ ThreadInv(t) /\ Busy(t) /\ th[t].step = "line"
    BY DEF IInv, SetLine, Busy
  <1>2. /\ th' = [th EXCEPT ![t] = s]
        /\ UNCHANGED <<variant, module, fit, steady, panel>>
    BY DEF SetLine, IInv
  <1>3. s \in ThreadState
    <2>1. th[t].line + 1 \in Nat
      BY <1>1 DEF ThreadState
    <2>2. [th[t] EXCEPT !.line = th[t].line + 1] \in ThreadState
      BY <1>1, <2>1 DEF ThreadState
    <2>3. [th[t] EXCEPT !.step = "high", !.line = 0] \in ThreadState
      BY <1>1 DEF ThreadState, StepNames
    <2>. QED
      BY <2>2, <2>3
  <1>4. s.next = th[t].next /\ s.step \in {"line", "high"}
    BY <1>1 DEF ThreadState
  <1>. HIDE DEF s
  <1>5. th'[t] = s /\ (t # Loader => th'[Loader] = th[Loader])
    BY <1>2 DEF IInv, Threads
  <1>6. Done(Loader)' = Done(Loader)
    BY <1>1, <1>4, <1>5 DEF Done
  <1>. QED
    BY <1>1, <1>2, <1>3, <1>4, <1>6, QuietOn

LEMMA HighOn ==
    ASSUME IInv, OnInv, NEW t \in Threads, EnableHigh(t)
    PROVE  OnInv'
  <1>. DEFINE s == [th[t] EXCEPT !.step = "low"]
  <1>1. th[t] \in ThreadState /\ Busy(t) /\ th[t].step = "high"
    BY DEF IInv, EnableHigh, Busy
  <1>2. /\ th' = [th EXCEPT ![t] = s]
        /\ UNCHANGED <<variant, module, fit, steady, panel>>
    BY DEF EnableHigh, IInv
  <1>3. s \in ThreadState /\ s.next = th[t].next /\ s.step = "low"
    BY <1>1 DEF ThreadState, StepNames
  <1>. HIDE DEF s
  <1>4. th'[t] = s /\ (t # Loader => th'[Loader] = th[Loader])
    BY <1>2 DEF IInv, Threads
  <1>5. Done(Loader)' = Done(Loader)
    BY <1>1, <1>3, <1>4 DEF Done
  <1>. QED
    BY <1>1, <1>2, <1>3, <1>5, QuietOn

LEMMA LowOn ==
    ASSUME IInv, FitInv, FitInv', EightWires, OnInv, NEW t \in Threads, EnableLow(t)
    PROVE  OnInv'
  <1>. DEFINE tail == Tail(th[t].send)
              s == IF tail = <<>> THEN [th[t] EXCEPT !.step = "call", !.send = <<>>]
                   ELSE [th[t] EXCEPT !.step = "line", !.line = FirstLine,
                                      !.send = tail]
              c == JobCall(t, th[t].next - 1)
  <1>1. th[t] \in ThreadState /\ ThreadInv(t) /\ Busy(t) /\ th[t].step = "low"
    BY DEF IInv, EnableLow, Busy
  <1>2. tail \in Seq(Byte) /\ <<>> \in Seq(Byte)
    BY <1>1 DEF ThreadState, ThreadInv
  <1>3. /\ th' = [th EXCEPT ![t] = s]
        /\ UNCHANGED <<variant, module, fit, steady>>
    BY DEF EnableLow, IInv
  <1>. HIDE DEF tail
  <1>4. s \in ThreadState
    BY <1>1, <1>2, Moves
  <1>5. /\ s.next = th[t].next /\ th[t].next \in Nat /\ th[t].calls \in Nat
        /\ s.step = IF tail = <<>> THEN "call" ELSE "line"
    BY <1>1 DEF ThreadState
  <1>. HIDE DEF s
  <1>6. th'[t] = s /\ (t # Loader => th'[Loader] = th[Loader])
    BY <1>3 DEF IInv, Threads
  <1>. SUFFICES ASSUME steady, SteadyInv
                PROVE  /\ panel'.width = 8 /\ panel'.half = <<>>
                       /\ module \in {"live", "unloading"} => panel'.on
                       /\ module = "loading" =>
                            \A k \in 1..Len(variant.init) :
                              TurnsOn(variant.init, k) /\ Done(Loader)' >= k => panel'.on
    BY <1>1, <1>3, <1>4, <1>5, MiddleOn
  <1>7. /\ t \in fit /\ SettledInv(t) /\ SettledInv(t)' /\ OthersIdle(t)
        /\ panel'.width = 8 /\ panel'.half = <<>>
    BY <1>1, <1>3 DEF SteadyInv, FitInv, Settled, SettledInv
  <1>8. CASE ~Installing(t)
    <2>1. panel'.on = panel.on
      BY <1>7, <1>8, SettledKeepsOn DEF Settled
    <2>2. module # "loading"
      BY <1>7, <1>8 DEF OnInv, PhaseInv, OthersIdle, Installing, Threads
    <2>. QED
      BY <1>7, <2>1, <2>2 DEF SteadyInv
  <1>9. CASE Installing(t)
    <2>1. t = Loader /\ module = "loading" /\ th[t].calls = Len(variant.init)
      BY <1>1, <1>9 DEF Installing, ThreadInv
    <2>2. /\ panel' = Received(panel, c.rs, c.byte) /\ tail = <<>>
          /\ th[t].next - 1 \in 1..th[t].calls /\ c = variant.init[th[t].next - 1]
      BY <1>7, <2>1, CallLatched DEF tail, JobCall
    <2>3. panel \in PanelRecord /\ c \in Call
      BY <1>1, <2>2, JobCallType DEF IInv, PanelState
    <2>. HIDE DEF c
    <2>4. panel'.on = IF DisplayControl(c) THEN 2 \in c.byte ELSE panel.on
      BY <2>2, <2>3, ReceivedOn
    <2>5. Done(Loader)' = th[t].next - 1 /\ Done(Loader) = th[t].next - 2
      BY <1>1, <1>5, <1>6, <2>1, <2>2 DEF Done
    <2>6. ASSUME NEW k \in 1..Len(variant.init), TurnsOn(variant.init, k),
                 Done(Loader)' >= k
          PROVE  panel'.on
      <3>1. CASE k = th[t].next - 1
        <4>1. k \in k..Len(variant.init)
          BY <2>1, <1>5
        <4>2. DisplayControl(c) /\ 2 \in c.byte
          BY <2>2, <2>6, <3>1, <4>1 DEF TurnsOn
        <4>. QED
          BY <2>4, <4>2
      <3>2. CASE k # th[t].next - 1
        <4>1. Done(Loader) >= k /\ th[t].next - 1 \in k..Len(variant.init)
          BY <1>5, <2>1, <2>2, <2>5, <2>6, <3>2
        <4>2. panel.on
          BY <2>1, <2>6, <4>1 DEF SteadyInv
        <4>3. DisplayControl(c) => 2 \in c.byte
          BY <2>2, <2>6, <4>1 DEF TurnsOn
        <4>. QED
          BY <2>4, <4>2, <4>3
      <3>. QED
        BY <3>1, <3>2
    <2>. QED
      BY <1>7, <2>1, <2>6
  <1>. QED
    BY <1>8, <1>9

LEMMA WriteDoneOn ==
    ASSUME IInv, OnInv, NEW w \in Writers, WriteDone(w)
    PROVE  OnInv'
  <1>1. /\ th' = [th EXCEPT ![w] = Resting] /\ w \in Threads /\ Loader \in Threads
        /\ w # Loader /\ fit' = fit \ {w}
        /\ UNCHANGED <<variant, module, panel, steady>>
    BY LcdAssumption DEF WriteDone, Threads
  <1>2. /\ th'[w] = Resting /\ th'[Loader] = th[Loader]
        /\ \A u \in Threads \ {w} : th'[u] = th[u]
    BY <1>1 DEF IInv
  <1>3. ~Busy(w)' /\ \A u \in Threads \ {w} : Busy(u)' = Busy(u)
    BY <1>2, RestingType DEF Busy
  <1>4. PhaseInv'
    BY <1>1, <1>3 DEF OnInv, PhaseInv, Threads
  <1>5. ASSUME steady' PROVE SteadyInv'
    <2>1. SteadyInv
      BY <1>1, <1>5 DEF OnInv
    <2>2. \A t \in Threads : Busy(t)' => t \in fit'
      BY <1>1, <1>3, <2>1 DEF SteadyInv
    <2>3. Done(Loader)' = Done(Loader)
      BY <1>2 DEF Done
    <2>4. \A k : TurnsOn(variant.init, k)' = TurnsOn(variant.init, k)
      BY <1>1 DEF TurnsOn, DisplayControl
    <2>. QED
      BY <1>1, <2>1, <2>2, <2>3, <2>4 DEF SteadyInv
  <1>. QED
    BY <1>4, <1>5 DEF OnInv

LEMMA LoaderDoneOn ==
    ASSUME IInv, LeavesOn, OnInv, LoaderDone
    PROVE  OnInv'
  <1>1. /\ th' = [th EXCEPT ![Loader] = Resting] /\ Loader \in Threads
        /\ Loader \notin Writers /\ fit' = fit \ {Loader}
        /\ th[Loader].step = "call" /\ th[Loader].next > th[Loader].calls
        /\ UNCHANGED <<variant, panel, steady>>
        /\ \/ module = "loading" /\ module' = "live"
           \/ module = "unloading" /\ module' = "absent"
        /\ Busy(Loader) /\ ThreadInv(Loader) /\ th[Loader] \in ThreadState
    BY LcdAssumption DEF LoaderDone, Threads, Busy, IInv
  <1>2. th'[Loader] = Resting /\ \A u \in Threads \ {Loader} : th'[u] = th[u]
    BY <1>1 DEF IInv
  <1>3. ~Busy(Loader)' /\ \A u \in Threads \ {Loader} : Busy(u)' = Busy(u)
    BY <1>2, RestingType DEF Busy
  <1>4. PhaseInv'
    BY <1>1, <1>3 DEF OnInv, PhaseInv, Threads
  <1>5. ASSUME steady' PROVE SteadyInv'
    <2>1. SteadyInv
      BY <1>1, <1>5 DEF OnInv
    <2>2. \A t \in Threads : Busy(t)' => t \in fit'
      BY <1>1, <1>3, <2>1 DEF SteadyInv
    <2>3. ASSUME module' = "live" PROVE panel.on
      <3>1. module = "loading" /\ th[Loader].calls = Len(variant.init)
        BY <1>1, <2>3 DEF ThreadInv
      <3>2. Done(Loader) = Len(variant.init) /\ Len(variant.init) \in Nat
        BY <1>1, <3>1 DEF Done, ThreadInv, ThreadState
      <3>3. PICK k \in 1..Len(variant.init) : TurnsOn(variant.init, k)
        BY DEF LeavesOn, IInv
      <3>. QED
        BY <2>1, <3>1, <3>2, <3>3 DEF SteadyInv
    <2>. QED
      BY <1>1, <2>1, <2>2, <2>3 DEF SteadyInv
  <1>. QED
    BY <1>4, <1>5 DEF OnInv

LEMMA NextOn ==
    ASSUME EightWires, LeavesOn, IInv, FitInv, FitInv', OnInv, [Next]_vars
    PROVE  OnInv'
  <1>1. CASE Load
    BY <1>1, LoadOn
  <1>2. CASE Unload
    BY <1>2, UnloadOn
  <1>3. CASE DriveLine
    BY <1>3, DriveOn
  <1>4. ASSUME NEW w \in Writers, NEW text \in Texts, Write(w, text) PROVE OnInv'
    BY <1>4, WriteOn
  <1>5. ASSUME NEW t \in Threads, Step(t) PROVE OnInv'
    BY <1>5, SelectOn, SetLineOn, HighOn, LowOn, WriteDoneOn, LoaderDoneOn DEF Step
  <1>6. CASE UNCHANGED vars
    BY <1>6 DEF vars, OnInv, PhaseInv, SteadyInv, TurnsOn, DisplayControl, Done, Busy
  <1>. QED
    BY <1>1, <1>2, <1>3, <1>4, <1>5, <1>6 DEF Next

LEMMA Steadiness ==
    ASSUME EightWires, LeavesOn
    PROVE  Spec => [](IInv /\ FitInv /\ OnInv)
  <1>1. Init => IInv /\ FitInv /\ OnInv
    BY InitInv, FitInit, InitOn
  <1>2. IInv /\ FitInv /\ OnInv /\ [Next]_vars => (IInv /\ FitInv /\ OnInv)'
    <2>1. IInv /\ FitInv /\ [Next]_vars => IInv' /\ FitInv'
      BY NextInv, NextFit
    <2>. QED
      BY <2>1, NextOn
  <1>. QED
    BY <1>1, <1>2, PTL DEF Spec
-----------------------------------------------------------------------------
(* What the jobs that run alone leave.                                     *)

\* The drivers with eight lines whose ModuleInit leaves the display on, lcd.c
\* and lcd_my.c but not lcd_j.c, and any number of writers: a write that
\* overlaps no other job and finds the display in step leaves the bytes it was
\* given on it, exactly them unless copy_from_user stopped early, and unless
\* jobs have overlapped since ModuleInit the display is on.
THEOREM WritesAreShown ==
    ASSUME EightWires, LeavesOn
    PROVE  Spec => DisplayShowsWrite
  <1>1. ASSUME IInv, FitInv, OnInv, [Next]_vars, NEW w \in Writers, w \in fit,
               Busy(w), ~Busy(w)'
        PROVE  /\ panel.plain
               /\ SubSeq(panel.text, 1, Len(given)) = given
               /\ Len(given) = th[w].calls - 1 => panel.text = given
               /\ steady => panel.on
    <2>1. WriteDone(w)
      BY <1>1, OnlyReturnsIdle
    <2>2. /\ w \in Threads /\ w # Loader /\ Settled(w) /\ SettledInv(w)
          /\ ~Installing(w) /\ th[w] \in ThreadState
      BY <1>1, LcdAssumption DEF Threads, Settled, FitInv, Installing, IInv
    <2>3. panel.plain /\ Opening(panel.text, th[w].calls - 1)
      BY <1>1, <2>1, <2>2, AllArrived DEF WriteDone
    <2>4. /\ Opening(given, Len(given)) /\ Len(given) <= th[w].calls - 1
          /\ th[w].calls >= 1 /\ th[w].calls \in Nat
      BY <2>2 DEF SettledInv, ThreadState
    <2>5. Len(given) \in 0..(th[w].calls - 1) /\ th[w].calls - 1 \in Nat
      BY <2>4 DEF Opening
    <2>6. SubSeq(panel.text, 1, Len(given)) = given
      BY <2>3, <2>4, <2>5, ShorterOpening
    <2>7. Len(given) = th[w].calls - 1 => panel.text = given
      BY <2>3, <2>4, SameOpening
    <2>8. steady => panel.on
      <3>1. module \notin {"loading", "unloading", "absent"}
        BY <1>1, <2>2 DEF OnInv, PhaseInv, SettledInv, OthersIdle, Threads
      <3>. QED
        BY <1>1, <3>1 DEF OnInv, SteadyInv, IInv
    <2>. QED
      BY <2>3, <2>6, <2>7, <2>8
  <1>2. IInv /\ FitInv /\ OnInv /\ [Next]_vars =>
          [\A w \in Writers : w \in fit /\ Busy(w) /\ ~Busy(w)' =>
             /\ panel.plain
             /\ SubSeq(panel.text, 1, Len(given)) = given
             /\ Len(given) = th[w].calls - 1 => panel.text = given
             /\ steady => panel.on]_vars
    BY <1>1
  <1>. QED
    BY <1>2, Steadiness, PTL DEF Spec, DisplayShowsWrite

\* On the eight-line drivers, once ModuleInit is done, only jobs that overlap
\* can change the width of the display's interface or turn the display off.
THEOREM SetupIsKept ==
    ASSUME EightWires
    PROVE  Spec => SetupOnlyLostByOverlap
  <1>1. ASSUME IInv, FitInv, FitInv', [Next]_vars,
               panel'.width # panel.width \/ panel'.on # panel.on,
               module # "loading"
        PROVE  \E t \in Threads : Busy(t) /\ t \notin fit
    <2>1. PICK t \in Threads : EnableLow(t)
      <3>1. ~DriveLine
        BY <1>1 DEF DriveLine, IInv, ThreadInv, Threads
      <3>. QED
        BY <1>1, <3>1 DEF Next, vars, Load, Unload, Write, Step, SelectRegister,
                          SetLine, EnableHigh, WriteDone, LoaderDone
    <2>2. Busy(t) /\ UNCHANGED <<module, fit>>
      BY <2>1 DEF EnableLow, Busy
    <2>3. CASE t \in fit
      <3>1. Settled(t) /\ Settled(t)' /\ ~Installing(t)
        BY <1>1, <2>2, <2>3 DEF Settled, Installing
      <3>2. panel.width = 8 /\ panel'.width = 8
        BY <1>1, <3>1 DEF FitInv, SettledInv
      <3>3. panel'.on = panel.on
        BY <1>1, <2>1, <3>1, SettledKeepsOn
      <3>. QED
        BY <1>1, <3>2, <3>3
    <2>. QED
      BY <2>2, <2>3
  <1>2. IInv /\ FitInv /\ (IInv /\ FitInv)' /\ [Next]_vars =>
          [panel'.width # panel.width \/ panel'.on # panel.on =>
             module = "loading" \/ \E t \in Threads : Busy(t) /\ t \notin fit]_vars
    BY <1>1
  <1>. QED
    BY <1>2, Fitness, PTL DEF Spec, SetupOnlyLostByOverlap

\* On the eight-line drivers ModuleExit leaves a display that it finds in step
\* blank, whatever has been written to it.
THEOREM ExitsClear ==
    ASSUME EightWires
    PROVE  Spec => ExitClears
  <1>1. ASSUME IInv, FitInv, [Next]_vars, module = "unloading", module' = "absent",
               Loader \in fit
        PROVE  panel.plain /\ panel.text = <<>>
    <2>1. LoaderDone
      BY <1>1 DEF Next, vars, Load, DriveLine, Unload, Write, Step, SelectRegister,
                  SetLine, EnableHigh, EnableLow, WriteDone
    <2>2. Loader \in Threads /\ Settled(Loader) /\ ~Installing(Loader)
      BY <1>1 DEF Threads, Settled, Installing
    <2>3. panel.plain /\ Opening(panel.text, 0)
      BY <1>1, <2>1, <2>2, AllArrived DEF LoaderDone
    <2>4. Opening(<<>>, 0)
      BY DEF Opening
    <2>. QED
      BY <2>3, <2>4, SameOpening
  <1>2. IInv /\ FitInv /\ [Next]_vars =>
          [module = "unloading" /\ module' = "absent" /\ Loader \in fit =>
             panel.plain /\ panel.text = <<>>]_vars
    BY <1>1
  <1>. QED
    BY <1>2, Fitness, PTL DEF Spec, ExitClears
=============================================================================
