------------------------------- MODULE LcdBus -------------------------------
(***************************************************************************)
(* The LCD drivers that wire the display to GPIOs: LCD_drv/lcd.c,          *)
(* LCD_drv/lcd_j.c and LCD_drv/lcd_my.c with eight data lines,             *)
(* LCD_drv/lcd_4bit.c with four.  All of them share one shape: a byte is   *)
(* put on the lines bit by bit, an enable pulse latches it, driver_write   *)
(* clears the display and sends the characters of the static lcd_buffer.   *)
(* Nothing is locked: the character device is registered before the lines  *)
(* are requested and the display is initialised, so any number of writers  *)
(* share the lines, the buffer and the display with each other and with    *)
(* ModuleInit.  Between two calls of the GPIO core another thread may run. *)
(* A ModuleInit whose requests fail is in CharDrivers.                     *)
(***************************************************************************)
EXTENDS Hd44780, FiniteSets

CONSTANTS
    Writers,        \* the threads that write to the device file
    Loader,         \* the thread that runs ModuleInit and ModuleExit
    Variants,       \* the drivers: see Variant
    Texts,          \* what a writer may write, sequences of bytes
    BufferSize,     \* sizeof(lcd_buffer), 17 in the code
    CopyFaults,     \* whether copy_from_user may stop early
    MaxOverlaps     \* a bound on the writes that begin during another job

Threads == Writers \cup {Loader}
Call == [rs : {0, 1}, byte : Byte]

\* The data lines are 0 to 7, gpios[2] and on; these are gpios[0] and gpios[1].
EnableLine == 8
SelectLine == 9

\* A driver: the number of its data lines, the lines its ModuleInit lowers
\* once the file is there, the calls it then makes to the display, and whether
\* its ModuleExit drives the lines low.
Variant == [wires : {4, 8}, lowers : Seq(0..9) \ {<<>>}, init : Seq(Call),
            parks : BOOLEAN]

ASSUME LcdAssumption ==
    /\ Loader \notin Writers
    /\ Variants \subseteq Variant
    /\ Texts \subseteq Seq(Byte)
    /\ BufferSize \in 1..Cells
    /\ CopyFaults \in BOOLEAN
    /\ MaxOverlaps \in Nat

VARIABLES
    variant,        \* the driver that is built
    module,         \* "absent", "loading", "live" or "unloading"
    lcd_buffer,     \* the static buffer, BufferSize bytes
    rs, data, e,    \* the register select, data and enable lines
    panel,          \* the display
    th,             \* where each thread is: see Resting
    given,          \* history: the bytes the write in fit was given
    fit,            \* history: the threads whose job met a display in step
                    \* with the driver and has overlapped no other job
    steady,         \* history: ModuleInit met a display in step with the
                    \* driver, and no job has overlapped another since
    overlaps        \* the writes that began during another job

vars == <<variant, module, lcd_buffer, rs, data, e, panel, th, given, fit,
          steady, overlaps>>

\* A thread: its step, the line it is at, the next call of its job and the
\* number of calls, and the patterns left to send for this call.
Resting == [step |-> "idle", line |-> 0, next |-> 1, calls |-> 0, send |-> <<>>]

\* Mutant: the loop over the buffer ends one character late.
StartingOneMore(n) == [Resting EXCEPT !.step = "call", !.calls = n + 1]

\* A job of n calls is entered.
Starting(n) == [Resting EXCEPT !.step = "call", !.calls = n]

Busy(t) == th[t].step # "idle"
OthersIdle(t) == \A u \in Threads \ {t} : ~Busy(u)

Clear == [rs |-> 0, byte |-> {0}]

FirstLine == IF variant.wires = 8 THEN 0 ELSE 4

\* The lower four bits of a byte on the lines D4 to D7.
LowNibble(b) == {k + 4 : k \in b \cap (0..3)}
HighNibble(b) == b \cap (4..7)

\* The patterns one call puts on the lines: eight lines carry the byte; with
\* four, lcd_command sends its lower nibble alone, lcd_data the lower one and
\* then the upper one.
Patterns(c) ==
    IF variant.wires = 8 THEN <<c.byte>>
    ELSE IF c.rs = 0 THEN <<LowNibble(c.byte)>>
    ELSE <<LowNibble(c.byte), HighNibble(c.byte)>>

\* The display is ready for the first pulse of a byte of the driver.
InStep == panel.width = variant.wires /\ panel.half = <<>>

\* A job that starts now runs alone, on a display in step with the driver.
Alone(t) == OthersIdle(t) /\ InStep

\* The display after a pulse that finds lines ModuleInit has not made outputs
\* yet: nothing, or whatever a byte or half of one may do; the text is unknown.
Unsettled(p) ==
    {p} \cup
    {[width |-> 8, half |-> <<>>, on |-> b, plain |-> FALSE, text |-> <<>>] :
        b \in BOOLEAN} \cup
    {[width |-> 4, half |-> h, on |-> b, plain |-> FALSE, text |-> <<>>] :
        b \in BOOLEAN, h \in {<<>>} \cup {<<n>> : n \in [rs : {0, 1}, upper : SUBSET (4..7)]}}

\* min, of the length of a write and the size of the buffer.
Min2(a, b) == IF a < b THEN a ELSE b

\* Mutant: driver_write moves the cursor home, 0x2, and clears nothing.
JobCallHome(t, k) ==
    IF t = Loader THEN IF module = "loading" THEN variant.init[k] ELSE Clear
    ELSE IF k = 1 THEN [rs |-> 0, byte |-> {1}]
    ELSE [rs |-> 1, byte |-> lcd_buffer[k - 1]]

\* Call number k of a thread's job: ModuleInit has a list of calls, ModuleExit
\* clears, driver_write clears and then sends what lcd_buffer holds by then.
JobCall(t, k) ==
    IF t = Loader THEN IF module = "loading" THEN variant.init[k] ELSE Clear
    ELSE IF k = 1 THEN Clear
    ELSE [rs |-> 1, byte |-> lcd_buffer[k - 1]]
-----------------------------------------------------------------------------
Init ==
    /\ variant \in Variants
    /\ module = "absent"
    /\ lcd_buffer = [k \in 1..BufferSize |-> {}]
    /\ rs = 0 /\ data = {} /\ e = 0
    /\ panel = PowerOn
    /\ th = [t \in Threads |-> Resting]
    /\ given = <<>>
    /\ fit = {}
    /\ steady = FALSE
    /\ overlaps = 0

\* ModuleInit, of a fresh copy of the module's data, has registered the device:
\* from cdev_add on the file can be opened and written.
Load ==
    /\ module = "absent"
    /\ module' = "loading"
    /\ lcd_buffer' = [k \in 1..BufferSize |-> {}]
    /\ th' = [th EXCEPT ![Loader] =
                 [Starting(Len(variant.init)) EXCEPT !.step = "drive"]]
    /\ fit' = IF Alone(Loader) THEN {Loader} ELSE {}
    /\ steady' = Alone(Loader)
    /\ UNCHANGED <<variant, rs, data, e, panel, given, overlaps>>

\* ModuleInit lowers the next line, by gpio_direction_output or, a second time,
\* by gpio_set_value.  Lowering the enable line under a writer ends its pulse.
\* After the last line the calls to the display follow.
DriveLine ==
    LET k == th[Loader].line + 1
        line == variant.lowers[k]
    IN  /\ th[Loader].step = "drive"
        /\ rs' = IF line = SelectLine THEN 0 ELSE rs
        /\ e' = IF line = EnableLine THEN 0 ELSE e
        /\ data' = data \ {line}
        /\ panel' \in IF line = EnableLine /\ e = 1 THEN Unsettled(panel) ELSE {panel}
        /\ th' = IF k = Len(variant.lowers)
                 THEN [th EXCEPT ![Loader].step = "call", ![Loader].line = 0]
                 ELSE [th EXCEPT ![Loader].line = k]
        /\ UNCHANGED <<variant, module, lcd_buffer, given, fit, steady, overlaps>>

\* Mutant: ModuleExit leaves the display alone.
UnloadSilently ==
    /\ module = "live"
    /\ \A t \in Threads : ~Busy(t)
    /\ module' = "unloading"
    /\ th' = [th EXCEPT ![Loader] = Starting(0)]
    /\ fit' = IF Alone(Loader) THEN {Loader} ELSE {}
    /\ UNCHANGED <<variant, lcd_buffer, rs, data, e, panel, given, steady,
                   overlaps>>

\* ModuleExit: the module is not in use, so no writer has the file open.
Unload ==
    /\ module = "live"
    /\ \A t \in Threads : ~Busy(t)
    /\ module' = "unloading"
    /\ th' = [th EXCEPT ![Loader] = Starting(1)]
    /\ fit' = IF Alone(Loader) THEN {Loader} ELSE {}
    /\ UNCHANGED <<variant, lcd_buffer, rs, data, e, panel, given, steady,
                   overlaps>>

\* driver_write: to_copy bytes are copied into the buffer; copy_from_user
\* fills what it could not read with zero bytes.
Write(w, text) ==
    LET to_copy == Min2(Len(text), BufferSize)
    IN  /\ module \in {"loading", "live"}
        /\ ~Busy(w)
        /\ fit' = IF Alone(w) THEN {w} ELSE {}
        /\ steady' = (steady /\ OthersIdle(w))
        /\ IF OthersIdle(w) THEN UNCHANGED overlaps
           ELSE overlaps < MaxOverlaps /\ overlaps' = overlaps + 1
        /\ \E copied \in 0..to_copy :
             /\ copied = to_copy \/ CopyFaults
             /\ lcd_buffer' = [k \in 1..BufferSize |->
                                 IF k <= copied THEN text[k]
                                 ELSE IF k <= to_copy THEN {}
                                 ELSE lcd_buffer[k]]
             /\ given' = IF w \in fit' THEN SubSeq(text, 1, copied) ELSE <<>>
        /\ th' = [th EXCEPT ![w] = Starting(to_copy + 1)]
        /\ UNCHANGED <<variant, module, rs, data, e, panel>>

\* Mutant: lcd_data does not raise REGISTER_SELECT.
SelectInstruction(t) ==
    /\ th[t].step = "call"
    /\ th[t].next <= th[t].calls
    /\ LET c == JobCall(t, th[t].next)
       IN  /\ rs' = 0
           /\ th' = [th EXCEPT ![t].next = @ + 1, ![t].step = "line",
                               ![t].line = FirstLine, ![t].send = Patterns(c)]
    /\ UNCHANGED <<variant, module, lcd_buffer, data, e, panel, given, fit,
                   steady, overlaps>>

\* The next lcd_command or lcd_data of the job sets REGISTER_SELECT.
SelectRegister(t) ==
    /\ th[t].step = "call"
    /\ th[t].next <= th[t].calls
    /\ LET c == JobCall(t, th[t].next)
       IN  /\ rs' = c.rs
           /\ th' = [th EXCEPT ![t].next = @ + 1, ![t].step = "line",
                               ![t].line = FirstLine, ![t].send = Patterns(c)]
    /\ UNCHANGED <<variant, module, lcd_buffer, data, e, panel, given, fit,
                   steady, overlaps>>

\* lcd_send_byte: the next data line.
SetLine(t) ==
    LET k == th[t].line
    IN  /\ th[t].step = "line"
        /\ data' = IF k \in Head(th[t].send) THEN data \cup {k} ELSE data \ {k}
        /\ th' = IF k = 7 THEN [th EXCEPT ![t].step = "high", ![t].line = 0]
                 ELSE [th EXCEPT ![t].line = k + 1]
        /\ UNCHANGED <<variant, module, lcd_buffer, rs, e, panel, given, fit,
                       steady, overlaps>>

\* lcd_enable, the rising edge.
EnableHigh(t) ==
    /\ th[t].step = "high"
    /\ e' = 1
    /\ th' = [th EXCEPT ![t].step = "low"]
    /\ UNCHANGED <<variant, module, lcd_buffer, rs, data, panel, given, fit,
                   steady, overlaps>>

\* Mutant: the enable line stays high.
EnableStaysHigh(t) ==
    /\ th[t].step = "low"
    /\ th' = LET rest == Tail(th[t].send)
             IN  IF rest = <<>>
                 THEN [th EXCEPT ![t].step = "call", ![t].send = <<>>]
                 ELSE [th EXCEPT ![t].step = "line", ![t].line = FirstLine,
                                 ![t].send = rest]
    /\ UNCHANGED <<variant, module, lcd_buffer, rs, data, e, panel, given, fit,
                   steady, overlaps>>

\* lcd_enable, the falling edge: the display latches what is on the lines,
\* unless another thread has already lowered the line.  Then lcd_send_byte
\* returns; lcd_data of the four-line driver has a second nibble to send.
EnableLow(t) ==
    /\ th[t].step = "low"
    /\ e' = 0
    /\ panel' \in IF e = 0 THEN {panel}
                  ELSE IF th[Loader].step = "drive" THEN Unsettled(panel)
                  ELSE Latched(panel, rs, data)
    /\ th' = LET rest == Tail(th[t].send)
             IN  IF rest = <<>>
                 THEN [th EXCEPT ![t].step = "call", ![t].send = <<>>]
                 ELSE [th EXCEPT ![t].step = "line", ![t].line = FirstLine,
                                 ![t].send = rest]
    /\ UNCHANGED <<variant, module, lcd_buffer, rs, data, given, fit, steady,
                   overlaps>>

\* driver_write returns.
WriteDone(w) ==
    /\ th[w].step = "call"
    /\ th[w].next > th[w].calls
    /\ th' = [th EXCEPT ![w] = Resting]
    /\ given' = <<>>
    /\ fit' = fit \ {w}
    /\ UNCHANGED <<variant, module, lcd_buffer, rs, data, e, panel, steady,
                   overlaps>>

\* ModuleInit or ModuleExit returns; the latter may leave the lines low.
LoaderDone ==
    /\ th[Loader].step = "call"
    /\ th[Loader].next > th[Loader].calls
    /\ th' = [th EXCEPT ![Loader] = Resting]
    /\ fit' = fit \ {Loader}
    /\ \/ /\ module = "loading"
          /\ module' = "live"
          /\ UNCHANGED <<rs, data, e>>
       \/ /\ module = "unloading"
          /\ module' = "absent"
          /\ IF variant.parks THEN rs' = 0 /\ data' = {} /\ e' = 0
             ELSE UNCHANGED <<rs, data, e>>
    /\ UNCHANGED <<variant, lcd_buffer, panel, given, steady, overlaps>>

Step(t) ==
    \/ SelectRegister(t) \/ SetLine(t) \/ EnableHigh(t) \/ EnableLow(t)
    \/ t \in Writers /\ WriteDone(t)
    \/ t = Loader /\ LoaderDone

Next ==
    \/ Load
    \/ DriveLine
    \/ Unload
    \/ \E w \in Writers, text \in Texts : Write(w, text)
    \/ \E t \in Threads : Step(t)

Spec == Init /\ [][Next]_vars
-----------------------------------------------------------------------------
\* Every variable has its type; a write never outgrows the buffer.
TypeOK ==
    /\ variant \in Variants
    /\ module \in {"absent", "loading", "live", "unloading"}
    /\ lcd_buffer \in [1..BufferSize -> Byte]
    /\ rs \in {0, 1} /\ data \in Byte /\ e \in {0, 1}
    /\ panel.width \in {4, 8} /\ panel.on \in BOOLEAN /\ panel.plain \in BOOLEAN
    /\ Len(panel.half) <= 1 /\ Len(panel.text) <= Cells
    /\ \A t \in Threads :
         /\ th[t].step \in {"idle", "drive", "call", "line", "high", "low"}
         /\ th[t].step = "drive" => t = Loader /\ th[t].line < Len(variant.lowers)
         /\ th[t].step # "drive" => th[t].line \in 0..7
         /\ th[t].next \in 1..(th[t].calls + 1)
         /\ t \in Writers => th[t].calls <= BufferSize + 1
    /\ fit \subseteq Threads
    /\ steady \in BOOLEAN
    /\ overlaps \in 0..MaxOverlaps

\* Between jobs the enable line is low, however the jobs before interleaved:
\* a job that starts alone makes an edge of its own for every byte.
EnableParksLow == (\A t \in Threads : ~Busy(t)) => e = 0

\* A write that meets a display in step with the driver and overlaps no other
\* job leaves the bytes it was given on the display, and nothing else if all
\* of them could be copied: "Set the new data to the display".  Unless jobs
\* have overlapped since ModuleInit the display is on, so that they are seen.
DisplayShowsWrite ==
    [][\A w \in Writers : w \in fit /\ Busy(w) /\ ~Busy(w)' =>
         /\ panel.plain
         /\ SubSeq(panel.text, 1, Len(given)) = given
         /\ Len(given) = th[w].calls - 1 => panel.text = given
         /\ steady => panel.on]_vars

\* Only jobs that overlap can take the interface away from an initialised
\* display, or turn it off: its width and whether it is on change after
\* ModuleInit only in the middle of such a job.
SetupOnlyLostByOverlap ==
    [][panel'.width # panel.width \/ panel'.on # panel.on =>
         module = "loading" \/ \E t \in Threads : Busy(t) /\ t \notin fit]_vars

\* ModuleExit, "Clear the display": a display that is in step is left blank.
ExitClears ==
    [][module = "unloading" /\ module' = "absent" /\ Loader \in fit =>
         panel.plain /\ panel.text = <<>>]_vars
=============================================================================
