-------------------------------- MODULE LcdI2c --------------------------------
(***************************************************************************)
(* LCD_drv/lcd_i2c.c (and its copy in misc_drv): the HD44780 display wired *)
(* to a PCF8574.  Every line is a pin of the expander, set by a direct     *)
(* call of pcf8574_gpio_set, past gpiolib: pin 0 is enable, pin 1 the      *)
(* register select.  lcd_send_byte walks through the bits of the byte but  *)
(* gives each of them to pin 2.                                            *)
(*                                                                         *)
(* The function is declared extern here; the one of that name in pcf8574.c *)
(* is static and its EXPORT_SYMBOL is commented out, so the two modules do *)
(* not link as they are.  The model takes the body of that one for it.     *)
(*                                                                         *)
(* driver_write, ModuleInit and ModuleExit may be at work at once, and a   *)
(* call of pcf8574_gpio_set is not atomic either: it loads the shadow,     *)
(* stores it, and transfers a byte that may be loaded again.               *)
(***************************************************************************)
EXTENDS Integers, Sequences

CONSTANTS
    LcdWriters,     \* the processes inside driver_write
    Insmod,         \* the thread that runs ModuleInit and ModuleExit
    BusErrors,      \* whether a transfer may fail
    TopBit,         \* the number of the last bit of a byte: 7 in the code
    Hello,          \* the text of ModuleInit, a sequence of bytes
    LcdBuffer,      \* the size of lcd_buffer: 17 in the code
    LcdOverlaps,    \* a bound on the jobs that meet another one
    LcdInputs       \* what the writers may write

\* A byte is the set of its 1 bits; two of them tell the bytes apart here.
LcdBytes == SUBSET {0, TopBit}

ASSUME LcdI2cAssumption ==
    /\ Insmod \notin LcdWriters
    /\ BusErrors \in BOOLEAN
    /\ TopBit \in Nat /\ LcdBuffer \in Nat /\ LcdOverlaps \in Nat
    /\ Hello \in Seq(LcdBytes) /\ LcdInputs \subseteq Seq(LcdBytes)

LcdThreads == LcdWriters \cup {Insmod}
ExpanderPins == 0..7

VARIABLES
    lcd_module,     \* "absent", "published", "loading", "live", "unloading",
                    \* or "crashed"
    client_made,    \* whether the I2C core has the client
    shadow, latch,  \* gpio_state, and what the expander drives
    chars,          \* lcd_buffer
    lcd,            \* where each thread is
    undisturbed,    \* history: the threads whose job has met no other thread
                    \* and no failed transfer
    met             \* history: how many jobs have met another

lcdVars == <<lcd_module, client_made, shadow, latch, chars, lcd, undisturbed, met>>

\* A thread: the calls of lcd_command and lcd_data of its job and how many it
\* has started, the one it is in, the pins it has yet to set for it, the step
\* of pcf8574_gpio_set, and the byte it holds there.
LcdIdle == [job |-> "none", calls |-> 0, next |-> 0, call |-> [rs |-> 0, byte |-> {}],
            todo |-> <<>>, step |-> "load", held |-> {}]
LcdJob(job, calls) == [LcdIdle EXCEPT !.job = job, !.calls = calls]

InJob(t) == lcd[t].job # "none"
LcdAlone(t) == \A u \in LcdThreads \ {t} : ~InJob(u)

\* Call number k of a job: 0x30, 0xf, 0x1 and the text; 0x1 and the buffer.
Command(byte) == [rs |-> 0, byte |-> byte]
LcdData(byte) == [rs |-> 1, byte |-> byte]
InitCommands == <<Command({}), Command({0}), Command({0})>>
LcdCall(job, k) ==
    CASE job = "init" -> IF k <= 3 THEN InitCommands[k] ELSE LcdData(Hello[k - 3])
      [] job = "write" -> IF k = 1 THEN Command({0}) ELSE LcdData(chars[k - 1])
      [] job = "exit" -> Command({0})

Pin(n, high) == [pin |-> n, high |-> high]

\* Mutant: enable is pulsed before the byte is on its way.
PinsOfByteEarly(c) ==
    <<Pin(1, c.rs = 1), Pin(0, TRUE), Pin(0, FALSE)>>
    \o [k \in 1..(TopBit + 1) |-> Pin(2, k - 1 \in c.byte)]

\* The pins that lcd_command or lcd_data sets: register select, pin 2 for each
\* bit, and enable up and down.
PinsOfByte(c) ==
    <<Pin(1, c.rs = 1)>> \o [k \in 1..(TopBit + 1) |-> Pin(2, k - 1 \in c.byte)]
    \o <<Pin(0, TRUE), Pin(0, FALSE)>>

\* ModuleExit walks through ten pins, of which the byte holds eight.
Parked == [k \in 1..10 |-> Pin(k - 1, FALSE)]
Parking(t) == lcd[t].job = "exit" /\ lcd[t].next = 2
-----------------------------------------------------------------------------
LcdI2cInit ==
    /\ lcd_module = "absent" /\ client_made = FALSE
    /\ shadow = ExpanderPins /\ latch = ExpanderPins
    /\ chars = [k \in 1..LcdBuffer |-> {}]
    /\ lcd = [t \in LcdThreads |-> LcdIdle]
    /\ undisturbed = {} /\ met = 0

\* ModuleInit up to cdev_add; a registration that fails is taken back.
LcdPublish ==
    /\ lcd_module = "absent"
    /\ lcd_module' = "published"
    /\ chars' = [k \in 1..LcdBuffer |-> {}]
    /\ UNCHANGED <<client_made, shadow, latch, lcd, undisturbed, met>>

\* ModuleInit asks for the client and takes its driver data, of which the chip
\* is a part.  The probe of the expander's driver has run by then.
LcdTakeChip ==
    /\ lcd_module = "published" /\ ~client_made
    /\ client_made' = TRUE
    /\ lcd_module' = "loading"
    /\ shadow' = ExpanderPins
    /\ lcd' = [lcd EXCEPT ![Insmod] = LcdJob("init", 3 + Len(Hello))]
    /\ undisturbed' = {Insmod}
    /\ UNCHANGED <<latch, chars, met>>

\* No result is looked at: not of a client without a driver, nor of one that is
\* refused, because its address is in use or ModuleExit has left it behind.
LcdChipless ==
    /\ lcd_module = "published"
    /\ client_made' = TRUE
    /\ lcd_module' = "crashed"
    /\ UNCHANGED <<shadow, latch, chars, lcd, undisturbed, met>>

\* driver_write is called between cdev_add and the chip, which is still NULL.
LcdWriteEarly(w) ==
    /\ lcd_module = "published"
    /\ lcd_module' = "crashed"
    /\ UNCHANGED <<client_made, shadow, latch, chars, lcd, undisturbed, met>>

\* A job starts; those that it meets are disturbed.
LcdStarts(t, job, calls) ==
    /\ ~InJob(t)
    /\ lcd' = [lcd EXCEPT ![t] = LcdJob(job, calls)]
    /\ undisturbed' = IF LcdAlone(t) THEN {t} ELSE {}
    /\ met' = IF LcdAlone(t) THEN met ELSE met + 1
    /\ met' <= LcdOverlaps

\* driver_write: the bytes are copied, or zero bytes in their place, and sent.
LcdWrite(w, text) ==
    /\ lcd_module \in {"loading", "live"}
    /\ LET to_copy == IF Len(text) < LcdBuffer THEN Len(text) ELSE LcdBuffer
       IN  /\ LcdStarts(w, "write", 1 + to_copy)
           /\ \E copied \in 0..to_copy :
                chars' = [k \in DOMAIN chars |->
                            IF k <= copied THEN text[k]
                            ELSE IF k <= to_copy THEN {} ELSE chars[k]]
    /\ UNCHANGED <<lcd_module, client_made, shadow, latch>>

\* ModuleExit, when no process has the file open.
LcdUnload ==
    /\ lcd_module = "live" /\ \A t \in LcdThreads : ~InJob(t)
    /\ lcd_module' = "unloading"
    /\ LcdStarts(Insmod, "exit", 2)
    /\ UNCHANGED <<client_made, shadow, latch, chars>>

\* The next call of lcd_command or lcd_data, or the walk through the pins.
LcdCallStarts(t) ==
    /\ InJob(t) /\ lcd[t].todo = <<>> /\ lcd[t].next < lcd[t].calls
    /\ LET k == lcd[t].next + 1
           c == LcdCall(lcd[t].job, k)
       IN  lcd' = [lcd EXCEPT ![t].next = k, ![t].call = c,
                     ![t].todo = IF lcd[t].job = "exit" /\ k = 2 THEN Parked
                                 ELSE PinsOfByte(c)]
    /\ UNCHANGED <<lcd_module, client_made, shadow, latch, chars, undisturbed, met>>

\* pcf8574_gpio_set loads the shadow and changes a bit of it ...
LcdLoads(t) ==
    /\ lcd[t].todo # <<>> /\ lcd[t].step = "load"
    /\ LET p == Head(lcd[t].todo)
       IN  lcd' = [lcd EXCEPT ![t].step = "store",
                     ![t].held = IF p.high THEN shadow \cup {p.pin}
                                 ELSE shadow \ {p.pin}]
    /\ UNCHANGED <<lcd_module, client_made, shadow, latch, chars, undisturbed, met>>

\* Mutant: the shadow is not stored.
LcdStoresNothing(t) ==
    /\ lcd[t].step = "store"
    /\ lcd' = [lcd EXCEPT ![t].step = "send"]
    /\ UNCHANGED <<lcd_module, client_made, shadow, latch, chars, undisturbed, met>>

\* ... stores it ...
LcdStores(t) ==
    /\ lcd[t].step = "store"
    /\ shadow' = lcd[t].held
    /\ lcd' = [lcd EXCEPT ![t].step = "send"]
    /\ UNCHANGED <<lcd_module, client_made, latch, chars, undisturbed, met>>

\* ... and transfers it, or what the shadow holds by then.  A transfer that
\* fails is not noticed.
LcdSends(t) ==
    /\ lcd[t].step = "send"
    /\ \/ latch' \in {lcd[t].held, shadow} /\ UNCHANGED undisturbed
       \/ BusErrors /\ undisturbed' = undisturbed \ {t} /\ UNCHANGED latch
    /\ lcd' = [lcd EXCEPT ![t].step = "load", ![t].todo = Tail(@), ![t].held = {}]
    /\ UNCHANGED <<lcd_module, client_made, shadow, chars, met>>

\* driver_write, ModuleInit or ModuleExit returns.
LcdReturns(t) ==
    /\ InJob(t) /\ lcd[t].todo = <<>> /\ lcd[t].next = lcd[t].calls
    /\ lcd_module' = CASE lcd[t].job = "init" -> "live"
                       [] lcd[t].job = "exit" -> "absent"
                       [] OTHER -> lcd_module
    /\ lcd' = [lcd EXCEPT ![t] = LcdIdle]
    /\ undisturbed' = undisturbed \ {t}
    /\ UNCHANGED <<client_made, shadow, latch, chars, met>>

LcdI2cNext ==
    \/ LcdPublish \/ LcdTakeChip \/ LcdChipless \/ LcdUnload
    \/ \E w \in LcdWriters :
         LcdWriteEarly(w) \/ \E text \in LcdInputs : LcdWrite(w, text)
    \/ \E t \in LcdThreads :
         LcdCallStarts(t) \/ LcdLoads(t) \/ LcdStores(t) \/ LcdSends(t)
         \/ LcdReturns(t)

LcdI2cSpec == LcdI2cInit /\ [][LcdI2cNext]_lcdVars
-----------------------------------------------------------------------------
\* The places at which a call sets pin p, and the pins as it leaves them: those
\* that it sets have the level it gave them last, the others are high.
Settings(c, p) == {k \in DOMAIN PinsOfByte(c) : PinsOfByte(c)[k].pin = p}
LeftHigh(c) ==
    {p \in ExpanderPins :
       \A k \in Settings(c, p) :
         (\A j \in Settings(c, p) : j <= k) => PinsOfByte(c)[k].high}

\* A job that meets no other one and no failed transfer gives the display clean
\* edges, whatever overlapped and failed before it: when a call takes enable
\* down, enable was up and it is the only pin that moves, every pin that the call
\* set has the level it was given last, and the pins that no call sets are high;
\* and ModuleExit leaves every pin low.  That the pins carry the whole byte is no
\* part of it: lcd_send_byte gives every bit to one pin.
EdgeIsClean ==
    [][\A t \in LcdThreads :
         t \in undisturbed /\ t \in undisturbed' /\ lcd[t].step = "send"
         /\ lcd'[t].todo = <<>> =>
           IF Parking(t) THEN latch' = {}
           ELSE latch' = LeftHigh(lcd[t].call) /\ latch = latch' \cup {0}]_lcdVars
=============================================================================
