----------------------------- MODULE CharDrivers -----------------------------
(***************************************************************************)
(* The scripts of the character drivers: GPIO_drv/gpio2.c, LCD_drv/lcd.c,  *)
(* LCD_drv/lcd_j.c, LCD_drv/lcd_my.c, LCD_drv/lcd_4bit.c,                  *)
(* fops_char_drv/read_write.c, fops_char_drv/read_write_my.c and           *)
(* char_drv/dev_nr.c.  Of the ten (or six) lines of a display the model    *)
(* keeps the register select line and the last data line.                  *)
(***************************************************************************)
EXTENDS CharModules, SequencesExt

Of(kind, id) == [kind |-> kind, id |-> id]
Pin(id) == Of("pin", id)
DisplayPins == <<Pin("30"), Pin("26")>>

\* The device number, class, device file and cdev of driver m, whose class has
\* the name c, as they are acquired, and as the labels from AddError on release
\* them: the cdev is not among them.
Registered(m, c) == <<Of("region", m), Of("class", c), Of("node", m), Of("cdev", m)>>
AddError(m, c) == <<Of("node", m), Of("class", c), Of("region", m)>>

\* Mutant: ModuleExit leaves the cdev in the kernel.
ExitKeepsCdev(m, c) == AddError(m, c)

Exit(m, c) == <<Of("cdev", m)>> \o AddError(m, c)

Steps(do, resources) ==
    [k \in 1..Len(resources) |-> [do |-> do, res |-> resources[k]]]

\* The unwinding of a ModuleInit: none before the device number is there, the
\* steps that are not noticed never fail, then the lists that follow.
Unwinds(lists) == <<<<>>, <<>>, <<>>, <<>>>> \o lists

\* read_write.c acquires no pins and adds its cdev last.
ReadWrite ==
    LET m == "read_write"  c == "MyModuleClass"
    IN  [init |-> Steps("take", Registered(m, c)), unwind |-> Unwinds(<<>>),
         exit |-> Exit(m, c)]

\* read_write_my.c runs on into its error labels and returns 0.  Its device
\* number is never given back: unregister_chrdev looks for a major number that
\* does not exist, and ModuleExit asks for the one of dev_nr.c.
ReadWriteMy ==
    LET m == "read_write_my"  c == "MyModuleClass"
    IN  [init |-> Steps("take", Registered(m, c))
                    \o Steps("drop", <<Of("node", m), Of("class", c)>>),
         unwind |-> Unwinds(<<<<>>, <<>>>>),
         exit |-> <<Of("cdev", m), Of("node", m), Of("class", c), Of("major", "160")>>]

\* dev_nr.c asks for the major number 160.
DevNr == [init |-> Steps("take", <<Of("major", "160")>>), unwind |-> <<<<>>>>,
          exit |-> <<Of("major", "160")>>]

\* Mutant: the failed request of GPIO_R jumps to GpioRError.
Gpio2FreesR ==
    LET m == "gpio2"  c == "GPIOModuleClass"  w == Pin("49")  r == Pin("30")
        add == AddError(m, c)
    IN  [init |-> Steps("take", Registered(m, c) \o <<w>>) \o Steps("output", <<w>>)
                    \o Steps("take", <<r>>) \o Steps("output", <<r>>),
         unwind |-> Unwinds(<<add, <<w>> \o add, <<r, w>> \o add, <<r, w>> \o add>>),
         exit |-> <<r, w>> \o Exit(m, c)]

\* gpio2.c: when GPIO_R cannot be requested, AddError forgets GPIO_W.
Gpio2 ==
    LET m == "gpio2"  c == "GPIOModuleClass"  w == Pin("49")  r == Pin("30")
        add == AddError(m, c)
    IN  [init |-> Steps("take", Registered(m, c) \o <<w>>) \o Steps("output", <<w>>)
                    \o Steps("take", <<r>>) \o Steps("output", <<r>>),
         unwind |-> Unwinds(<<add, <<w>> \o add, add, <<r, w>> \o add>>),
         exit |-> <<r, w>> \o Exit(m, c)]

\* Mutant: lcd.c skips one pin too many after a failed request.
PinsBelowPrevious(i) == Reverse(SubSeq(DisplayPins, 1, i - 2))

\* GpioInitError counts down from the pin whose request failed; lcd_my.c steps
\* down before it frees the first one.
PinsFrom(i) == Reverse(SubSeq(DisplayPins, 1, i))
PinsBelow(i) == Reverse(SubSeq(DisplayPins, 1, i - 1))

LastPin == Len(DisplayPins)
FreedFrom == [i \in 1..LastPin |-> PinsFrom(i)]
FreedBelow == [i \in 1..LastPin |-> PinsBelow(i)]

\* A display: the pins are requested, then made outputs.  What is freed when
\* the request of pin i fails, when a direction fails, and in ModuleExit.
Display(m, c, requestError, directionError, exit) ==
    [init |-> Steps("take", Registered(m, c) \o DisplayPins)
                \o Steps("output", DisplayPins),
     unwind |-> Unwinds([k \in 1..(2 * LastPin) |->
                   (IF k <= LastPin THEN requestError[k] ELSE directionError)
                     \o AddError(m, c)]),
     exit |-> exit \o Exit(m, c)]

Lcd == Display("lcd", "TESTLCDModuleClass", FreedFrom, PinsFrom(LastPin), DisplayPins)
LcdJ == Display("lcd_j", "LCDjModuleClass", FreedFrom, PinsFrom(LastPin), DisplayPins)

\* lcd_my.c: the last pin is forgotten when a direction cannot be set.
LcdMy == Display("lcd_my", "LCDModuleClass", FreedBelow, PinsBelow(LastPin), DisplayPins)

\* lcd_4bit.c counts from 6, and in ModuleExit to 9, in a table of six pins.
Lcd4Bit == Display("lcd_4bit", "TESTLCDModuleClass", FreedFrom,
                   <<Beyond>> \o PinsFrom(LastPin), Append(DisplayPins, Beyond))

AllDrivers ==
    [gpio2 |-> Gpio2, lcd |-> Lcd, lcd_j |-> LcdJ, lcd_my |-> LcdMy,
     lcd_4bit |-> Lcd4Bit, read_write |-> ReadWrite,
     read_write_my |-> ReadWriteMy, dev_nr |-> DevNr]
-----------------------------------------------------------------------------
\* Every variable has its type; a module that is absent holds nothing.
TypeOK ==
    /\ present \in Selections
    /\ state \in [Modules -> States]
    /\ \A m \in Modules :
         /\ next[m] \in 1..(Len(Driver[m].init) + 1)
         /\ rest[m] \in Releases
         /\ held[m] \subseteq Resource
         /\ state[m] = "absent" => held[m] = {} /\ rest[m] = <<>>
    /\ my_class \in [Modules -> {"unset", "class", "error", "freed"}]
    /\ orphans \subseteq Resource
    /\ file \in [Users -> Modules \cup {NoFile, FreedCode}]

\* A file is left open on freed code only by a driver that can still fail
\* after it has published its cdev: never by read_write.c or dev_nr.c, whatever
\* order users, rmmod and the other modules take.
StrandedOnlyByLateFailure ==
    [][\A u \in Users : file[u] \in Modules /\ file'[u] = FreedCode =>
         file[u] \notin {"read_write", "read_write_my", "dev_nr"}]_vars

\* What the modules leave behind for ever is this and no more: cdevs of the
\* GPIO drivers, GPIO_W of gpio2.c, the last line of lcd_my.c and the device
\* number of read_write_my.c.
LeaksAreKnown ==
    \A r \in orphans :
      \/ r \in {Of("cdev", m) : m \in {"gpio2", "lcd", "lcd_j", "lcd_my", "lcd_4bit"}}
      \/ r \in {Pin("49"), DisplayPins[LastPin], Of("region", "read_write_my")}

\* ModuleExit gives back everything the module holds, but for the device
\* number of read_write_my.c.
ExitReturnsAll ==
    [][\A m \in Modules : state[m] = "exit" /\ state'[m] = "absent" =>
         held[m] \subseteq {Of("region", "read_write_my")}]_vars

\* A module loses a pin or its major number while it is coming up or up only
\* in a system that loads lcd.c, lcd_j.c or lcd_4bit.c, whose labels free a pin
\* that was refused to them, or read_write_my.c, which unregisters the number
\* of dev_nr.c.  gpio2.c and lcd_my.c share pin 30 and never lose it to each
\* other, in whatever order they fail, retry and leave.
ForeignReleases ==
    [][\A m \in Modules : state[m] \in {"init", "live"} =>
         \A r \in held[m] \ held'[m] :
           \/ Initialising(m, "drop") /\ Step(m).res = r
           \/ r.kind = "pin" /\ present \cap {"lcd", "lcd_j", "lcd_4bit"} # {}
           \/ r.kind = "major" /\ "read_write_my" \in present]_vars

\* A module that is up has its device number, class, device file and cdev:
\* "Can not create device file!" makes ModuleInit fail.
LiveMeansRegistered ==
    \A m \in Modules \ {"dev_nr"} : state[m] = "live" =>
      {"region", "class", "node", "cdev"} \subseteq {r.kind : r \in held[m]}
=============================================================================
