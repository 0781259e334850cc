# A TLA+ model of the BeagleBone drivers

The repository is a collection of small Linux drivers written for the
BeagleBone Black: character drivers on GPIOs, an HD44780 display on eight or on
four lines, a PCF8574 port expander, BMP280 sensors on SPI and I2C, an HC-05
Bluetooth module on a serial port, and three drivers of the Linux kernel kept
beside them as references.  None of the repository's own drivers takes a lock.
This directory models the drivers in TLA+, checks the models with TLC and
proves theorems about them with TLAPS.

## The system

| component | state | operations | what makes it correct |
|---|---|---|---|
| PCF8574 expander (`pcf8574.c`) | `gpio_state`, a shadow of the chip's latch | probe, remove, `gpio_set`, `gpio_get`, `direction_input`, `direction_output` | shadow and latch agree; a pin changes only when its owner asks |
| HD44780 on GPIOs (`lcd.c`, `lcd_j.c`, `lcd_my.c`, `lcd_4bit.c`) | `lcd_buffer`, ten lines (six), the display | `driver_write`, `ModuleInit`, `ModuleExit` | the display shows the text of the last write and stays in step with the driver |
| HD44780 on the expander (`lcd_i2c.c`) | the same, every line a pin of the PCF8574 | the same | the same, over the expander's promises |
| Character devices (`read_write.c`, `read_write_my.c`, `dev_nr.c`, and the GPIO drivers' registration) | device number, class, device file, cdev, pins, open files | `ModuleInit` with its goto unwinding, `ModuleExit`, open, release | what is acquired is released once, by its owner, and never while in use |
| Character buffer (`read_write.c`, `read_write_my.c`) | `buffer`, `buffer_pointer` | `driver_read`, `driver_write` | a read returns bytes of one write |
| Button and LED (`gpio2.c`) | two pins | `driver_read`, `driver_write` | the LED follows the last write |
| BMP280 on SPI (`bmp280_spi.c`, `bmp280_spi_simple.c`) | one message, its transfers, `rx_buf`, `tx_buf` | probe, remove, `read_raw` | a reading is made of the bytes of its own registers, and fails exactly if one of its messages does |
| BMP280 on I2C (`bmp280.c`) | calibration | probe, `read_raw` | the same |
| HC-05 (`hc05_uart/hc05.c`, `hc05/serdev.c`, `hc05/test.c`) | the serial device | probe, remove, receive | every byte is consumed once |
| I2C ADC with a proc file (`dt_i2c.c`) | a global client and proc file | probe, remove, read, write | the file of a client reaches that client |
| MediaTek Bluetooth (`btmtkuart.c`) | `txq`, the bits of `tx_state`, `tx_work`, `stp_pad`, power and clock | open, setup, send, flush, shutdown, close, remove, `write_wakeup`, `receive_buf` | frames leave once and in order, every waiter is woken, what is powered up is powered down |
| Atheros Bluetooth (`hci_ath.c`) | `txq`, `ctxtsw`, `HCI_UART_SENDING` | open, enqueue, dequeue, flush, close | a queued frame is never left alone |
| `adc7923.c`, templates, test programs | | | not modelled, see the end |

How they interact: user processes reach the character drivers through device
files, so several of them are inside one driver at a time; gpiolib and its
consumers call the expander's handlers concurrently; `lcd_i2c.c` is itself a
consumer of the expander, and takes its chip from it.  The GPIO drivers share
pins (30 is the button of `gpio2.c` and the register select line of the
displays), and `lcd.c` and `lcd_4bit.c` share a class name.

What is hard: every read-modify-write and every multi-step output runs
unlocked; results of bus transfers are ignored; devices are published before
they are initialised; error paths release what belongs to others or forget what
they own.  `PROJECT.json` lists each of these hazards at its line.

## The modules

* `PinLatch` is what a GPIO port promises: each pin is a register of its own.
* `Pcf8574` is `pcf8574.c`.  `gpio_state` is the field of that name, `port` the
  chip's latch; a call of `pcf8574_gpio_set` is `SetLoad` (the load of the
  shadow), `SetStore`, `SetArgument` (the argument of the transfer, which the
  compiler may load again) and `I2cWrite` or `I2cFail`.  A byte is a set of
  pins.  `asked`, `solo` and `dirty` are history variables, read by no guard.
* `Pcf8574_proofs` holds the theorems about it.
* `Hd44780` is the display, as far as the drivers use it (external).
* `LcdBus` is the four drivers that wire it to GPIOs.  A thread is inside
  `driver_write`, `ModuleInit` or `ModuleExit` and takes one step per
  `gpio_set_value`: `SelectRegister`, `SetLine` (eight or four times),
  `EnableHigh`, `EnableLow`.  `Load` only publishes the device file; from then on
  writers may come, while `DriveLine` lowers one line after the other and the calls
  of `ModuleInit` follow.  What a pulse does to the display before the lines are
  outputs is left open (`Unsettled`: nothing, or any set-up, half byte and text).
  `given`, `fit`, `steady` and `overlaps` are history variables; only `overlaps`
  bounds a guard.
* `LcdVariants` lists the lines each `ModuleInit` lowers and what it sends to the
  display.
* `LcdBus_proofs` holds the theorems about it.
* `CharModules` runs the life of a module: `Take` and `TakeFails` walk through
  the acquisitions of `ModuleInit`, `Output` and `OutputFails` set the
  directions of the pins, `Drop` is a release on the way, `Release` follows a
  goto label or `ModuleExit`, `Gone` is the return to the kernel, which frees
  the module's memory.  Users `Open` and `Close` the file meanwhile, and a
  release that follows a pointer to nowhere may `Crash`.  `held` is what a
  module has registered, `orphans` what nobody is left to release.
* `CharDrivers` lists what each of the eight drivers acquires, in its order,
  what each of its labels releases, and its `ModuleExit`; `CharModules` is
  instantiated with that list.
* `Bmp280Spi` is `bmp280_spi.c`.  A reader inside `bmp280_read_raw` fills
  `ring_xfer` (`Fill`), clears and links the message (`MessageInit`,
  `AddTail`), enters `spi_sync` (`Sync`), which carries out the list
  (`Transfer`, `TransferFails`, `Complete`) and returns (`Wake`), and copies
  `rx_buf` (`Copy`); then it does all of this again for the calibration.  The
  message is a list linked through its elements, as in the SPI core, so that
  two readers can tie it into a knot.  A byte is the register it was read from.
  `chip` is the sensor's side of the chip select: the first byte after its
  selection is the address of a register, every further one moves it on.
  `StaysSelected` is what the SPI core makes of `cs_change`: between transfers it
  deselects for a moment, after the last one it asks to keep the sensor selected.
  Not every controller heeds that request, so `KeepsSelected` leaves it open.
* `FrameChannel` is what a transmit path promises: frames leave once, in the
  order in which they were accepted, and a flush may spare the oldest.
* `BtmtkUart` is the transmit and power side of `btmtkuart.c`.  Three callers are
  inside `btmtkuart_tx_wakeup` (`WakerTests`, `WakerFlags`, `WakerSchedules`),
  one work item moves frames (`WorkStarts` to `WorkEnds`), and one thread powers
  the device up, sends vendor commands (`WmtSend`, `WmtAnswered`, `WmtGivesUp`),
  flushes (`FlushPurges`, `FlushCancels`, `FlushWaits`) and closes.  A step is
  one access to shared state.  The bits of `tx_state` are `active`, `wakeup` and
  `wait_vnd`.  `by`, `open_failed` and `late` are history variables.
* `BtmtkStp` is its receive side: `StpTurn` is one turn of the loop of
  `btmtkuart_recv` with `mtk_stp_split` in it.  Beside it runs a decoder that
  reads the same bytes one at a time (`RefByte`, `RefAfter`).
* `HciAth` is the transmit path of `hci_ath.c` inside `hci_uart`: the sender
  (`AthEnqueue`, `AthSetsSending`, `AthSchedules`, `SenderWakes`), the work item
  `ctxtsw` and the write work of `hci_uart`, which is external.
* `SerdevEcho` is the receive functions of the HC-05 drivers with the serial
  core that offers again what was not consumed.  A byte is its place in the stream;
  `echoed` is what the echo has sent back, `turnedAway` whether the last call found
  a port without room (both history).
* `Bmp280Regs` is `bmp280_spi_simple.c` and `bmp280.c`: readers whose buffers
  are their own, over a sensor that converts meanwhile and a bus that fails.
* `Bmp280Math` is the arithmetic that all BMP280 drivers share, over words of
  a fixed width, beside the same formula over signed numbers.
* `DtI2c` is `dt_i2c.c`: devices come and go while processes use the file.
* `CharBuffer` is the buffer of `read_write.c` and `read_write_my.c`, byte by
  byte; `Gpio2Led` is the button and the LED of `gpio2.c`.
* `LcdI2c` is `lcd_i2c.c`: a call of `lcd_command` or `lcd_data` becomes the
  list of pins it sets (`PinsOfByte`), and each of them is a load, a store and a
  transfer of `pcf8574_gpio_set`.  `lcd_i2c.c` declares that function extern, and
  in `pcf8574.c` it is static with its `EXPORT_SYMBOL` commented out, so the two do
  not link as they are; the model takes the body of the one for the other.
* `Boards` puts the eight smaller drivers in one specification, one per board;
  they share no state.  `BtmtkUart` is checked on its own.
* `CharDrivers_proofs`, `Bmp280Spi_proofs` and `HciAth_proofs` hold the theorems
  about the modules they are named after, `BtmtkUart_proofs` those about
  `BtmtkUart` and `BtmtkStp`, `Bmp280Math_proofs` those about `Bmp280Math` and
  `Bmp280Regs`, `Devices_proofs` those about `SerdevEcho`, `Gpio2Led`, `DtI2c`,
  `CharBuffer` and `LcdI2c`.
* `MCPcf8574`, `MCLcdBus`, `MCCharDrivers`, `MCBmp280Spi` and `MCBoards` give
  the constants values for TLC; `MCBoards` also evaluates the arithmetic of
  `Bmp280Math` on samples, as assumptions.

Operators whose comment starts with "Mutant" are bugs a driver might have; each
property is checked to fail when one of them replaces the definition after it.
No specification uses them.

## The runs

Each configuration answers one question.

| configuration | bounds | what it shows |
|---|---|---|
| `Pcf8574Contended` | two consumers, three pins, failing transfers, rebinding | no pin that nobody asked to go low is ever low (`NoInventedLevel`); one undisturbed call repairs shadow and latch (`SelfHealing`), and moves its own pin and no other unless they had parted before (`LoneCallIsOnePin`); every call returns |
| `Pcf8574Overlap` | two consumers, no errors | `ShadowIsPort` is violated |
| `Pcf8574Input` | one consumer, one input | `GetReadsPin` is violated |
| `Lcd` | two writers and the loader, `lcd.c` and `lcd_my.c`, one overlap, partial copies | a write that runs alone shows the bytes it was given whatever overlapped before, on a display that is on if nothing has overlapped since `ModuleInit`; only an overlap changes the width of the interface or turns the display on or off; `ModuleExit` blanks the display; the enable line rests low |
| `LcdOff` | one writer of `lcd_j.c` | `DisplayShowsWrite` is violated |
| `LcdFourLines` | one writer of `lcd_4bit.c` | `DisplayShowsWrite` is violated |
| `CharDrivers` | six pairs of drivers, one user, every acquisition may fail | what is leaked, taken from another module or left open on freed code is exactly what the properties name |
| `CharDriversLive` | `read_write.c` alone | `LiveMeansRegistered` is violated |
| `Bmp280Spi` | two readers, one overlap, failing transfers, a controller that deselects after a message | a call that runs alone reads its own registers of a sensor that converts, reports its own errors and returns, whatever an overlap has left in the shared message, transfers and buffer |
| `Bmp280SpiSelected` | one reader, no errors, a controller that heeds `cs_change` after a message | `LoneReading` is violated |
| `BtmtkUart` | one data frame of two units through a port that takes one, a controller that answers late or never, resets, removal, failing opens | power and clock are held exactly while the device is open; frames leave in order; set-up goes on only after an event; no step leaves frames in the queue that nobody is going to look at (`NoFrameStranded`); a queued frame that somebody is going to look at is sent; the power thread returns; only `write_wakeup` makes work run on a device that is gone |
| `Boards` | the eight smaller drivers, see below | the promise of each: `NothingStranded`, `AthQueuedLeaves`, `AthChannelSpec`; `StpTypeOK`, `HandsPayload`; `NoByteLost`; `GoodReading`, `ErrorsStayPut`; `FileIsServed`; `ReadsWhatWasWritten`; `LedAsReported`; `EdgeIsClean` |

Why the bounds are enough:

* A call of the expander driver touches one shared byte, and two calls already
  reach every order of load, store, argument and transfer; the third pin shows
  what happens to a pin that neither owns.
* On the display, `MaxOverlaps` counts the calls that find another thread
  inside.  After one overlap in every interleaving, the run lets any further
  calls run alone.  A second overlap starts from a display and lines that the
  first one can already have left behind.  The overlap may begin as soon as the
  file is published: the lines that `ModuleInit` lowers meanwhile are a writer's
  lines.  `BufferSize` 2 and texts of one and
  three bytes reach a write that fits and one that is cut; `Cells` 3 reaches a
  display that is full.  Of the two characters one, latched as an instruction,
  is an address and the other a function set to four lines, which is what loses
  the interface; a backspace among them is the instruction that turns the display
  off, which is what an overlap turns it off with.
* The pairs of `CharDrivers` are the ones that share a pin, a class name or a
  major number, one for each combination of error paths; drivers that share
  nothing do not meet.  Of a display's ten pins the model keeps two, so that an
  unwinding has a first and a last.
* `Bmp280Spi` keeps a list of one command and one of two, and bursts of
  different lengths; the driver's are 3, 6, 3 and 18.

* `BtmtkUart`: one data frame, the vendor commands and the command of a reset
  already meet in every order in the queue; `FrameLen` 2 with `Room` 1 makes the
  port refuse a rest, and two units are the fewest for which a put-back frame can
  be overtaken.  `MaxPieces` 0 leaves the two commands that follow the firmware:
  more pieces repeat the same wait.  `MaxAnswers` 1 is a late event that meets
  the next command; with 2 the properties hold as well, but the run takes too
  long to be kept.  (Two late events can bring the device up while the rest of a
  frame from before the reset waits unseen, which is why `QueuedIsSent` speaks of
  frames that are `Attended`.)  Data is sent while the device is up and during a reset; a
  device is opened when no earlier failure holds its port; setting a flag and
  scheduling the work, and testing and clearing it, are one step each, as no
  other step can tell; the command of a reset gets its buffer.  `hci_dev`, the
  serial port and the controller are external.
* `Boards`: the queue of `hci_ath.c` has room for two of one data frame and the
  two sleep commands, its assignment of `cur_sleep` and `skb_queue_tail` are one
  step; the STP stream has two values of a byte, payloads up to two and pieces up
  to six bytes, so that a header may end anywhere in a piece; five bytes reach
  the HC-05 and its port takes two; two readers of a sensor meet two conversions;
  three devices, one of them at another address, and two processes meet in
  `dt_i2c.c`; two processes share a buffer of two bytes with counts up to three,
  two an LED; `lcd_i2c.c` runs with one writer against `ModuleInit` and
  `ModuleExit`, one overlap, and bytes of their lowest and their last bit
  (`TopBit` 1 stands for 7), and ends where it follows a null or error pointer.

Deadlock is checked except where the system really stops: a device whose
`gpio_chip` was not registered, a module that has crashed with its files open,
an SPI bus that stays locked, a sensor driver or a display that has followed an
error pointer, a driver that is unloaded, a device that is removed.  In the violation runs TLC stops at the state
that shows the violation.

### What the violations say

* `Pcf8574Overlap`: two consumers of different pins leave `gpio_state` and the
  chip apart after both calls have returned.  `pcf8574.c:24` loads, changes and
  stores the byte without a lock and sends it later.
* `Pcf8574Input`: `gpio_get` returns the shadow, never the pin.
* `LcdOff`: `ModuleInit` of `lcd_j.c` turns the display on, as the comment at
  `lcd_j.c:220` says, and the next instruction, 0x08, turns it off again: nobody
  sees what is written.
* `LcdFourLines`: `lcd_4bit.c` sends the lower nibble first, against its own
  comment, and an odd number of nibbles at initialisation.
* `Bmp280SpiSelected`: the last transfer of every message has `cs_change` 1
  (`bmp280_spi.c:83`, `:117`, `:201`, `:254`).  A controller that heeds this keeps the
  sensor selected, which takes the address at the head of the next message for one
  more byte of the burst: the calibration is read from the registers behind the
  measurement (250 and on, not 142 and on).
* `CharDriversLive`: error pointers are compared with `NULL`, so a module is up
  without its device file.

## Fairness

`Pcf8574` and `Bmp280Spi` have a `FairSpec`: weak fairness of the steps of a
thread that is inside a call.  The scheduler runs every thread, and the only
thing a call waits for is the adapter or controller, which completes or times
out each transfer; no transfer has to fail.  The bus of `Bmp280Spi` is also waited for, but the liveness
property is about calls that meet no other one.  Probing, unbinding and calling
are never fair: nothing in the code makes them happen.  `LcdBus` and
`CharModules` claim no liveness.

`BtFairness` is weak fairness of the work item, of every caller inside
`btmtkuart_tx_wakeup`, of the port, which sends what it holds and calls back,
and of the thread that powers the device: a workqueue runs what is scheduled, a
UART sends what it holds, and the wait for a vendor event has a
time-out.  The controller is never made to answer.  `AthFairness` is the same
for the sender, `ctxtsw`, the write work and the port; whether CTS is raised is
left open, and `AthQueuedLeaves` names that exception.  `SerdevFairness` lets
the serial core offer what it holds.

## What is proved

TLAPS proves these for every value of the constants, under the assumptions the
modules state about them: `PinsAssumption` (no two consumers own one pin),
`LcdAssumption` and `CellsAssumption` (the buffer and the display have room for
something, the calls of `ModuleInit` are calls), `BtAssumption` (frames and
rooms have at least one unit, the names of frames differ), `AthAssumption`,
`DtAssumption`, `SerdevAssumption`, `StpAssumption`, `BufferAssumption`,
`LcdI2cAssumption`, `Bmp280Assumption`, `SpiAssumption` (the commands and their
answers fit the driver's arrays, no reader has the name of a state of the bus),
`CharAssumption` (the scripts are lists of steps and releases) and `WordAssumption` (a word is a multiple of
2^19, as 2^32 is).  Four theorems about the character drivers are about the
scripts of the eight drivers and say so with the hypothesis
`Driver = AllDrivers`, under which TLC runs them too; which drivers are loaded
together, how many users there are and what may fail stay open.  Three theorems
about the display are about the drivers with eight data lines (`EightWires`),
`WritesAreShown` about those of them whose `ModuleInit` leaves the display on
(`LeavesOn`), as the run that checks the same properties is.  Two theorems about
`Pcf8574` take one consumer, no errors and no rebinding (`Exclusive`), and
`LoneCallsReadTheirRegisters` a controller with `~KeepsSelected`.

| theorem | module | statement |
|---|---|---|
| `TypeCorrect` | `Pcf8574_proofs` | `Spec => []TypeOK` |
| `LevelsAreAsked` | `Pcf8574_proofs` | `Spec => []NoInventedLevel` |
| `OneCallRepairs` | `Pcf8574_proofs` | `Spec => []SelfHealing` |
| `ShadowExact` | `Pcf8574_proofs` | with one consumer, no errors, no rebinding: `Spec => []ShadowIsPort` |
| `LoneCallMovesItsPin` | `Pcf8574_proofs` | `Spec => LoneCallIsOnePin` |
| `ImplementsLatch` | `Pcf8574_proofs` | under the assumption of `ShadowExact`: `Spec => LatchSpec`, it implements `PinLatch` |
| `TypeCorrect` | `LcdBus_proofs` | `Spec => []TypeOK` |
| `EnableRests` | `LcdBus_proofs` | `Spec => []EnableParksLow` |
| `WritesAreShown` | `LcdBus_proofs` | with eight lines and a `ModuleInit` that leaves the display on: `Spec => DisplayShowsWrite` |
| `SetupIsKept` | `LcdBus_proofs` | with eight lines: `Spec => SetupOnlyLostByOverlap` |
| `ExitsClear` | `LcdBus_proofs` | with eight lines: `Spec => ExitClears` |
| `PowerStaysBalanced` | `BtmtkUart_proofs` | `BtSpec => []PowerBalanced` |
| `BtTypeCorrect` | `BtmtkUart_proofs` | `BtSpec => []BtTypeOK` |
| `OnlyThePortIsLate` | `BtmtkUart_proofs` | `BtSpec => []LateWorkOnly` |
| `SetupWaitsForEvents` | `BtmtkUart_proofs` | `BtSpec => SetupIsAnswered` |
| `ImplementsChannel` | `BtmtkUart_proofs` | `BtSpec => ChannelSpec`: it implements `FrameChannel` |
| `NobodyStrandsFrames` | `BtmtkUart_proofs` | `BtSpec => NoFrameStranded` |
| `PadNeverOverruns` | `BtmtkUart_proofs` | `StpSpec => []StpTypeOK` |
| `PayloadIsHanded` | `BtmtkUart_proofs` | `StpSpec => []HandsPayload` |
| `AthTypeCorrect` | `HciAth_proofs` | `AthSpec => []AthTypeOK` |
| `FramesAreAttended` | `HciAth_proofs` | `AthSpec => []NothingStranded` |
| `ImplementsChannel` | `HciAth_proofs` | `AthSpec => AthChannelSpec`: it implements `FrameChannel` |
| `FileReachesDevice` | `Devices_proofs` | `DtSpec => []FileIsServed` |
| `EntryStaysFresh` | `Devices_proofs` | `DtSpec => []EntryIsFresh` |
| `BytesAreKept` | `Devices_proofs` | `SerdevSpec => []NoByteLost` |
| `LedFollowsReport` | `Devices_proofs` | `LedSpec => LedAsReported` |
| `EdgesAreClean` | `Devices_proofs` | `LcdI2cSpec => EdgeIsClean` |
| `LastBitsAreShown` | `Devices_proofs` | `LcdI2cSpec => LastBitDecides`: of every byte one bit is shown, the defect of `lcd_i2c.c:77` |
| `ReadsAreWrites` | `Devices_proofs` | `BufferSpec => []ReadsWhatWasWritten` |
| `SpiTypeCorrect` | `Bmp280Spi_proofs` | `Spec => []TypeOK` |
| `ChannelsNeedConversion` | `Bmp280Spi_proofs` | whoever is inside `read_raw` has a sensor that was told to convert |
| `LoneCallsReadTheirRegisters` | `Bmp280Spi_proofs` | with `~KeepsSelected`: `Spec => []LoneReading` |
| `LoneCallsReportTheirErrors` | `Bmp280Spi_proofs` | `Spec => []LoneErrors` |
| `CharTypeCorrect` | `CharDrivers_proofs` | `Spec => []TypeOK`, for any scripts |
| `DriversLeak` | `CharDrivers_proofs` | with the eight drivers: `Spec => []LeaksAreKnown` |
| `ExitsReturnAll` | `CharDrivers_proofs` | with the eight drivers: `Spec => ExitReturnsAll` |
| `StrandedByLateFailures` | `CharDrivers_proofs` | with the eight drivers: `Spec => StrandedOnlyByLateFailure` |
| `ForeignReleasesKnown` | `CharDrivers_proofs` | with the eight drivers: `Spec => ForeignReleases` |
| `GoodTransfersRead` | `Bmp280Math_proofs` | `RegsSpec => []GoodReading` |
| `ErrorsAreMeasured` | `Bmp280Math_proofs` | `RegsSpec => []ErrorsStayPut` |
| `OneRawValue` | `Bmp280Math_proofs` | both ways to put a raw value together agree, and it has 20 bits |
| `FineErrorIsExact` | `Bmp280Math_proofs` | `TFine = SheetFine + FineError` wherever the products fit |
| `ExactAboveReference` | `Bmp280Math_proofs` | above the reference temperature, with `dig_T3 >= 0`, a reading is the data sheet's |
| `ColdReadsHot` | `Bmp280Math_proofs` | below it, with `dig_T2 > 0`, a reading is too high by at least a constant, and by exactly that with `dig_T3 >= 0` |
| `NeverBelowZero` | `Bmp280Math_proofs` | no reading is negative |

The arguments:

* `NoInventedLevel` is not inductive, since a byte on its way to the chip may
  carry any level.  `LevelInv` adds that the byte of every call in progress has
  the pins high that nobody asked to be low.
* `SelfHealing` needs `RepairInv`: a call in progress belongs to a bound driver,
  and one that has been overlapped has already set `dirty`; a call that is still
  on its own carries the shadow once it has stored it.  `LoneCallIsOnePin` follows
  from the same invariant: what such a call sends is the shadow, which is the latch
  with one pin changed if the two agreed when it began.
* `ShadowIsPort` and the refinement need `ExclusiveInv`: before the driver is
  bound the chip is as it was at power-on, and the byte of the only call is the
  latch with its pin changed.  `ImplementsLatch` maps `SetLoad` to `Ask`,
  `I2cWrite` to `TakeEffect` and every other step to a stutter.
* For the display, `IInv` strengthens the types with the structure of the
  threads: which calls a job of the loader or of a writer has left, that a
  thread working on the lines has a pattern to send, and that an enable line
  that is high belongs to a thread about to lower it (`LineInv`).  Lemmas show
  that no byte on the lines takes the display out of its type.
* `FitInv` is what carries a text to the display.  A job in `fit` that is not
  `ModuleInit` is alone on a display of eight lines with no half byte pending;
  the lines hold the byte of the call at hand as far as it has been put on them
  (`OnTheLines`), and the display shows the opening of the buffer, one character
  for each falling edge of enable so far (`Opening`, `Typed`), of which `given` is the part that came from the user.
  `OnInv` adds that the display is on once a `ModuleInit` that met it in step has
  been through its commands, until a job overlaps another (`steady`).  The theorems
  need `EightWires` and, where the text is to be seen, `LeavesOn`; without them
  `LcdFourLines` and `LcdOff` refute `DisplayShowsWrite`.
* For `LcdI2c`, `LcdInv` says that what a thread has yet to set is the end of the
  list of pins of its call (`EndOf`), that the pins above 2 are high while no
  `ModuleExit` is at its pins, and that for an undisturbed job the pins it has
  walked through are as the list has them (`Shows`, `Lowered`): pin 2 is as the
  last bit leaves it once all bits have passed.  `OnEdge` adds that the latch before
  a falling edge is the latch after it with enable up.  `CallEnds` says what the pins
  are at that edge, and `LeftHighPins` that this is what the list of the call asks
  for, which is `EdgesAreClean`; `LastBitsAreShown` is the first half by itself.
  The number of bits and of writers is arbitrary; the failed transfer and the
  overlap take a job out of `undisturbed`, and nothing is claimed for it.

* For `BtmtkUart`, `PowerInv` says which phase holds which resource and where
  the power thread is, `TypeInv` adds to the types that the frame in the worker's
  hand is there exactly while it is written or put back, and that a queued frame
  is one (`FramesStep` proves it for every operation on the queue).  `LateInv`
  adds that on the way down from the last flush nothing is scheduled or running
  unless `write_wakeup` did it.  `AnsweredInv` says that while the thread waits in
  set-up with the bit clear, an event has cleared it.  `ImplementsChannel` maps
  the queue, with the frame in the worker's hand before it, to the channel:
  `WorkWrites` of a whole frame leaves, `Queue` accepts, `FlushPurges` drops the
  queue and spares what the worker holds, and giving a command up renames it,
  which the channel does not see.
* `NoFrameStranded` needs `CancelInv`, that `schedule_work` is refused only
  while `cancel_work_sync` waits.  `AttendedStep` then goes through the steps that take a caller, a run
  of the work item or the port off the queue and names who is still on the way:
  the caller that sets `TX_WAKEUP` has not yet scheduled the work, and a work item
  that ends has found the bit clear.
* `StpTypeOK` is inductive as it stands.
* `HandsPayload` compares two ways to read one stream: `StpTurn` fills the pad in
  pieces and hands on slices, the decoder takes one byte at a time.  `InStep` says
  where the decoder is for each state of the driver: in the trailer and header
  that the pad has begun to collect, with the bytes of the pad, or inside a payload
  with as many bytes to come as `stp_dlen`.  `TurnReads` shows that the bytes of one turn,
  which are a header, a payload and what follows, take the decoder from there to
  where the driver is afterwards.  What a recursive function
  does over a slice of any length (`OneReading`) is proved without an induction
  schema, by the least number at which it would go wrong (`LeastNumber`, from the
  well-foundedness of the order on the naturals).
* For `HciAth`, `RestInv` says that a line that is not open rests, `SendingInv`
  that `HCI_UART_SENDING` has an owner that will clear it, and `FrameInv` that a
  frame has somebody on the way to it; the write work, once it has seen an empty
  queue, counts only if it has been told to look again.
* For `DtI2c`, `FileInv` joins `FileIsServed` and `EntryIsFresh`, neither of which
  is inductive alone, and adds that whoever is inside the file keeps it listed.
* `SerdevInv` adds to `NoByteLost` that the counters are numbers and that no more is
  consumed than was received.  A call of the echo appends the bytes that follow the
  consumed ones (`SendBackKeeps`), and it consumes none only where the port has no
  room, since `Receive` needs a byte to offer.  `LedInv` says that a write that
  asked for its byte and did not get it holds a zero byte, which `LedSet` ignores.
* `BufferInv`: a cell below `buffer_pointer`, or already copied by a call, has been
  reached by a write; a write that meets no other has left its bytes where it has
  come to, and what it leaves stays until the next write begins; a read that meets
  no write is a prefix of it.
* For `Bmp280Spi`, `TypeInv` adds to the types where a thread is in the lists of
  commands and of answers, for lists of any length that fit the arrays.  `LoneInv`
  says, step by step, what a call that meets no other may rely on although nothing
  it uses is its own: `ring_xfer` holds its commands up to where it has filled
  them (`Filled`), the message is the chain of its elements up to where it has
  linked them (`Chain`), the receive buffer has the answers up to where the SPI
  core has come in that chain (`InMessage`), and the status of the message is the
  failure of its own transfers (`LoneErrno`).  It starts from anything: `Fill` and
  `MessageInit` overwrite what an overlap has left, which is why no history is in it.
  The sensor is deselected at the start of the message of a lone call, and its `chip`
  follows the chain (this is where `~KeepsSelected` is needed).
  `ProbeInv` adds that nobody is inside `read_raw` before both writes of the probe
  have succeeded.
* `RegsInv` says for each of the two drivers how far a call is in its own buffers
  and what its bytes are worth: no byte is younger than the last conversion, and
  the bytes are in the order of their conversions.
* For the character drivers, `CharInv` is about any scripts.  It keeps the books of
  a module: it holds nothing that its first steps did not acquire, while it unwinds
  or leaves what it holds is still in the list to be released or was never in that
  list, and so what no module is left to release is what some list forgets
  (`OrphansForgotten`).  `DriversLeak` and `ExitsReturnAll` then need only the lists
  themselves, which the script lemmas (`DisplayScript`, `Gpio2Script` and the
  like) take apart.  `FileInv` adds that a file of `read_write.c`,
  `read_write_my.c` or `dev_nr.c` is open only past the only step that can fail.
  `PinInv` adds for pins and major numbers that no two modules hold the same one,
  and that in a system of `Careful` modules, whose lists free what was acquired,
  each once, a module still holds all it has acquired and all it is going to
  release; so what it releases is never another's.  `CarefulSystems` shows which
  of the eight drivers are careful.
* `Bmp280Math_proofs` follows the wrapped products.  `adc_T` is a `u32`, so the
  product of the linear term wraps below the reference temperature and the right
  shift makes the wrap permanent: for 32-bit words `t_fine` gains 2^21, and a
  reading 409.60 degrees.  A `dig_T3` that is negative in the sensor, where it is
  a signed number, is read as positive and gains four times the squared distance
  over 4096.  The theorems are conditional on products that fit a word, which
  `Fits` names.  TLC evaluates the terms on samples, with a word of 19 bits,
  since its own integers have 32.

Left to TLC: liveness (`CallReturns`, `LoneCallReturns`, `QueuedIsSent`,
`PowerReturns`, `AthQueuedLeaves`), since liveness and
ENABLED are out of the provers' reach.  Every invariant and every action property
that a passing run checks is also the statement of a theorem.

## What the models say about the code

Beyond the six violations above, some properties name an exception because the
code has one:

* `ChannelSpec`, `AthChannelSpec`: `btmtkuart_flush` purges the queue before it
  waits for `tx_work`, which puts the rest of its frame back; half a frame of
  before the reset is sent after it, and until somebody calls
  `btmtkuart_tx_wakeup` again nobody looks at it (`NoFrameStranded` is about the
  phases before `tx_work` has been cancelled).
* `SetupIsAnswered`: a vendor event carries no name, so a late one ends the wait
  of the next command.
* `PowerBalanced`: an `open` that fails behind `serdev_device_open` leaves the
  port open.
* `LateWorkOnly`: `write_wakeup` may schedule `tx_work` between the flush and the
  closing of the port; the work runs on a device that is closed, or gone.
* `NothingStranded`: a controller that does not raise CTS leaves
  `HCI_UART_SENDING` set until another frame is queued.
* `FileIsServed`: a second device at the right address makes `dt_i2c.c` lose the
  entry of the first.
* `DisplayShowsWrite`: after a partial `copy_from_user` the display shows, behind the
  bytes that came from the user, zero bytes that nobody wrote (`lcd.c:103`).  Writes
  that overlap, with each other or with `ModuleInit`, are promised nothing.
* `NoByteLost`: the echo has no `write_wakeup`, so bytes that a full port refused
  wait until the next one arrives.
* `LeaksAreKnown`, `StrandedOnlyByLateFailure`, `ForeignReleases`: each names the
  drivers whose error paths do what the property is against.
* `GoodReading`, `ErrorsStayPut`: `bmp280.c` calibrates the pressure with the
  block of the temperature; `bmp280_spi_simple.c` reports no error at all.
* `LedAsReported`: a write of zero bytes to `gpio2.c` may set the LED.
* `EdgeIsClean` holds the pins against what a call asked of each of them, not
  against the byte: `lcd_i2c.c` gives all bits of a byte to one pin, so the display
  sees the last one only.  That contradicts its comments, "set the 8 bit data bus"
  (`lcd_i2c.c:67`) and "Set the display for 8 bit data interface" (`:232`), and
  `LastBitsAreShown` states it.

## What is not modelled

* Formatting and logging, and the delays around the display's enable line.  The
  display is taken to be ready whenever it is addressed.
* What a call does with memory that has been freed under it, or freed and used
  again: `Pcf8574` unbinds between calls, a `my_class` that is destroyed twice
  crashes or does nothing, but never destroys the class of another module that got
  the same memory, a file left open on freed code can do nothing, and a late
  `tx_work` ends with the model of its device.
* The pressure formula of the BMP280 drivers: `t_fine` is a local variable that is
  0 whenever it is used there, so there is no reference to hold it against.
* Allocations that fail where the driver looks at the result and returns.
* The position of the display's cursor beyond the text itself, and the bits of a
  byte between its lowest and its last in `LcdI2c`; the failures of its
  registration, which unwind as those in `CharDrivers`.
* `driver_read` of `lcd_my.c`, which changes no state: it copies up to seventeen
  bytes out of an array of three.
* `ath_recv` and `ath_set_bdaddr` of `hci_ath.c`: the H4 parser and one command.
* `adc7923.c`, a driver of the Linux kernel that `bmp280_spi.c` was written
  after.  What that driver guards with `iio_device_claim_direct_mode` is what
  `Bmp280Spi` models without the guard.
* `.mod.c` files, device trees, build files and test programs: generated, data,
  or without state.
* The templates register a driver and keep no state.
