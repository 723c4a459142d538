# HWA: specifications, model checking and proofs

HWA ("Hardware abstraction") lets C programs for Atmel AVR microcontrollers (and part of
the STM32 and ESP8266 families) name peripherals instead of registers: `hw(write,
pin_led, 1)`, `hwa(configure, counter0, ...)`, `hwa(commit)`. Most of it is a
preprocessor library that disappears at compile time. What is left at run time, or has
to be right when the compiler has done its work, is specified here in TLA+, checked with
TLC on small instances, and in part proved with TLAPS.

Contents

1. The system: components, their state, their operations
2. The modules, and how they correspond to the code
3. The runs, their bounds, the fairness assumed
4. What is proved
5. Where the code departs from what it says
6. What is not modelled
7. Plan

Paths are relative to `src/`; `A/` is `src/atmel/avr/`, `S/` is
`src/atmel/avr/swuarta/`, `D/` is `src/atmel/avr/examples/diabolo/`.

## 1. The system

### 1.1 The configuration context

`hwa/hwa_1.h`, `hwa/hwa_2.h`, `atmel/avr/hwa_2.h`

*State.* A structure `hwa_t` that exists in the scope of `hwa(begin)`, with, for each
object of the device, one `hwa_r8_t` / `hwa_r16_t` per register: `mmask` and `mvalue`
(bits asked for and their values), `omask` and `ovalue` (bits the context believes it
knows in the hardware). The compiler evaluates it and leaves the accesses to the
registers only.

*Operations.* `hwa(begin)`, `hwa(begin, reset)`, any `hwa(...)` instruction, which ends
in `_hwa_write_r8`, `hwa(commit)`, `hwa(nocommit)`. Next to the context, `hw(...)`
instructions write at once, through `_hw_write_r8`.

*Interactions.* The peripherals raise flags that software clears by writing 1, and clear
by themselves the bits that start operations. `hw()` and `hwa()` meet in the same
registers. Interrupt services may have contexts of their own.

*Hard.* A commit leaves registers unread and unwritten on the strength of what it
believes. It takes one of three paths (nothing to write; `sbi`/`cbi`; store, with or
without a read first), each with its own way of recording what it has done. Between the
read and the write the hardware moves.

*Right when* what the context believes is true; a commit applies exactly what was asked,
and nothing else, whichever path it takes; nothing asked is left over for a later
commit; flags nobody wanted to clear are not cleared.

### 1.2 The software UART

`S/swuarta.sx` and the other `.sx` files of the directory, `A/avrx.sx`,
`A/classes/swuarta_2.h`

*State.* A status byte (`RXC`, `TXC`, `STOP`, `RXTX`, `WBTX`, and flags of the
synchronization), a data byte, a shift register, a count of bits, the compare value
`comp`, the bit durations `dt0` and `dtn`; in the hardware the mask and the flag of a
pin-change interrupt (START), those of a compare-match interrupt (COMPARE), the TXD pin.

*Operations.* The START handler (a start bit arrives), the COMPARE handler (one bit is
sampled or sent), `putbyte`, `getbyte`, reset, `clear(rxc)`, the measure of the bit
duration (AUTOSYNC, `sync_10_1`), the emission of a break, the wait for an idle line.
ONEWIRE puts RXD and TXD on one open-drain pin; CHECKTX reads back what is sent.

*Interactions.* The program calls `putbyte` and `getbyte` and is interrupted between any
two of their instructions. Both handlers enable interrupts early, so that handlers of
several UARTs nest; the masks of several UARTs are bits of the same two registers. The
line, and whoever is at its other end, takes no notice of any of this.

*Hard.* Test-then-act sequences in `putbyte`; a reception that ends half a bit before
the end of the stop bit; two interrupts that take turns, where losing an enable bit
leaves the UART deaf for good; `in`/`andi`/`out` sequences on shared masks.

*Right when* every request is received once and unchanged, every byte of a reply gets
through and in order, the two sides never talk at once if the peer is polite, and
whatever the peer does the UART neither stops listening nor stays in a frame.

### 1.3 The Diabolo bootloader

`D/firmware/*.sx` (device), `D/software/*.py` and `src/python/link.py` (host)

*State.* Device: flash memory, the flags EXTRF and PORF of the last resets, the command
being received, R3:R2 with the CRC that `stat` computed last, the label the firmware is
at. (The EEPROM is meant to hold the CRC of the application; the code does not reach it:
section 5.) Host: the stage of `run()`, the page cache, the pages to write and those
that failed, the CRCs the device reported, the remaining attempts.

*Operations.* Device: start-up (start the application at once after a reset that is
neither external nor power-on, else if its CRC is valid), entry from the application,
synchronization, prompt, commands `i` `f` `e` `F` `E` `X` `*`, page erasing and writing.
Host: reset and synchronize, identify, read the flash, write the pages that differ,
erase those that failed, store the CRC, read back, start the application; `execute()`
repeats a command, `resume()` gets a prompt back.

*Interactions.* A half-duplex serial line without flow control: the device has no
receive buffer and does not listen while it works. The device may lose power or be
reset by its brown-out detector at any time, the application may clear the flags of the
resets and enter the bootloader, and the user may run the host program again.

*Right when* a device never runs anything but a whole application; an update that
fails anywhere, at either side, can be run again and then succeeds; "started" on the
host means that the new application is in the device.

### 1.4 The measure of the bit duration

`S/swuarta_autosync_*.sx`, `S/swuarta_set_dt.sx`, `S/swuarta_reset.sx`,
`D/firmware/diabolo-atmelavr.sx`

*State.* `dt0` and `dtn` (units of `CLK_DIV` cycles, 8 or 16 bits), the status bits
`SYNC`, `RXC`, `STOP`, `BN`, the counter registers of the measure in progress, the
instruction a polling loop is at.

*Operations.* On a falling edge of an UART that is not synchronized, a routine measures
low levels, by polling with interrupts off (`5_1`, `9_1`, the two of Diabolo) or at each
edge (`5_1_nb`, `9_1_nb`), until one is 5 or 9 (Diabolo: 5 or 10) times as long as the
next one. It then computes the durations, with the cycles of the handlers taken off, and
pretends to be in a reception so that nothing is sent before the end of the
synchronization byte. `reset` and `hw(configure, ..., bps)` may come at any time.

*Hard.* Widths: what is a difference of 16-bit counts above some duration is one modulo
65536. Polling sees an edge up to one loop late. What is found by rounded divisions of a
rounded measure is used to sample ten bits later.

*Right when* the exact sequence is recognized at any speed the routine is for and
nothing else is but within the quantum of the measure; every bit is then sampled in its
own slot; and the UART listens again after whatever interrupts it.

### 1.5 Counters

`A/classes/c8a_2.h`, `c8b_2.h`, `c8c_2.h`, `c16a_2.h`, `c16b_2.h`, `cmp*_2.h`,
`cap16a_2.h`

*State.* In the context, what each unit was asked for (clock, count mode, top, overflow,
capture; for each compare unit, update time and output); in the hardware, `cs`, `wgm`,
`com`, the direction of the pins.

*Operations.* `hwa(configure, ...)` remembers; `hwa(commit)` solves all the requests of
a counter together and writes the fields.

*Hard.* One field, `wgm`, answers the requests of three units; each solver is a decision
list of some 200 lines, different from the next one by small details.

*Right when* the waveform generation mode, read back as the data sheet's table does,
gives what every unit asked, a second commit changes nothing, and only what no mode can
do is refused.

### 1.6 Devices, peripherals and clocks

`A/devices/*.h`, `A/classes/*_1.h`, `*_2.h`, `st/`, `espressif/`, `hwa/hwa_macros.h`

*State.* Tables: for each object its class and registers, for each logical register the
hardware register and bits it is made of (one or two groups of bits, of this object or
of another one), for each interrupt its enable and its flag, for each device the lists
of what a context copies and the order in which it commits. At run time: the registers,
and the copies of 1.1.

*Operations.* Each instruction of each class is a sequence of accesses to logical
registers, which the tables turn into accesses to hardware registers.

*Hard.* Some 8000 lines of tables nobody reads twice; peripherals that share a register
or a pin (converter and comparator, PLL and system clock, the units of an UART); timed
sequences that a commit has to write in order; `hw()` and `hwa()` forms of the same
instruction, written separately.

*Right when* after an instruction the hardware register holds what was asked, nothing
else has changed, the context's copies are what the hardware holds, and the peripheral,
read as its data sheet says, does what the arguments say.

### 1.7 Settings of a board

the first part of `A/devices/attinyx4.h`, `attinyx5.h`, `atmegax8.h`, `atmega328x.h`;
`A/examples/make/Makefile.cc`

A board header defines `HW_DEVICE_*` macros; the device header checks them, deduces the
frequency `hw_syshz`, the fuse bytes and the software UARTs, or stops with an error.
`make write-fuses` burns the bytes. *Right when* a device burnt with these bytes runs
from the clock the header names, at the frequency that the rest computes with, and every
documented value is accepted.

### 1.8 The driver of a two-wire EEPROM

`A/examples/11-1-uart-twi-eeprom/main.c` over class `_twia`

The example reads and writes an EEPROM with a state machine over the status codes of the
two-wire interface: repeated starts, acknowledge polling while the EEPROM writes,
arbitration with other masters, page boundaries. *Right when* it writes nothing but the
text, shows what the memory holds, leaves the bus free, and fails only for a reason.

### 1.9 The rest

| component | role | here |
| --- | --- | --- |
| `HW_ATOMIC`, atomic reads of 16-bit registers | saves and restores SREG; `sei` after a read | planned |
| flash and EEPROM classes | timed sequences in assembly language | those of the bootloader only |
| preprocessor core `hwa/hwa_macros.h`, `hwa/hwa_1.h` | class and method lookup | the lookup of logical registers; no state at run time |
| other examples, boards, Makefiles, pyserial, docs | one peripheral each, tables, build, third party | no |

`PROJECT.json` lists each component with its files, and each hazard of the code at its
line with the properties that cover it.

## 2. The modules

```
HwaIntent        <--- HwaContext            <--- MCHwaContext
(no cache)   implements    ^---------------------- HwaContext_proofs
SwuartLink       <--- SwuartBus ---> Swuart <--- MCSwuart
(half-duplex link)         ^---------------------- SwuartBus_proofs
                      SwuartPair            <--- MCSwuartPair
                           ^---------------------- SwuartPair_proofs
                      SwuartSync            <--- MCSwuartSync
                           ^---------------------- SwuartSync_proofs
DiaboloUpdate    <--- DiaboloHost ---> Diabolo <--- MCDiabolo
(what an update promises)  ^---------------------- Diabolo_proofs
                      TwiEeprom             <--- MCTwiEeprom
                           ^---------------------- TwiEeprom_proofs

CounterModes <--- CounterSolvers <--- Counter <--- MCCounter
                                         ^-------- Counter_proofs

DeviceTable <--- DevAttinyx4, DevAttinyx5, DevAtmegax8, DevStm32f103, DevEsp8266
     ^                                              ^ tables
Instructions <- SerialClasses, AnalogClasses,       |
     ^          Stm32Classes, Esp8266Classes        |
   Device <- DeviceFunctions, PortFunctions <--- MCDevice

DeviceSettings <--- MCDeviceSettings
      ^------------ DeviceSettings_proofs
```

An arrow goes from a module to one it uses or implements.

### 2.1 HwaIntent, HwaContext

A register, a mask or a value is the set of its bits that are 1. A program configures a
set of registers (`used`). `_hwa_commit__r8` looks at one register and at nothing else,
so that one program per kind of register is enough, and one with two registers for what
happens to one while the other is committed.

| action | code |
| --- | --- |
| `Begin`, `BeginFromReset` | `hwa_begin`, `hwa_begin_from_reset`: `_hwa_setup__r8`, `_hwa_set__r8` |
| `HwaWrite` | `_hwa_write_r8`; a compile-time error is a guard (`Accepts`) |
| `NoCommit` | `hwa_nocommit`: `_hwa_commit__r8` with `commit = 0` |
| `Commit`, `CommitNone`, `CommitBit`, `CommitStore`, `CommitLoad` + `CommitModify` | the paths of `_hwa_commit__r8`; the read and the write of the last one are two steps |
| `HwWrite`, `DirectBit`, `DirectStore`, `DirectLoad` + `DirectModify` | `_hw_write_r8` |
| `Raise`, `Finish` | the peripheral raises a flag, or clears a start bit |

`HwaIntent` is what the user manual promises: what was asked is applied, at once, at
commit. There is no cache and no mask. The refinement maps `want` to the part of
(`mmask`, `mvalue`) that is not a start bit.

Registers in a commit are taken in any order: the order, which the device headers fix,
matters for their meaning (see the hazards) but not for these properties. A commit and
an `hw()` do not interrupt each other: there is one thread of control.

### 2.2 Swuart, SwuartBus, SwuartLink

`Swuart` has the START and COMPARE handlers, `putbyte` and `getbyte`; `SwuartBus` adds
an application and a peer; `SwuartLink` is the link they are to implement.

* Time is counted in half bits: `dtn` is 2 and `dt0`, from the start edge to the middle
  of the first data bit, is 3: `swuarta_set_dt.sx` makes it `dtn + (dtn+1)/2`, less the
  time the handlers take. Clocks do not drift. The handlers, shorter than half a bit,
  are single steps: at no time is another handler of the same UART enabled in them.
  `putbyte` and `getbyte` are interrupted wherever their instructions leave a shared
  value half done (`PutWait`, `PutSlot`, `PutOff`, `PutStart`, `GetWait`, `GetClear`,
  `GetLoad`).
* `mode` is the build: ONEWIRE, CHECKTX, and whether the peer waits for its turn
  ("polite"). A polite peer sends a byte, then listens until it has all of the reply, as
  the host of Diabolo does. Any other peer transmits when it likes, and the application
  calls any function at any time.

### 2.3 SwuartPair

Several UARTs on one device, at the level of the instructions that touch the shared
interrupt masks: `XCB` is one `cbi` if the register is low, and `in`, `andi`, `out`
otherwise; `XSBAI` is atomic either way. Routines nest on `stack`: a handler interrupts
`putbyte`, that of its own UART too, and any handler that has enabled interrupts. Data,
time and pins are left out: a compare match ends the frame, or does not. `device` says
which UARTs exist, whether their masks are low (ATtinyX4 has START_IE in `gimsk`, high,
and MATCH_IE in `timsk1`, low; ATmegaX8 has both high), and whether the interrupts of one
UART come so far apart that one handler of it has returned before the next is entered
(`apart`): what times the bits is not modelled, and a handler takes less than half a bit.
`Depth` bounds the nesting.

### 2.4 Diabolo, DiaboloHost, DiaboloUpdate

`Diabolo` has the firmware, its memories and the line; `DiaboloHost` the host program,
the faults and the user. A *token* on the line is one command byte or one field of a
command or reply (address, data, CRC). A token that comes while the device does not
listen is lost; it may be lost or not while the device ends a transmission.

* A CRC is what it is computed from: no collisions, and none of an application is made
  of two equal bytes. `execute()`'s correction of a reply by its CRC is left out (a reply
  that would be corrected is an altered one).
* The device has a boot section (ATmegaX8, ATmegaXU4): a reset always goes to the
  bootloader. Synchronization (autobauding) is one joint step.
* `cold` says that EXTRF or PORF is set. `Boot` starts the application unchecked if it is
  not, as after a brown-out or a watchdog reset; else if RXD is high and `CrcValid`.
  `ClearFlags` and `EnterFromApp` are what the application may do.
* The code gives EEPE and EERE the position of EEMPE: `E` is acknowledged and writes
  nothing, `e` and `stat` read EEDR twice (`EepromCrc`). No CRC is therefore found
  valid, and the application is started by `X`, or by a reset that is not checked.
* `wired` says how the bootloader is entered: the host drives the reset pin, or else the
  application enters Diabolo by itself (the reset pin is "optional", line 5). A device
  that is not reset and is still in the dialogue synchronizes too: it sends `!` for what
  it does not expect.
* The host is `--burn-flash` without a cache file: read the pages, program those that
  differ, see to the failed ones, store the CRC, read back, start. With protocol 5 the
  reply to `f` is 256 bytes, which never equal a page of 64 or 128: a page that failed is
  always found not virgin, is erased, found not virgin again, and left blank.
* Programming a page is erase then write, and power may fail between. A page that fails
  verification is `Torn`.
* `rx()` times out only if the line is quiet and the device is not programming: it waits
  longer than the programming of a page takes. `stat`, a CRC over the whole flash, may
  outlast one wait, and then its reply comes late; it does not outlast all the attempts of
  `resume()`, nor the wait of one second after `*`.

`DiaboloUpdate` says what this is for: a page is given its new content or loses the
former one, only while no application runs; and an application that is not whole runs
only after one that had cleared the flags of the resets.

### 2.5 SwuartSync

`build` is the routine, the device's counter (`bn`, 8 or 16 bits), `CLK_DIV` (`div`) and
the bit durations of the line (`bits`). Durations are in cycles; what the code computes
with them has the width of its registers (`Word`, `Stored`, `Byte`). A routine that
measures with interrupts off is one step per low level, `LowPolled(d)`: a low level of
`d` cycles gives one of the counts that its polling loop can give (`Polled`). The
non-blocking ones take a step at each edge (`Fall`, `Rise`), between which anything else
may happen. Those of Diabolo, which is a program of its own, are `BootLow`, `BootWait`,
`BootStart`. `SetDt` is `swuarta_set_dt.sx` with its rounded divisions, `Found` the end
of a measure with its fake reception, and `Configure`, `Configured`, `Put`, `Slot`,
`PutStart` what the program calls; `StartBit` and `Match` are frames. The reset is ten
instructions with interrupts enabled: `ResetMatch`, `ResetStat`, `ResetNbit`, `ResetDtn`
and `ResetDt0` (byte after byte), `ResetStart`, with both handlers and every edge
between them. Three variables are not in the code: `rate` (the speed that `dt0` and
`dtn` were set for, and by whom), `pair` (the last two low levels), `since` (bits since
the synchronization was found).

### 2.6 CounterModes, CounterSolvers, Counter

`CounterModes` has what each class accepts and the data sheets' tables of `wgm`, as they
are in the comments of the classes; `CounterSolvers` the functions `_hwa_solve_...`,
case by case; `Counter` the actions `ConfigureCounter` (`ConfigureCounter8b`, which
writes at once), `ConfigureUnit`, `TurnIrq`, `Commit`, `Refusal`, and the properties,
which read the fields (`reg`) through the tables. A solver is a choice of `wgm`, a list
of checks of which the first that fails is the error (`FirstError`), and the fields to
write, a function on some of the fields (`Field`, and `Over` where a later write covers
an earlier one). `Programs` says which calls come before each commit: any of those of
`CallsOf(class, unit)`, every argument the macros accept.

### 2.7 DeviceTable, Dev*, Instructions, *Classes, Device

`DeviceTable` is the vocabulary of the tables (`_r8`, `_ob1`, `_cb1`, `_cb2`, `_xob1`,
...) and their lookup; each `Dev...` module is one header, row by row, with the lists of
its context. `Instructions` and the `...Classes` modules have one operator per
instruction of a class: a sequence of steps, or `Refuse`. `Device` executes them:
`HwCall`, `HwToggleCall` for `hw`; `HwaCall`, `ConfigCall`, `SetCall`, `ToggleCall` for
`hwa`; `StartCommit` and the steps of a commit, with the timed writes of the watchdog
and the steps of a PLL. Its state is every hardware register of the device (`mem`) and
every copy of its context (`ctx`). `DeviceFunctions` and `PortFunctions` read the
hardware back: frames and rates of the serial peripherals, channels and clocks of the
analog ones, clock trees, timers and pins.

### 2.8 DeviceSettings

One action per section of a header, in its order; `at` is the section, `read` how many
of the fuses of `Others` have been read, `defs` the macros defined so far with their
values (`Define`, `Over`: a second `#define` replaces the first). `Bytes` are the bytes
the header composes, `Named` the macros it gives them, `LookedFor` those that the
Makefile reads, and `Burnt` the ones that get into the device: all three, or none on the
ATmegaX8, whose header writes `FUSE_FUSE_`. `DeviceSource`, `DeviceHz`, `DeviceDelay`,
... are what a device makes of the bytes. `Boards` are the board headers:
`BoardAssumption` says that they define settings that the header of their device reads
or its documentation lists (`ReadBy`, `Settings`: the ATmegaX8 does not read two of its
documented ones; any other is a macro of the program's own), with any words whatever;
that a frequency is one the devices can run at (at most 20 MHz, above which the data
sheets give no range for a crystal); and that the objects of a software UART are objects
of the device or are not. The check of objects is abstracted to these two values.

### 2.9 TwiEeprom

An action of the driver (`Started`, `Selected`, ..., `ByteReceived`) goes from a status
to the next command, with what the routines do when they return and are called again in
between; an action of the bus (`SendStart`, `SendSelection`, ..., `Refuse`) executes the
command. `at` is where the routine waits, `cr`, `dr`, `twst` the interface, `mode` the
bus, `ptr`, `given`, `latch`, `busy`, `mem` the EEPROM. Other masters may win an
arbitration, the bus may meet an error, the EEPROM may refuse a byte, be busy or be
missing.

## 3. The runs

| run | configuration | shows |
| --- | --- | --- |
| `context` | `MCContext.cfg` | `KnownBits`, `ImplementsIntent` |
| `context_low_flag` | `MCContextLowFlag.cfg` | `ClearsAskedFlags` is violated |
| `swuart` | `MCSwuart.cfg` | `NeverDeaf`, `NoOverlap`, `ImplementsLink`, `Answers`, `FrameEnds` |
| `swuart_delayed` | `MCSwuartDelayed.cfg` | `TransmissionDelayed` is violated |
| `swuart_pair` | `MCSwuartPair.cfg` | `MatchArmed`, `NeverDeafAlone` |
| `swuart_pair_deaf` | `MCSwuartPairDeaf.cfg` | `NeverDeaf` is violated |
| `swuart_sync` | `MCSwuartSync.cfg` | `SyncsOnRatio`, `SampledInSlot`, `QuietUntilSynced`, `ListensAgain` |
| `diabolo` | `MCDiabolo.cfg` | `Programmed`, `WholeRuns`, `ImplementsUpdate`, `Recovers` |
| `counters` | `MCCounter.cfg` | `CountsAsAsked`, `FlagsAsAsked`, `WaveformAsAsked`, `RefusesOnlyImpossible`, `CommitAgainChangesNothing` |
| `device` | `MCDevice.cfg` | `RequestsApplied`, `OthersUntouched`, `ContextKnowsHardware`, `ClocksAsAsked`, `PeripheralsAsAsked` |
| `settings` | `MCDeviceSettings.cfg` | `FusesAsAsked`, `ComposesAsAsked`, `AcceptsDocumented` |
| `twi` | `MCTwiEeprom.cfg` | `WritesOnlyText`, `ShowsMemory`, `ReleasesBus`, `FailsForAReason`, `Ends` |

The runs of the context and of the protocols also check the `TypeOK` of their module
(that of `SwuartSync` is only proved), which relates variables (a commit leaves no
request pending; `putbyte` is at the bottom of the stack; a programming has its whole
command). A run with a violation ends with the counterexample of a departure of section
5.

### 3.1 Context

*Bounds.* Three bits per register, so that a register can have a bit that is asked for,
one that is known and one that is neither, or a flag, a configuration bit and a start
bit; the code treats the bits of a register alike. Five programs between them use each
kind of register there is: with a flag (`csr`), with read-only bits (`port`), low and
high ones that `hw()` and `hwa()` share (`ddr`, `imr`), with several flags (`sr`), with
a start bit (`sra`). No run is truncated.

*Fairness.* None: the properties are safety properties, and nothing obliges a program to
begin a commit.

*Hypotheses.* The programs are `Disciplined` (section 4.1). `BeginFromReset` is used
where its name says, before anything has changed the registers, and `NoCommit` by a
program that tells the context the truth (`Truthful`): either would otherwise be a lie
of the program, not of the context. `context_low_flag` has a program that is not
disciplined, and shows why one has to be. `ImplementsIntent` leaves start bits out: they
are no state that a register keeps.

### 3.2 Software UART

*Bounds.* Frames of two data bits instead of eight: enough for a first, a last and a
repeated bit; only the count distinguishes the others. Replies of one or two bytes: two
is the first length at which one transmission follows another. Six builds: the four of
ONEWIRE and CHECKTX with a polite peer, and with any peer both options or none.

*Fairness.* Weak fairness of `Tick` (time passes), `Interrupt` (the processor serves
enabled interrupts: the program does not disable them for good), `Device` (the program
goes on with the function it has called) and `Read` (a polite application calls
`hw(read)` again, as the loops of the examples do). None is assumed of the peer, nor of
`Write`: a reply that the application never ends is not answered, and `Answers` does not
say it is. Deadlock is not checked: without interrupts and calls the program may wait.

`SwuartPair` has two UARTs: two are needed to lose an enable bit, and the theorems are for
any number. `Depth` is 4: `putbyte` and three handlers, which is what it takes for each
UART to have one handler in progress and one of them another. The devices of
`swuart_pair` are an ATtinyX4 with both UARTs, whose handlers are `apart`, and either UART
alone on an ATtinyX4 or an ATmegaX8, with handlers that interrupt one another at will:
`NeverDeafAlone` needs no timing at all. With both UARTs and without `apart`,
`MatchArmed` would not hold: a START handler that interrupts the COMPARE handler of its
UART begins a frame and loses MATCH_IE to it.

### 3.3 Synchronization

*Bounds.* Nine builds of the six routines, in cycles per bit: the ends of the range of
`5_1`, 72 and 188 (8-bit counter), 137 and 1378 (`CLK_DIV` 8), 72 and 43689 (16 bits),
and of `9_1`, 57 and 188, 98 and 32765 (16 bits, `CLK_DIV` 8); one duration of `5_1_nb`,
217, and of `9_1_nb`, 226, which count in units of 8 cycles; for Diabolo the five
shortest ones, two in use (208, 833) and the longest: 81 to 43689 (5+1) and 86 to 31204
(10+1). The other low levels are noise of 20, 152 000 or 340 000 cycles (shorter than
the entry of a handler; longer than a counter once; longer than any of them) and
characters of another speed; the count that a low level cut by a reset leaves is one of
two (`Strays`). The handlers may come between any two instructions of a reset.
`Measurable` leaves out low levels that a counter cannot hold, and, where the handler
polls the pin, those that end before its loop begins, which all count as one: for them
the code promises nothing. `SampledInSlot` does not speak of three things that `rate.by`
tells apart: `hw(configure)` while a measure is in progress, which overwrites what it
has stored; a measure made of noise; and a UART that says it is synchronized although a
reset has cleared its durations, because a START interrupt came inside the reset
(section 5). Neither does `QuietUntilSynced` of the last one.

*Fairness.* Weak fairness of `Match` (compare interrupts are served) and of the steps of
a reset, a `hw(configure)` or a `hw(write)` that has begun. None of the line:
`ListensAgain` does not need a byte.

### 3.4 Diabolo

*Bounds.* Two pages of one datum each, one of them blank in either application so that
blank pages and pages to leave alone both happen. `MaxTrouble` is 3 where the host resets
the device and 2 where it does not; a power failure, a brown-out or a flash fault counts
for 1, a token lost or altered for 2: three resets or flash faults, or a damaged token
and one of them (two, or a damaged token, in a device that the host does not reset).
`Repeats` is 3 (4 in the code) and `Resumes` 6 (256 in the code). A host
that exhausts its attempts gives up: the lower numbers make that more frequent, not less.
The initial states are a device with the old application, the new one or none, just reset
by its power supply, or with the application running and the flags of the resets set or
cleared.

*Fairness.* Weak fairness of the device, which does nothing but run, and of the host
program together with its user, who runs it again when it fails. That is what `Recovers`
is about: once troubles are over, running it again is enough. None of the application: it
enters the bootloader when it likes, so `Recovers` speaks of a host that resets the
device only. Deadlock is not checked: an updated device has nothing to do.

*What the properties leave out.* `WholeRuns` speaks of a device that the host resets: an
application that cleared EXTRF and PORF and entered the bootloader itself leaves a device
that a brown-out starts in the middle of an update (section 5). `ImplementsUpdate` holds
in both cases and says that nothing else does that. A new application is started by the
host that finds it in the device: after an update the CRC it reads back is not that of the
application, so that the program ends without starting it, and only the next one, which
has nothing to program, takes the CRC it has just sent for stored (`onlycrc`) and starts
it. `Recovers` counts on that second run.

*Beyond the bounds.* What one damaged token cannot do, two can. `E` is acknowledged by the
prompt alone (`devices.py` 419): a `#` left from an earlier reply, or a `!` altered to `#`
(they differ by one bit), passes for it. One late `!` after a timeout during `stat` can
also shift all the replies that follow by one, until `execute()` has used up its attempts
though the line works; running the program again resets the device and recovers.

### 3.5 Counters

*Bounds.* Each of the five classes with every count mode, top value and overflow, and
every pair of requests for two compare units (output and update), twice in a row with
another clock or with the optional arguments left out; every clock with a few of them.
Values of the compare registers are not chosen: the modes do not depend on them.
*Exceptions* (section 5): the third compare unit of a 16-bit counter; `RefusedTooMuch`,
the requests that a solver refuses though a mode would do.

### 3.6 Devices

*Bounds.* Programs of one to three instructions, with commits between or at the end: on
every logical register of every object (nothing, everything, and one more than fits;
fields larger than 30 bits on their low 30 bits, as TLC's integers have 31), on pairs of
registers that share a hardware register, every interrupt in both forms, every pin, and
on the arguments of watchdog, PLL, prescalers, UART, SPI, TWI, USI, converters,
comparators, and of the STM32 and ESP8266 clocks, timers, pins and UARTs (up to four
requests in a row). Each starts from `hwa_begin` or from reset, with what no reset
defines all 0 or all 1. Nothing happens while a device is being configured: the
interleavings are in `HwaContext`. *Exceptions*, each a departure of section 5 and each
a named definition: registers no commit list has (`NeverCommitted`), two copies of one
register (`Twice`), those with rules of their own (`Managed`, `Levels`, `HeldBits`),
`Wraps` (a TWI rate), `goesBack` (PLL), `Misled` and `WrittenTwice` (STM32 pins), and
the swapped pins of the ESP8266's UART. A reader who removes one sees TLC's
counterexample.

### 3.7 Board settings

*Bounds.* 6605 boards on three families: every clock source with nine frequencies (both
sides of each limit of the ranges of crystals) and none, with every divider, and with
every startup delay; every pair of other settings with each of their values, absent and
unknown; every subset of the settings of one or two software UARTs. Deadlock is not
checked: the preprocessor comes to the end.

### 3.8 Two-wire EEPROM

*Bounds.* An EEPROM of 16 bytes in pages of 4 (8 in the code), of which 10 (256) are
read in chunks of 4, and a text of 6 bytes that ends a page, fills one, and begins
another; `MaxIter` is 3 (200), the EEPROM is busy for at most 2 polls, and there are at
most two troubles (an arbitration lost, a bus error, a byte refused). With these numbers
the driver gives up when the EEPROM is missing or troubles add up, and not when it is
only busy: `FailsForAReason` is what would be false with a smaller `MaxIter`.
*Fairness.* Weak fairness of `Next`: the hardware executes a command and the program,
which polls its flag, goes on. `Ends` is for a bus on which troubles end. Deadlock is
not checked: `main` ends.

## 4. What is proved

| module | theorems | property of a run |
| --- | --- | --- |
| `HwaContext_proofs` | `TypeCorrect`, `KnownBitsCorrect`, `Refinement` | `TypeOK`, `KnownBits`, `ImplementsIntent` |
| `SwuartBus_proofs` | `TypeCorrect`, `NeverDeafCorrect`, `NoOverlapCorrect`, `LinkCorrect` | `TypeOK`, `NeverDeaf`, `NoOverlap`, `ImplementsLink` |
| `SwuartPair_proofs` | `TypeCorrect`, `MatchArmedCorrect`, `NeverDeafAloneCorrect` | `TypeOK`, `MatchArmed`, `NeverDeafAlone` |
| `SwuartSync_proofs` | `TypeCorrect`, `SampledCorrect`, `QuietCorrect`, `OnlyOnRatio`, `RatioCorrect` | `SampledInSlot`, `QuietUntilSynced`, `SyncsOnRatio` |
| `Diabolo_proofs` | `TypeCorrect`, `MemoriesAsPromised`, `ProgrammedCorrect`, `UpdatesAsPromised`, `WholeRunsCorrect` | `TypeOK`, `Programmed`, `ImplementsUpdate`, `WholeRuns` |
| `Counter_proofs` | `CounterCorrect`, `CountsCorrect`, `WaveformCorrect`, `FlagsCorrect`, `RefusalCorrect`, `CommitAgainCorrect` | the five properties of `counters` |
| `TwiEeprom_proofs` | `TypeCorrect`, `WritesOnlyTextCorrect`, `ShowsMemoryCorrect`, `ReleasesBusCorrect`, `FailsForAReasonCorrect` | `TypeOK` and the four safety properties |
| `DeviceSettings_proofs` | `SettingsCorrect`, `FusesCorrect`, `ComposesCorrect`, `AcceptsCorrect` | `FusesAsAsked`, `ComposesAsAsked`, `AcceptsDocumented` |

They hold for every value of the constants that satisfies the assumptions named in the
modules: registers of any width and number, frames of any length, any number of UARTs,
any speeds within the limits stated, any applications on any set of pages, any sequence
of calls to a counter and its units, any text, page size and number of retries, any
board headers. Each
inductive invariant was first checked by TLC on the instance of the run (and `LinkInv`
with three data bits, too).

### 4.1 Context

`TypeCorrect`, `KnownBitsCorrect`, `Refinement` (that is, `ImplementsIntent`).

`RegisterAssumption` says what masks are: flags and start bits are distinct writable
bits, and both are 0 after a reset. `KnownBitsCorrect` and `Refinement` further assume
`Disciplined`:

* `FlagsHigh`: no register with flags is within reach of `sbi`. Without it the `sbi`
  path records a flag as known to be 1 (finding `context_low_flag`).
* `Disjoint`: `hw()` and `hwa()` may share registers, but not fields: nothing tells a
  context of a write made next to it.
* `DirectNamesFlags`: an `hw()` write that has to read its register names all of the
  flags in it, or it clears them (section 5).

`KnownBits` is not inductive. The invariant `IInv` adds what a read-modify-write in
progress holds (`CommitInFlight`, `LoadedInFlight`: what was read is still what the
register contains, flags apart), what `hw()` may touch (`Owned`, `DirectInFlight`), and
that no flag is believed to be 1 (`FlagsForgotten`). The steps of the three paths of a
commit are shown to have one same effect, `Committed(r)`, and those of the three paths
of `hw()` the effect `Written(r)`; the rest of the proof speaks of these two only. The
refinement maps the last access of a commit to `Apply`, of an `hw()` to `Write`, the
reads to stuttering steps, and `hwa(begin)`, `hwa(nocommit)` to `Drop`.

### 4.2 Software UART

`NeverDeafCorrect`: START_IE or MATCH_IE is set, or `putbyte` is about to set the
latter. With the shape of `main` it is inductive as it is, whatever the peer does.

`NoOverlapCorrect` and `LinkCorrect` are about an exchange, and need to know where both
sides are. `LinkInv` is `TypeOK`, what the count of bits says of the handlers
(`UartInv`), and `Phases`: with a polite peer the link is quiet, or a request is under
way (the peer has started it, its bits are coming in, or it has come and was not read),
or a reply is (between two bytes of it, or in one, where what the peer has sampled, what
is in the shift register and what is still to be sent make one frame); with any other
peer nothing is promised. One lemma per action says to which phase it leads. `LinkStep`
maps the end of a reception to the receipt of the request in `SwuartLink`, and the
peer's last sample to that of a byte of the reply; everything else stutters.
`EarAssumption` says that the model's three kinds of values of `ear` differ.

`SwuartPair_proofs`: `TypeCorrect`, `MatchArmedCorrect`, `NeverDeafAloneCorrect`, for any
number of UARTs and any depth of the stack. `RoutinesOK` is what a routine at any depth
may rely on: in particular, where the handlers of one UART are apart, a COMPARE handler
that clears MATCH_IE has its UART out of the frame, and there is no half-done store of a
low register. `OwnApart` says that there is then one handler of a UART at a time on the
stack, which is why no START handler begins a frame under that COMPARE handler.
`NeverDeafAloneCorrect` needs none of this: a routine of a UART that is alone and has
cleared one of the two masks goes on to set the other, and no handler that interrupts it
returns with both of them clear and no routine left to set one.

### 4.3 Synchronization

`TypeCorrect` says that what is stored fits in its registers. `SampledCorrect` is `Spec
=> [](MeantForSpeeds => SampledInSlot)`, `QuietCorrect` the same for `QuietUntilSynced`:
once a UART is synchronized or configured for a speed of `Speeds`, each of the bits of a
frame is sampled within its slot, and nothing is transmitted before the end of the
synchronization byte, for any set of builds, any noise, any polling delay. `Speeds`
states from which duration of a bit on this is so, by routine and `CLK_DIV` (72 cycles
for `5_1`, 29 for `9_1`, 46 for Diabolo, ...), and up to which one the counters hold 1.5
bit. Below these limits there are delays of the polls for which a bit is missed; some
speeds below them work (53 to 71 cycles in `5_1`), but not always.

The argument is arithmetical. What a routine finds is within a few cycles of the
duration of the bit (`Near`: lemmas `Measured51`, `Measured91`, `MeasuredNb`,
`MeasuredBoot`); `SetDt` turns it into counts, and its rounding errors add up linearly
with the bits (`Linear`), so that the ninth bit is the worst one (`NearInSlot`,
`BootNearInSlot`). `IInv` carries from a measure to the next what was measured
(`MeasureKept`), that the durations stored are those of `rate` (`RateKept`,
`RateInSlot`), that a UART that is not synchronized has nothing to send and is deaf to
writes for the time of the fake reception (`Silent`), and which registers the handlers
may be using (`BootShape`, `UartShape`). All of it is carried through the reset and the
interrupts inside it: what a handler does with half-cleared durations is a measure of
nothing that is known (`rate.by` is then "none").

`OnlyOnRatio` has no hypothesis on the speeds: whatever low levels are on the line, what
is taken for a synchronization has the ratio 5, 9 or 10, up to the tolerance of the
comparison and the unit of the measures (`SyncsOnRatio`, first part). `RatioCorrect` is
`Spec => [](MeantToSync => SyncsOnRatio)`: at the speeds of `Exact` (those of `Speeds`
from 57 cycles in `9_1`, 81 and 86 in Diabolo, 217 in `5_1_nb` with `CLK_DIV` 8), the
exact sequence is never missed. Below, there are delays of the polls for which it is.
Again the argument is arithmetical: a measure is near the level (`PolledClose`,
`DatedClose`), so a comparison that holds bounds the ratio (`FitsOnlyIfNear`, with
`FiveOnlyIfNear`, `TenOnlyIfNear` and `DatesOnlyIfNear` for the three kinds of
arithmetic) and the exact sequence makes it hold (`ExactFits`); no limit wraps, which is
what `Measurable` is for. `RInv` says which of the two comparisons the last two levels
passed; it is inductive together with `IInv`, whose `MeasureKept` says that the first
operand is a measure of the level before.

### 4.4 Diabolo

`MemoriesAsPromised` needs no hypothesis: every step of the device, whatever the line
does and wherever a reset falls, is one of `DiaboloUpdate` or the start of an application
by the command `X`, which the host has to decide. Starts after a brown-out or a watchdog
reset are included: they are steps of `DiaboloUpdate` only because an application had
cleared the flags.

`ProgrammedCorrect`, `UpdatesAsPromised` and `WholeRunsCorrect` are about the two
programs together, under `[][~LineFault]_vars`: power failures, brown-outs, failing
pages, exhausted retries and programs run again are allowed, damaged tokens are not.
Replies carry no sequence numbers: what a damaged token does depends on how many there
are (section 3.4), and no invariant of the protocol is left. TLC checks the same
properties with one of them.

`IInv` is `TypeInv`, `Dialogue`, `Apart` and `Known`. `Dialogue` says that the two are
in step: for each state of the host's reception (`idle`, `resume`, `reply`, `done`),
what is on the line in either direction, what the device has received of the command and
where its firmware is; or that the host is alone, when the device was reset or gave up,
and then that what is left of a reply on the line is part of a reply, which nothing
completes. `Known` says what each stage of `run()` has established: the pages it has
read are those of the device, those it does not have to program are already right, a CRC
that was reported is that of the flash memory, and (`Founded`) the host believes in a
stored CRC only after it sent it, so that it starts an application only from `onlycrc`,
when there was nothing to program. The assumptions say that the two applications differ
and neither is blank, and that markers are not data.

`WholeRunsCorrect` adds `Checked`: on a device that the host resets, whenever an
application runs or a reset would start one without a check, the device is out of the
dialogue, the host is not synchronizing with it, and the memory is whole. It is inductive
because the reset by the host sets EXTRF and only an application clears it.

### 4.5 Counters

The run has the requests its table of programs lists; the theorems are about every
table, that is any calls the classes accept, with any number of commits in between.
`ProgramsAssumption` says only that the calls are such ones, and `UnsetAssumption` that
an argument left out is told from one that was given.

The first half of the proof is about the solvers, one lemma per macro and class. The
checks of a solution are those of the table of the data sheet (`Checks8`, `Checks16`),
although the code writes them as lists of `wgm`; so a solution without an error is a
mode that does what was asked (`Chosen8`, `Chosen16`), and where a mode does everything
that was asked, the decision list arrives at it (`Found8`, `Found16`), but for the
requests of `RefusedTooMuch`. `Solved8b` does this for class `_c8b`, whose solver reads
the fields of the context itself.

The second half is about the context. That the registers hold a solution of what was
asked is not inductive: a commit stores the default top value among the arguments and
forgets which fields were written, and the next one solves again. `Settled` says that a
committed context is a fixed point: the solution of the arguments as they are *now* has
no error and each of its fields is in the registers (`SameSolution`: the stored top does
not change the solution). `Settled8b` is the corresponding statement where nothing is
stored: the top value and the interrupt remain as last written, and with both of them
one of the units is in PWM mode. `Inv` says that arguments and fields are those of the
class and that the context knows the registers. `CommitAgainCorrect` follows from the
fixed point, `FlagsCorrect` and the others by reading it through the tables.

### 4.6 Two-wire EEPROM

The four safety properties and `TypeOK`, for any memory, text, page size, number of
troubles, and as many retries as `TwiAssumption` says (`MaxBusy < MaxIter`). `IInv` adds
to them: for each place where the driver waits, the command it has given, the statuses
it may find, and how far the EEPROM has followed (`Places`, `Spots`); what a page in
progress has latched (`Latched`, and that it is in one page of the memory:
`PageLengthFacts`), how much of the text is written (`Writing`, `Progress`), how much
was read (`Reading`), and that as long as nothing has happened on the bus, the
selections made and those the EEPROM may still refuse are fewer than `MaxIter`
(`Patience`), from which `FailsForAReason` follows.

### 4.7 Board settings

The run has every clock with every delay and every pair of other settings; the theorems
are about every header: any number of settings at once, any words, any frequency up to
20 MHz, any settings of the two software UARTs. `FusesAsAsked` is about the devices
whose bytes are burnt (ATtinyX4, ATtinyX5), `ComposesAsAsked` about the bytes that the
header of the ATmegaX8 composes under names nobody reads; both are `AsAsked`, which
names the words that are read and not those that are documented (`Unread`,
`PreservesEeprom`). `AcceptsDocumented` compares what is accepted with `WordsOf`, the
words in the tables of the headers' documentation; what differs has a name: `TakesAlso`,
`FusesTaken`, `ClockTaken` for what is accepted without being documented, `RefusesAlso`
for the reverse. The three speak of the end of a header only. `IInv` says the same of
the part that was read: the boot section (`BootRead`); the values of CKSEL that select
the clock asked for (`SourceRead`, with `Selects` for each device) and the frequency,
where the header knows it; the divider (`PrescalerRead`); the delay at the values of SUT
and CKSEL0 (`StartupRead`); each of the fuses read so far (`FusesRead`); the PLL and the
brown-out detector (`PllRead`); the software UARTs (`UartsRead`). After an `#error` only
one thing is left to say: the documentation does not allow this board (`Unwelcome`).

Each section has a lemma. A section that refuses is shown to have met something not
documented (`Sourced`, `Delayed`, `WordDocumented`, `SwuartFound`); one that goes on,
to define what it should and to leave the rest (`BootStays`, `SourceStays`, ...:
a macro defined by one section is not redefined by another). There is one exception, and
the invariant had to name it: the delays of the ATmegax8 and of the ATtinyx4 redefine
CKSEL0, which turns the 128 kHz oscillator of the former into the 8 MHz one
(`Becomes8MHz`, the departure `Misselects` of section 5). For a crystal the redefinition
is harmless because CKSEL0 does not select it (`StartedX5`, `StartedX4`, `StartedX8`).
The lists of fuses of the three headers are shown to have each setting once, with the
words and the default of the documentation (`FusesListed`). At the end the fields are
taken back out of the bytes (`LowByteFields`, `HighByteFields`), and read as the data
sheets do (`DeviceSelects`, `RangeAtEnd`, `DelayAtEnd`).

### 4.8 Model-checked only

* Liveness (`Answers`, `FrameEnds`, `ListensAgain`, `Recovers`, `Ends`):
  fairness and ENABLED are out of the prover's reach.
* `Device` with `DeviceFunctions` and `PortFunctions`: what they state is about the rows
  of given tables, which TLC enumerates completely; for all tables it is not true. The
  steps of an instruction and of a commit are folds over sequences, so a proof for all
  instructions would need induction over data.

## 5. Where the code departs from what it says

Three departures are runs that TLC ends with a counterexample; `PROJECT.json` quotes the
lines.

| run | in short |
| --- | --- |
| `context_low_flag` | a flag cleared through `sbi` is remembered as 1: clearing it a second time in the same context writes nothing (`A/hwa_2.h` 288) |
| `swuart_delayed` | `putbyte` may transmit over a reception that began between two of its instructions (`S/swuarta.sx` 688, 709) |
| `swuart_pair_deaf` | two UARTs on one ATtinyX4: one can lose START_IE for good (257, 709) |

The others were met while modelling. The models do what the code does; where a property
would fail for it, the property names the exception.

*Context.* A start bit is remembered as 1 after the hardware has cleared it: the second
`trigger` of a context writes nothing (`A/hwa_2.h` 274). `hw()` on some bits of a
register that also holds flags clears the flags that are set (164, against the comment
at 148). Values are cut to 8 bits without a word: `hw(write, pb7, 2)` writes 0. A commit
writes masks before flags (`attinyx4.h` 1376): a stale flag that the same commit clears
can interrupt first.

*Software UART.* After a collision the status byte is overwritten by the low byte of the
compare date (`S/swuarta.sx` 524; the documentation at `A/classes/swuarta_2.h` 113 says
otherwise).

*Synchronization.* Documented limits that do not hold: `autosync_5_1` is documented from
56, 61 or 66 cycles per bit (`swuarta_2.h` 37) and does not always detect these; with a
16-bit counter, 1.5 bit wraps above 43690 cycles (documented: 65535); `autosync_9_1`
detects up to 34491, but above 32766 finds a wrong speed; Diabolo 10+1 goes to 31204
(documented 32767). Label 9 of `autosync_5_1` and `_9_1` with an 8-bit counter pops R25
first though it was pushed first: the interrupted program finds R25 and R27 to R31
rotated. `autosync_9_1` uses DBGPORT unconditionally (81, 128). The `sampling_shift`
macro's name lacks a 0, so that the shift is always 0; CY_ST_SEI counts the loading of
the counter twice. A reset during a transmission on one wire leaves the line driven. A
START interrupt inside a reset, after F_SYNC is cleared (`swuarta_reset.sx` 15) and
before the durations are, may take them for the first measure of a sequence and begin a
fake reception; the reset then clears them, and the end of that reception sets F_SYNC:
the UART is synchronized without a speed, against `swuarta_2.h` 517 to 519 ("the UART
will first resynchronize"). In TLC: `main = "idle" /\ stat.sync => rate.by # "none"` is
violated; bytes sent in the fake reception are lost; the polling loop has no timeout.
`swuart0_synced` of the ATtinyX4 is bit 0, RXC (`attinyx4.h` 1186), and the ATtinyX5 has
none; `while (!sync) hw_sleep()` in example 05-2 may sleep after the last interrupt.

*Diabolo.* EEPE and EERE are given the position of EEMPE
(`D/firmware/diabolo-atmelavr.sx` 110, 111): the source as it stands neither writes nor
reads the EEPROM, which commands `E` and `e` (lines 14, 15) are for; no reset finds a
valid CRC, and the host starts a new application only when it is run a second time. (In
the listings kept in `D/firmware/.valid-*` the bits are apart.) A page that failed is not
reprogrammed, against `diabolo.py` 158: `read_flash_page` returns 256 bytes with protocol
5 (`devices.py` 343), which are compared with a page of 64 or 128 (167 to 173), so that
the page is erased, reported as not erased, and left blank; the host goes on and sends the
CRC of the new application. A reset that is neither external nor power-on starts the
application without computing its CRC (180 to 184), also when a brown-out or the watchdog
interrupts the programming of an application that had cleared the flags and entered
Diabolo by itself, although "validity of application code and communication messages are
checked with a 16-bit CRC" (`D/README.md` 18): with `wired` left out of `WholeRuns`, TLC
shows it. The `x_restart = True` of `diabolo.py` 446, after a CRC that was stored alone,
is undone at 450: the program takes this CRC for stored and does not read it back.

*Counters.* `updown_loop` with top `max` or by default gets `wgm` 8 or 10, whose top is
ICR (`c16a_2.h` 45); `top = compare0` with an immediate update, `top = capture0` with a
toggled output, and some `updown` requests are refused though a mode does them;
`compare1.update` alone is ignored, and in `c8a` so are update and overflow if no output
is configured, against its documentation (16 to 19); a compare output configured in
another context than its counter makes the pin an output and does not connect it
(`c8a_2.h` 307); the third unit of a 16-bit counter is never solved;
`prescaler_output(0)` is refused by `c8a`; `ext_xosc = 8` exceeds the field of `c8c`,
which has no 512; `_hwa_solve__c16b_2` lacks an underscore (`c16b_2.h` 193); nothing
commits `ifr` of a 16-bit counter.

*AVR peripherals.* These do not compile: `power`; `hw(turn, watchdog0, ...)`; the
watchdog without a timeout; clearing an interrupt with `HW_IRQ` (`HW_IRQFLAG` works);
`hwa(toggle, pin)`; the polarity and the differential inputs of the converters;
`general_call`. The watchdog of `wdogb` repeats its sequence at each later commit; that
of `wdoga` clears WDE without a timed sequence, and refuses to be turned on with its
interrupt in one commit. `hw(toggle)` of several pins toggles others. Going from the
system clock back to the PLL leaves PCKE 0 (`pscb_2.h` 118). `_twia`: EN is never set
though configuring is documented to enable it (`twia_2.h` 17); some rates make BR wrap
(1896 Hz at 1 MHz gives 0). `_spia`: SS is not configured (18 to 22). USI slave: DO is
not an output. Configuring the converter after the comparator leaves the comparator on
AIN1 silently; doing both in one commit is refused. `adc6` and `adc7` of ATmegaX8 are
refused, and a comparator input whose name is no pin selects channel 6. UARTs accept
rates that are far off.

*Tables.* `attinyx5.h`: `counter0compare1` names the flags of another object (836);
`counter1compare0_force` overlaps `cs` (928); `counter0` has its masks at address -1
(754); `int0` is on `core0` (473). `attinyx4.h`: `prr` has the address of `pcic1_msk`
(484, 728); `shared.timsk` and `tifr` are aliases that no list commits; `int0` (440).
`atmegax8.h`: the interrupt `txqnf` names `ietxqe` and the field is `ietxqnf` (520,
1407); `eeprom0` and `flash0` name fields that do not exist (525, 532). Each has several
objects with the same number. `atmegaxu4.h` does not compile (`corec_2.h` 124, a union
of bit fields without colons).

*Board settings.* The ATtinyX4 refuses an external clock; the ATtinyX5 and ATmegaX8
accept one and leave `hw_syshz` unusable; `rc_128kHz` with a startup delay selects
`rc_8MHz` on ATmegaX8. `PRESERVE_EEPROM_FROM_CHIP_ERASE` is documented
`enabled`/`disabled` (`attinyx4.h` 234, `attinyx5.h` 267, `atmegax8.h` 245): the ATtinys
refuse both words and take `yes` and `no`, and the ATmegaX8 reads another name
(`PRESERVE_EEPROM_THROUGH_CHIP_ERASE`), so that the documented one is ignored, as is
`SELF_PROGRAMMING`. A software UART without a starter is dropped, with a warning that the
default is used. The fuse macros of the 328P have `FUSE` twice in their names
(`atmega328x.h` 42 to 64; `A/examples/make/Makefile.cc` 94 to 96 reads them with one), so
that `show-fuses` prints 0 and `write-fuses` writes none: whatever the board asks for, the
device keeps its former fuses, while `hw_syshz` follows the settings.

*Two-wire EEPROM.* After MAX_ITER selections the driver returns without STOP (`main.c`
160) and holds the bus. `REP_START`, commented as something that does not happen,
happens at each poll. An EEPROM that refuses every address byte keeps `write_bytes` in
its loop for ever, though MAX_ITER is there to abort infinite loops. At the end of a
16-bit address space the calls wrap.

*STM32.* `hw(read, pin)` is 0 for any pin but the first (mask not shifted, `io1a_2.h`
159); digital inputs, analog pins and open drains do not compile (67, 69); writing 2 to
a pin resets it; a toggle after a write with a known ODR writes the same level again;
two writes on one port in one commit are refused; a second `hwa(write, pa0, 1)` of the
same value writes nothing; PLL settings committed with its start come after it
(`rcca_2.h` 52); dividers 4, 6, 8 of the converters give 2, 4, 6; the multiplier 17 is
refused; `hw(configure, pin)` casts a local structure (undefined).

*ESP8266.* The swap of UART0 is never written (`io1a_2.h` 71), on which example 03
relies; pull-ups, `hwa(write, gpio)` and `hw(configure, timer1)` do not compile;
`apb_div` other than 1, 16, 256 is refused though documented; the timer's interrupt is
unmasked before the commit; UART1 is not in the context.

## 6. What is not modelled

* `HW_ATOMIC` and the atomic read of 16-bit registers (its `sei`, `A/hwa_2.h` 391);
  contexts in interrupt services.
* Reading of any kind, and counts and compare values; `HW_ISR` (attributes of a C
  function); sleep modes.
* `atmegaxu4.h`; contexts with fewer pins than the largest package; package tables;
  numbers of objects.
* Flash and EEPROM classes; the transfers of UART, SPI and USI; the dead time generator.
* Of the software UART, what nothing includes or does not assemble: `sync_10_1`,
  `wait_idle_bits`, `brk`, `callback`. Drift between the clocks of two devices, and the
  cycles of the handlers other than in the sampling dates.
* Diabolo on devices without a boot section, where the reset vector is in the page that
  is programmed; the correction of replies by CRC; cache files and the read-only
  commands of the host; the threaded links of `link.py`. Two applications with one CRC.
* STM32 `hw(configure, pin)`, which has undefined behaviour, and what does not compile.
* The preprocessor core, other examples, boards, the build: no state.

## 7. Plan

1. **Proofs**: what the context's algorithm in `Device` shares with `HwaContext`, for any
   table whose registers do not overlap.
2. **HwAtomic**: `HW_ATOMIC` blocks and 16-bit atomic reads, nested in each other and in
   interrupt services; I is on exit what it was on entry, as `A/classes/ad10__2.h` says.
3. **Interrupts during a commit**: the commit order with an interrupt controller, so
   that no service is entered for a flag that the same commit clears.
4. **Diabolo** without a boot section; correction by CRC; read-only commands.
5. **Contexts with fewer pins**, from the package tables.
