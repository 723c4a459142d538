------------------------------ MODULE SwuartSync ------------------------------
(***************************************************************************)
(* How a software UART learns the duration of a bit: the autosync routines *)
(* of src/atmel/avr/swuarta, that the START handler runs while F_SYNC is   *)
(* clear, and those of the Diabolo bootloader; set_dt, reset, and the fake *)
(* reception that keeps the UART silent until the synchronization byte is  *)
(* over.                                                                   *)
(*                                                                         *)
(* Durations are numbers of CPU cycles, what the code computes with them   *)
(* has the width of its registers.  The cycles counted here are those of   *)
(* an ATtinyX5 (8-bit counter) and of an ATtinyX4 (16-bit counter) with    *)
(* the status in gpior0.  A routine that measures with the interrupts off  *)
(* is one step; the non-blocking ones take one step at each edge.          *)
(***************************************************************************)
EXTENDS Integers

CONSTANTS
  Builds,   \* builds to be checked: routine, width of the counter, its
            \* divider, durations of a bit at the speeds it is meant for
  Noise,    \* durations of other low levels
  Strays    \* values the counter may give for a low level seen in part

Routines == {"5_1", "9_1", "5_1_nb", "9_1_nb", "diabolo_5_1", "diabolo_10_1"}

ASSUME SyncAssumption ==
  /\ \A b \in Builds : /\ b.routine \in Routines /\ b.bn \in {8, 16}
                       /\ b.div \in {1, 2, 4, 8} /\ b.bits \subseteq Nat \ {0}
                       /\ b.routine \in {"diabolo_5_1", "diabolo_10_1"} =>
                            b.bn = 16 /\ b.div = 1
  /\ Noise \subseteq Nat \ {0} /\ Strays \subseteq 0..255

VARIABLES
  build,
  stat,             \* flags F_RXC, F_SYNC, F_RXTX, F_WBTX
  dt0, dtn,         \* 1.5 bit and 1 bit; until then the last measure
  nbit,             \* bits to rx/tx; R20 of the bootloader
  startIE, matchIE,
  low,              \* length of the low level whose start was dated, or 0
  main,             \* where the program is in a call of the UART
  rate,             \* [bit, by]: the speed that dt0 and dtn were set for
  pair,             \* [t1, t2]: lengths of the last two low levels measured
  since             \* bits since the synchronization that dt0 and dtn hold, or -1

vars == <<build, stat, dt0, dtn, nbit, startIE, matchIE, low, main, rate, pair, since>>

Bootloader == build.routine \in {"diabolo_5_1", "diabolo_10_1"}
Blocking   == build.routine \in {"5_1", "9_1"}

\* Low levels of the sequence: n bits, then one bit.
N == CASE build.routine \in {"5_1", "5_1_nb", "diabolo_5_1"} -> 5
       [] build.routine \in {"9_1", "9_1_nb"} -> 9
       [] OTHER -> 10

Lows == build.bits \cup {N * b : b \in build.bits} \cup Noise

NoRate == [bit |-> 0, by |-> "none"]
NoPair == [t1 |-> 0, t2 |-> 0]

-----------------------------------------------------------------------------
(* Arithmetic on two registers, and what is stored of it.                  *)

Word(n)   == n % 65536
Stored(n) == IF build.bn = 8 THEN n % 256 ELSE Word(n)

\* _swuarta_div_2, _4, _8
Div(n) == IF build.div = 1 THEN n ELSE Word(n + build.div \div 2) \div build.div

\* Cycles of the START handler until the counter is read, of the COMPARE
\* handler until the pin is: as the assembler adds them up, and as they are.
CyStSei == IF build.bn = 8 THEN 10 ELSE 13
CyRxSei == IF build.bn = 8 THEN 23 ELSE 30
StCycles == IF build.bn = 8 THEN 8 ELSE 9
RxCycles == IF build.bn = 8 THEN 20 ELSE 29

Half(n) == Word(n + 1) \div 2

\* A slip for SampledInSlot to catch: one and a half bit is not divided.
SetDtUndivided(cycles) ==
  /\ dtn' = Stored(Div(cycles))
  /\ dt0' = Stored(Word(cycles + Half(cycles) - (CyStSei + CyRxSei)))

\* cycles: duration of one bit
SetDt(cycles) ==
  /\ dtn' = Stored(Div(cycles))
  /\ dt0' = Stored(Div(Word(cycles + Half(cycles) - (CyStSei + CyRxSei))))

-----------------------------------------------------------------------------
(* Measures.                                                               *)

CeilDiv(a, b) == (a + b - 1) \div b
AtLeast(a, b) == IF a < b THEN b ELSE a

\* The instruction that the interrupt waits for, or the polling loop.
Lateness == IF Bootloader THEN 0..2 ELSE 0..1

\* The loop that samples RXD every 5 cycles: first result, cycles before it.
FirstCount == IF Bootloader THEN 1 ELSE 6
Before     == IF Bootloader THEN 4 ELSE IF build.bn = 8 THEN 30 ELSE 31

Polled(d) == {Word(FirstCount + AtLeast(CeilDiv(d - Before - l, 5), 0)) : l \in Lateness}

\* The difference of two dates: the counter ticks anywhere between the edges.
Dated(d) == {((d + x) \div build.div) % (IF build.bn = 8 THEN 256 ELSE 65536)
             : x \in -1 .. build.div}

\* dt0 and dtn hold the low and the high byte of the last measure.
Byte(n) == n % 256
LastMeasure == Byte(dt0) + 256 * Byte(dtn)

\* The low level it is the measure of: none when a synchronization overwrote it.
LastLow == IF since = -1 THEN pair.t2 ELSE 0

\* A slip for SyncsOnRatio to catch: the upper limit is twice too far.
InRatioWide(t1, t2, dt) == /\ t1 >= Word(N * t2 - dt)
                           /\ t1 < Word(N * t2 + 2 * dt)

\* N*t2 - dt <= t1 < N*t2 + dt, in two registers
InRatio(t1, t2, dt) == /\ t1 >= Word(N * t2 - dt)
                       /\ t1 < Word(N * t2 + dt)

\* Label 8: another measure is needed; sts writes one byte of each.
Keep(t2, d) ==
  /\ dt0' = (dt0 - Byte(dt0)) + Byte(t2)
  /\ dtn' = (dtn - Byte(dtn)) + t2 \div 256
  /\ pair' = IF d = 0 THEN NoPair ELSE [t1 |-> LastLow, t2 |-> d]
  /\ rate' = IF rate.by \in {"bps", "sync"} THEN [rate EXCEPT !.by = "raced"] ELSE rate
  /\ since' = -1
  /\ UNCHANGED <<stat, nbit, startIE, matchIE>>

\* A slip for QuietUntilSynced to catch: the stop bit only.
FakeStopBit == /\ startIE' = FALSE /\ matchIE' = TRUE
               /\ nbit' = 0

\* 8 bits and a stop bit that nobody sends.
FakeReception == /\ startIE' = FALSE /\ matchIE' = TRUE
                 /\ nbit' = 8

\* The sequence is there; d is the length of its last low level.
Found(cycles, d) ==
  /\ SetDt(cycles)
  /\ FakeReception
  /\ since' = 0
  /\ pair' = IF d = 0 THEN NoPair ELSE [t1 |-> LastLow, t2 |-> d]
  /\ rate' = [bit |-> d, by |-> IF main # "idle" THEN "raced"
                                  ELSE IF LastLow = N * d /\ d # 0 THEN "sync"
                                  ELSE "noise"]
  /\ UNCHANGED stat

-----------------------------------------------------------------------------
(* The routines, from the end of a low level on.                           *)

\* t1 = 5 t2 in units of 5 cycles is t2 in cycles.
Autosync51(t2, d) ==
  IF InRatio(LastMeasure, t2, Word(t2 + 1) \div 4)
  THEN Found(Word(5 * t2), d) ELSE Keep(t2, d)

\* t1 + t2 = 10 t2 in units of 5 cycles is twice t2 in cycles.
Autosync91(t2, d) ==
  IF InRatio(LastMeasure, t2, Half(t2))
  THEN Found(Half(LastMeasure + t2), d) ELSE Keep(t2, d)

\* t2 in counting units; the builds are those the assembler accepts.
Autosync51nb(t2, d) ==
  IF InRatio(LastMeasure, t2, Word(t2 + 1) \div 4)
  THEN Found(IF build.div = 8 THEN Word(2 * 4 * t2) ELSE Word(4 * t2), d)
  ELSE Keep(t2, d)

Autosync91nb(t2, d) ==
  IF InRatio(LastMeasure, t2, Half(t2)) THEN Found(Word(8 * t2), d) ELSE Keep(t2, d)

\* The bootloader keeps the two measures in registers, here in dt0 and dtn.
BootKeep(t2, d) ==
  /\ dt0' = Word(t2) /\ dtn' = Word(t2)
  /\ nbit' = 0 /\ since' = -1
  /\ pair' = [t1 |-> pair.t2, t2 |-> d]
  /\ UNCHANGED <<stat, startIE, matchIE, rate>>

\* One bit, one and a half bit; then 20 silent bits.
BootFound(cycles, d) ==
  /\ dtn' = cycles /\ dt0' = Word(cycles + cycles \div 2)
  /\ nbit' = 20 /\ since' = 0
  /\ pair' = [t1 |-> pair.t2, t2 |-> d]
  /\ rate' = [bit |-> d, by |-> IF pair.t2 = N * d THEN "sync" ELSE "noise"]
  /\ UNCHANGED <<stat, startIE, matchIE>>

DiaboloSync51(t2, d) ==
  IF InRatio(dtn, t2, Word(t2 + 2) \div 4) THEN BootFound(dtn, d) ELSE BootKeep(t2, d)

DiaboloSync101(t2, d) ==
  IF InRatio(dtn, t2, Half(t2)) THEN BootFound(Half(dtn), d) ELSE BootKeep(t2, d)

-----------------------------------------------------------------------------
(* Interrupts.                                                             *)

\* START handler, F_SYNC clear: the line is low during d cycles.
LowPolled(d) ==
  /\ Blocking /\ startIE /\ ~stat.sync
  /\ \E t2 \in Polled(d) : IF build.routine = "5_1" THEN Autosync51(t2, d)
                           ELSE Autosync91(t2, d)
  /\ UNCHANGED <<build, low, main>>

\* A falling edge is dated...
Fall(d) ==
  /\ ~Blocking /\ ~Bootloader /\ startIE /\ ~stat.sync /\ low = 0
  /\ low' = d
  /\ UNCHANGED <<build, stat, dt0, dtn, nbit, startIE, matchIE, main, rate, pair, since>>

\* ...and so is a rising edge; the falling one may have been missed.
Rise ==
  /\ ~Blocking /\ ~Bootloader /\ startIE /\ ~stat.sync
  /\ \E t2 \in IF low = 0 THEN Strays ELSE Dated(low) :
       IF build.routine = "5_1_nb" THEN Autosync51nb(t2, low)
                                   ELSE Autosync91nb(t2, low)
  /\ low' = 0
  /\ UNCHANGED <<build, main>>

\* START handler, F_SYNC set.
StartBit ==
  /\ ~Bootloader /\ startIE /\ stat.sync
  /\ startIE' = FALSE /\ matchIE' = TRUE
  /\ nbit' = 8
  /\ low' = 0
  /\ UNCHANGED <<build, stat, dt0, dtn, main, rate, pair, since>>

\* COMPARE handler: a bit, then the stop bit.  The end of a reception sets
\* F_SYNC, and F_RXC only when F_SYNC was set.
Match ==
  /\ matchIE
  /\ nbit' = nbit - 1
  /\ since' = IF since \in 0..9 THEN since + 1 ELSE since
  /\ IF nbit > 0 THEN UNCHANGED <<stat, startIE, matchIE>>
     ELSE /\ stat' = IF stat.rxtx THEN [stat EXCEPT !.rxtx = FALSE, !.wbtx = TRUE]
                     ELSE [stat EXCEPT !.rxc = @ \/ stat.sync, !.sync = TRUE, !.wbtx = TRUE]
          /\ matchIE' = FALSE /\ startIE' = TRUE
  /\ UNCHANGED <<build, dt0, dtn, low, main, rate, pair>>

-----------------------------------------------------------------------------
(* The program.                                                            *)

\* hw( reset, UART ): ten instructions that both handlers may interrupt.  XCB
\* MATCH_IE is one step: the handlers that set MATCH_IE before its last
\* instruction set it in vain.
ResetMatch ==
  /\ ~Bootloader /\ main = "idle"
  /\ matchIE' = FALSE
  /\ main' = "stat"
  /\ UNCHANGED <<build, stat, dt0, dtn, nbit, startIE, low, rate, pair, since>>

ResetStat ==
  /\ main = "stat"
  /\ stat' = [rxc |-> FALSE, sync |-> FALSE, rxtx |-> FALSE, wbtx |-> FALSE]
  /\ main' = "nbit"
  /\ UNCHANGED <<build, dt0, dtn, nbit, startIE, matchIE, low, rate, pair, since>>

ResetNbit ==
  /\ main = "nbit"
  /\ nbit' = 0
  /\ main' = "dtn"
  /\ UNCHANGED <<build, stat, dt0, dtn, startIE, matchIE, low, rate, pair, since>>

\* The durations, byte after byte; with them goes what was known of them.
ResetDtn ==
  /\ main \in {"dtn", "dtn+1"}
  /\ dtn' = IF main = "dtn" THEN dtn - Byte(dtn) ELSE Byte(dtn)
  /\ main' = IF main = "dtn" /\ build.bn = 16 THEN "dtn+1" ELSE "dt0"
  /\ rate' = NoRate /\ pair' = NoPair /\ since' = -1
  /\ UNCHANGED <<build, stat, dt0, nbit, startIE, matchIE, low>>

ResetDt0 ==
  /\ main \in {"dt0", "dt0+1"}
  /\ dt0' = IF main = "dt0" THEN dt0 - Byte(dt0) ELSE Byte(dt0)
  /\ main' = IF main = "dt0" /\ build.bn = 16 THEN "dt0+1" ELSE "arm"
  /\ rate' = NoRate /\ pair' = NoPair /\ since' = -1
  /\ UNCHANGED <<build, stat, dtn, nbit, startIE, matchIE, low>>

\* A slip for ListensAgain to catch: the START interrupt stays as it is.
ResetMuted ==
  /\ main = "arm"
  /\ main' = "idle"
  /\ UNCHANGED <<build, stat, dt0, dtn, nbit, startIE, matchIE, low, rate, pair, since>>

ResetStart ==
  /\ main = "arm"
  /\ startIE' = TRUE
  /\ main' = "idle"
  /\ UNCHANGED <<build, stat, dt0, dtn, nbit, matchIE, low, rate, pair, since>>

\* hw( configure, UART, cpb, b ): set_dt...
Configure(b) ==
  /\ ~Bootloader /\ main = "idle"
  /\ SetDt(b)
  /\ main' = "bps"
  /\ rate' = [bit |-> b, by |-> "bps"] /\ pair' = NoPair /\ since' = -1
  /\ UNCHANGED <<build, stat, nbit, startIE, matchIE, low>>

\* ...then the flag.
Configured ==
  /\ main = "bps"
  /\ stat' = [stat EXCEPT !.sync = TRUE]
  /\ main' = "idle"
  /\ UNCHANGED <<build, dt0, dtn, nbit, startIE, matchIE, low, rate, pair, since>>

\* hw( write, UART, byte ): the loop on MATCH_IE...
Put ==
  /\ ~Bootloader /\ main = "idle" /\ ~matchIE
  /\ main' = IF stat.wbtx THEN "slot" ELSE "start"
  /\ UNCHANGED <<build, stat, dt0, dtn, nbit, startIE, matchIE, low, rate, pair, since>>

\* ...the loop on MATCH_IF...
Slot ==
  /\ main = "slot"
  /\ main' = "start"
  /\ since' = IF since \in 0..9 THEN since + 1 ELSE since
  /\ UNCHANGED <<build, stat, dt0, dtn, nbit, startIE, matchIE, low, rate, pair>>

\* ...and the start bit.
PutStart ==
  /\ main = "start"
  /\ startIE' = FALSE /\ matchIE' = TRUE
  /\ nbit' = 8
  /\ stat' = [stat EXCEPT !.rxtx = TRUE]
  /\ low' = 0 /\ since' = -1
  /\ pair' = IF since = -1 THEN pair ELSE NoPair
  /\ main' = "idle"
  /\ UNCHANGED <<build, dt0, dtn, rate>>

-----------------------------------------------------------------------------
(* The bootloader.                                                         *)

BootLow(d) ==
  /\ Bootloader /\ nbit = 0 /\ ~stat.sync
  /\ \E t2 \in Polled(d) : IF build.routine = "diabolo_5_1" THEN DiaboloSync51(t2, d)
                           ELSE DiaboloSync101(t2, d)
  /\ UNCHANGED <<build, low, main>>

\* One of the 20 bits: RXD low at its end starts all over, but not at the
\* last one.
BootWait(rxd) ==
  /\ Bootloader /\ nbit > 0
  /\ IF rxd = 0 /\ nbit > 1
     THEN /\ nbit' = 0 /\ dt0' = 0 /\ dtn' = 0
          /\ since' = -1 /\ rate' = NoRate /\ pair' = NoPair
          /\ UNCHANGED stat
     ELSE /\ nbit' = nbit - 1 /\ since' = since + 1
          /\ stat' = [stat EXCEPT !.sync = (nbit = 1)]
          /\ UNCHANGED <<dt0, dtn, rate, pair>>
  /\ UNCHANGED <<build, startIE, matchIE, low, main>>

\* The bootloader is entered again.
BootStart ==
  /\ Bootloader /\ stat.sync
  /\ stat' = [stat EXCEPT !.sync = FALSE]
  /\ dt0' = 0 /\ dtn' = 0
  /\ rate' = NoRate /\ pair' = NoPair /\ since' = -1
  /\ UNCHANGED <<build, nbit, startIE, matchIE, low, main>>

-----------------------------------------------------------------------------
Init ==
  /\ build \in Builds
  /\ stat = [rxc |-> FALSE, sync |-> FALSE, rxtx |-> FALSE, wbtx |-> FALSE]
  /\ dt0 = 0 /\ dtn = 0 /\ nbit = 0
  /\ startIE = ~Bootloader /\ matchIE = FALSE
  /\ low = 0 /\ main = "idle"
  /\ rate = NoRate /\ pair = NoPair /\ since = -1

\* A call that has begun goes on.
Resetting == ResetStat \/ ResetNbit \/ ResetDtn \/ ResetDt0 \/ ResetStart
Going == Configured \/ Slot \/ PutStart \/ Resetting

Program == Going \/ ResetMatch \/ Put \/ \E b \in build.bits : Configure(b)

Next == \/ Program \/ BootStart \/ Rise \/ StartBit \/ Match
        \/ \E d \in Lows : LowPolled(d) \/ Fall(d) \/ BootLow(d)
        \/ \E rxd \in {0, 1} : BootWait(rxd)

Spec == Init /\ [][Next]_vars

\* The COMPARE handler runs while its interrupt is enabled, and a call goes on.
FairSpec == Spec /\ WF_vars(Match) /\ WF_vars(Going)

-----------------------------------------------------------------------------
(* Properties.                                                             *)

TypeOK ==
  /\ build \in Builds
  /\ stat \in [rxc : BOOLEAN, sync : BOOLEAN, rxtx : BOOLEAN, wbtx : BOOLEAN]
  /\ {dt0, dtn} \subseteq 0 .. (IF build.bn = 8 THEN 255 ELSE 65535)
  /\ nbit \in -1..20 /\ since \in -1..20
  /\ startIE \in BOOLEAN /\ matchIE \in BOOLEAN
  /\ low \in Lows \cup {0}
  /\ main \in {"idle", "bps", "slot", "start"}
               \cup {"stat", "nbit", "dtn", "dtn+1", "dt0", "dt0+1", "arm"}
  /\ rate.bit \in Lows \cup {0}
  /\ rate.by \in {"none", "bps", "sync", "noise", "raced"}
  /\ {pair.t1, pair.t2} \subseteq Lows \cup {0}

Polls == Blocking \/ Bootloader
Grain == IF Polls THEN 5 ELSE build.div    \* cycles per unit of a measure
Q     == IF N = 5 THEN 4 ELSE 2            \* part of a bit that t1 may be off
Apart == IF pair.t1 < N * pair.t2 THEN N * pair.t2 - pair.t1 ELSE pair.t1 - N * pair.t2

\* The measures and the limits of the comparison fit in their registers, and
\* the last level does not end before the handler looks at it.
Measurable ==
  LET units == IF Polls \/ build.bn = 16 THEN 65535 ELSE 255
  IN  /\ Blocking => pair.t2 >= Before - 3
      /\ pair.t1 # 0 /\ pair.t1 < Grain * units
      /\ N * pair.t2 + pair.t2 \div Q < Grain * 65535
      /\ pair.t2 < Grain * units

\* swuarta_autosync_5_1.sx 11-12, swuarta_autosync_9_1.sx 14: "Consecutive
\* low-level durations t1 and t2 are measured.  When 4.75 t2 <= t1 <= 5.25 t2,
\* synchronization is done."  Within what the registers hold, two low levels
\* synchronize only if they have this ratio, up to the unit of the measures;
\* at the speeds of the build the exact sequence always does, whatever came
\* before it.
SyncsOnRatio ==
  Measurable =>
    /\ since >= 0 => Q * Apart <= pair.t2 + 2 * Grain + Q * Grain * (N + 1)
    /\ since = -1 /\ ~stat.sync => pair.t2 \notin build.bits \/ pair.t1 # N * pair.t2

\* Cycles from the falling edge of a start bit to the sample of the k-th
\* bit: swuarta.sx 192-384, diabolo-atmelavr.sx 520-540.
SampledAt(k) ==
  IF Bootloader
  THEN LET first == dt0 - ((dt0 - 14) % 4)
           next  == dtn - ((dtn - 21) % 4)
       IN  first + (k - 1) * next + 2 .. first + (k - 1) * next + 4
  ELSE LET first == StCycles + RxCycles + build.div * dt0
       IN  first + build.div * ((k - 1) * dtn - 1) + 1
           .. first + build.div * (k - 1) * dtn + 2

\* swuarta_2.h 89-98, 253-261: once synchronized, or configured, for a speed
\* of the build, the UART samples every bit of a frame inside its slot.  A
\* measure that a call of the program races with is excepted; so is an UART that a
\* START interrupt in the middle of a reset left synchronized without a speed
\* (rate.by is "none", against swuarta_2.h 517-519).
SampledInSlot ==
  stat.sync /\ rate.by \in {"sync", "bps"} /\ rate.bit \in build.bits =>
    \A k \in 1 .. (IF Bootloader THEN 8 ELSE 9) :
      SampledAt(k) \subseteq k * rate.bit .. (k + 1) * rate.bit - 1

\* swuarta_autosync_5_1.sx 174-175: the fake reception ensures "that the UART
\* will not transmit before the end of the synchronization byte", of which
\* remain the stop bit (5_1) or 8 bits and the stop bit (9_1).  A synchronization
\* without a speed, which a reset that is interrupted may leave, is excepted.
QuietUntilSynced ==
  [][main = "start" /\ main' = "idle" /\ since >= 0 /\ rate.by = "sync"
     /\ rate.bit \in build.bits =>
       since * dtn * build.div >= (IF N = 5 THEN 1 ELSE 9) * rate.bit]_vars

\* swuarta_2.h 517-518: a reset in any state, in the middle of a frame and with
\* interrupts between its instructions too, leaves an UART that listens, and so
\* does every frame.
ListensAgain == ~Bootloader => []<>startIE
===============================================================================
