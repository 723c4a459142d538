--------------------------- MODULE SerialClasses ---------------------------
(***************************************************************************)
(* The instructions of the serial classes: _uarta, _spia, _twia, _usia and *)
(* _usia_spimaster_swclk.  T is the table of the device, o the object, f   *)
(* the frequency of the system clock (hw_syshz); the arguments a are a     *)
(* function on the keys that the instruction gives, and their values are   *)
(* names and numbers that the macros know.                                 *)
(***************************************************************************)
EXTENDS Instructions

Given(a, key) == key \in DOMAIN a

\* No setting.
Unsolved == [unsolved |-> TRUE]

Distance(x, y) == IF x < y THEN y - x ELSE x - y

\* hwa( configure, pin, direction, ... ) of a pin by its name in the device.
Output(T, name) == ConfigurePin(T, T.named[name], "-", "output", "-")
Input(T, name)  == ConfigurePin(T, T.named[name], "-", "input", "-")

-----------------------------------------------------------------------------
(* Class _uarta.                                                           *)

Parity == [none |-> 0, even |-> 2, odd |-> 3]
Enable == [enabled |-> 1, disabled |-> 0]

CharacterSize(n) == IF n = 9 THEN 7 ELSE n - 5

\* _hwa_setup__uarta: what the context holds for the UART at first.
UartDefaults ==
  [brr |-> 0, 2x |-> 0, csz |-> 3, pm |-> 0, sbs |-> 0, rxen |-> 1, txen |-> 1]

\* The number of units of n clocks in a bit.
UartUnits(f, n, bps) == (f \div n + bps \div 2) \div bps

\* Mutant: the normal speed, if it has a setting, without comparing.
UartRateNormal(f, bps) ==
  LET b8  == UartUnits(f, 8, bps)
      b16 == UartUnits(f, 16, bps)
  IN  IF b16 \in 1 .. \hFFF THEN [2x |-> 0, brr |-> b16 - 1]
      ELSE IF b8 \in 1 .. \hFFF THEN [2x |-> 1, brr |-> b8 - 1]
      ELSE Unsolved

\* The double speed is chosen when it is closer: |f/(n*b*bps) - 1| is compared.
UartRate(f, bps) ==
  LET b8  == UartUnits(f, 8, bps)
      b16 == UartUnits(f, 16, bps)
      closer == b16 = 0 \/ Distance(f, 8 * b8 * bps) * 2 * b16
                             < Distance(f, 16 * b16 * bps) * b8
  IN  IF closer /\ b8 \in 1 .. \hFFF THEN [2x |-> 1, brr |-> b8 - 1]
      ELSE IF b16 \in 1 .. \hFFF THEN [2x |-> 0, brr |-> b16 - 1]
      ELSE Unsolved

\* The settings kept in the context after hwa( configure, uart0, a ).
UartSettings(kept, a, f) ==
  LET rate == UartRate(f, a.bps)
  IN  [[key \in DOMAIN kept |->
         IF Given(a, "bps") /\ key \in DOMAIN rate THEN rate[key] ELSE kept[key]]
         EXCEPT
           !.csz  = IF Given(a, "databits") THEN CharacterSize(a.databits) ELSE @,
           !.pm   = IF Given(a, "parity") THEN Parity[a.parity] ELSE @,
           !.sbs  = IF Given(a, "stopbits") THEN a.stopbits - 1 ELSE @,
           !.rxen = IF Given(a, "receiver") THEN Enable[a.receiver] ELSE @,
           !.txen = IF Given(a, "transmitter") THEN Enable[a.transmitter] ELSE @]

\* hwa( configure, uart0, a ): all the settings are written each time.
ConfigureUart(T, o, kept, a, f) ==
  IF Given(a, "bps") /\ UartRate(f, a.bps) = Unsolved THEN <<Refuse>>
  ELSE LET now == UartSettings(kept, a, f)
           fields == <<"brr", "2x", "csz", "pm", "sbs", "rxen", "txen">>
       IN  [i \in DOMAIN fields |-> HwaWrite(T, o, fields[i], now[fields[i]])]

\* hw( write, uart0, v ); the data register of _spia, _twia and _usia too.
WriteData(T, o, v) == <<HwWrite(T, o, "dr", v)>>

-----------------------------------------------------------------------------
(* Class _spia.                                                            *)

SpiMode == [master |-> [en |-> 1, mstr |-> 1], slave |-> [en |-> 1, mstr |-> 0],
            off |-> [en |-> 0, mstr |-> 0]]

\* _hw_spia_clock_sysclk_div_: two bits, and a third that doubles the speed.
SpiClock == [n \in {2, 4, 8, 16, 32, 64, 128} |->
              CASE n = 4 -> 0 [] n = 16 -> 1 [] n = 64 -> 2 [] n = 128 -> 3
                [] n = 2 -> 4 [] n = 8  -> 5 [] n = 32 -> 6]

\* The edge of sck where data is sampled: the first one or the second one.
SamplingEdge(idle, edge) ==
  CASE edge = "first"  -> 0
    [] edge = "second" -> 1
    [] OTHER -> IF (idle = "low") = (edge = "rising") THEN 0 ELSE 1

\* hwa( configure, spi0, mode, clock, sck_idle, sampling_edge )
ConfigureSpi(T, o, a) ==
  <<HwaWrite(T, o, "en", SpiMode[a.mode].en), HwaWrite(T, o, "mstr", SpiMode[a.mode].mstr)>>
    \o (CASE a.mode = "master" -> Output(T, "mosi") \o Output(T, "sck")
          [] a.mode = "slave"  -> Output(T, "miso")
          [] OTHER             -> <<>>)
    \o <<HwaWrite(T, o, "xpr", SpiClock[a.clock]),
         HwaWrite(T, o, "cpol", IF a.sck_idle = "high" THEN 1 ELSE 0),
         HwaWrite(T, o, "cpha", SamplingEdge(a.sck_idle, a.sampling_edge))>>

\* hw/hwa( turn, spi0, on | off ), and of the converters _ad10a, _ad10b, _ad10c
TurnObject(x, T, o, v) == <<WriteReg(x, T, o, "en", State[v])>>

-----------------------------------------------------------------------------
(* Class _twia.                                                            *)

\* The prescaler and the bit rate for the frequency v of scl: the first of
\* the prescalers 1, 4, 16, 64 for which (f/v - 16) / 2 / prescaler < 256,
\* that number rounded; below 1 it must be exact.
TwiRate(f, v) ==
  LET Solves(n) == f \div v < 16 + 512 * 4^n
      n  == CHOOSE i \in 0 .. 3 : Solves(i) /\ \A j \in 0 .. i - 1 : ~ Solves(j)
      br == (f - 16 * v + 4^n * v) \div (2 * 4^n * v)
  IN  IF \/ ~ Solves(3)
         \/ f < 16 * v
         \/ f < 18 * v /\ f # v * (16 + 2 * br)
      THEN Unsolved
      ELSE [psc |-> n, br |-> br]

\* hw/hwa( configure, twi0, a ).  The keyword general_call does not compile.
ConfigureTwi(x, T, o, a, f) ==
  LET Pins(name) == (IF x = "hwa" THEN Output(T, name)
                     ELSE HwConfigurePin(T, T.named[name], "-", "output", "-"))
      High(name) == WritePin(x, T, T.named[name], 1)
      rate == TwiRate(f, a.sclhz)
      Address7(key, reg) ==
        IF ~ Given(a, key) THEN <<>>
        ELSE IF a[key] \notin 0 .. 127 THEN <<Refuse>>
        ELSE <<WriteReg(x, T, o, reg, a[key])>>
  IN  Pins("scl") \o Pins("sda") \o High("scl") \o High("sda")
        \o (IF ~ Given(a, "sclhz") THEN <<>>
            ELSE IF rate = Unsolved THEN <<Refuse>>
            ELSE <<WriteReg(x, T, o, "psc", rate.psc), WriteReg(x, T, o, "br", rate.br)>>)
        \o Address7("slave_address", "sla")
        \o (IF Given(a, "general_call") THEN <<Refuse>> ELSE <<>>)
        \o Address7("slave_address_mask", "slam")

\* The control byte of a command: en and the flag, which a 1 clears and which
\* starts the operation, and what the command is for.
TwiCommand == [start |-> \hA4, stop |-> \h94, transfer |-> \h84, ack |-> \hC4]

\* hw( tx_start | tx_stop | tx_read, ..., ack | nack [, irq] )
TwiControl(T, o, command, irq) ==
  <<HwWrite(T, o, "cr", TwiCommand[command] + (IF irq THEN 1 ELSE 0))>>

\* hw( tx_slaw | tx_slar, twi0, sla [, irq] )
TwiSelect(T, o, sla, read, irq) ==
  IF sla % 256 > 127 THEN <<Refuse>>
  ELSE WriteData(T, o, 2 * sla + (IF read THEN 1 ELSE 0)) \o TwiControl(T, o, "transfer", irq)

\* hw( tx_data, twi0, v [, irq] )
TwiData(T, o, v, irq) == WriteData(T, o, v) \o TwiControl(T, o, "transfer", irq)

-----------------------------------------------------------------------------
(* Class _usia.                                                            *)

\* hwa( configure, usi0, mode, clock ): only SPI and the clock by software.
ConfigureUsi(T, o, mode, clock) ==
  IF mode \notin {"spi_master", "spi_slave"} \/ clock # "software" THEN <<Refuse>>
  ELSE <<HwaWrite(T, o, "wm", 1), HwaWrite(T, o, "cs", 2)>>
         \o (IF mode = "spi_master"
             THEN Output(T, "usck") \o Output(T, "do") \o Input(T, "di")
                    \o <<HwaWrite(T, o, "clk", 1)>>
             ELSE <<HwaWrite(T, o, "clk", 0)>>)

\* hw( trigger, usi0 )
ToggleClock(T, o) == <<HwWrite(T, o, "tc", 1)>>

\* Class _usia_spimaster_swclk: hwa( configure, spimaster_swclk0 )
ConfigureSwclk(T, o) ==
  Output(T, "usi0_ck") \o Output(T, "usi0_do")
    \o <<HwaWrite(T, o, "wm", 1), HwaWrite(T, o, "cs", 2), HwaWrite(T, o, "clk", 1)>>
=============================================================================
