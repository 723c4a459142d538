---------------------------- MODULE Stm32Classes ----------------------------
(***************************************************************************)
(* The instructions of the STM32 classes: clocks (_plla, _sclka, _ahba,    *)
(* _apba and the prescalers of the ADCs and of USB), power, the SysTick    *)
(* timer _stka and the pins _io1a.  x is the form, hw or hwa, and T the    *)
(* table of the device.                                                    *)
(***************************************************************************)
EXTENDS Instructions

\* One write of a logical register if the name or number v is one of those
\* that the macro knows.
Coded(x, T, o, f, codes, v) ==
  IF v \in DOMAIN codes THEN <<WriteReg(x, T, o, f, codes[v])>> ELSE <<Refuse>>

\* hw/hwa( power, o, on | off )
PowerClock(x, T, o, v) == Coded(x, T, o, "cken", State, v)

-----------------------------------------------------------------------------
(* Clocks.                                                                 *)

\* hw/hwa( connect, pll, source )
PllSources == [hsi_half |-> <<"pllsrc", 0>>, hse |-> <<"pllxtpresrc", 1>>,
               hse_half |-> <<"pllxtpresrc", 3>>]

ConnectPll(x, T, source) ==
  LET write == PllSources[source]
  IN  <<WriteReg(x, T, "rcc", write[1], write[2])>>

\* hw/hwa( write, pll, n )
MultiplyPll(x, T, n) == Coded(x, T, "rcc", "pllmul", [k \in 2 .. 16 |-> k - 2], n)

\* hw/hwa( turn, pll, on | off )
TurnPll(x, T, v) == Coded(x, T, "rcc", "pllon", State, v)

\* hw/hwa( connect, sysclk, clock )
ConnectSysclk(x, T, clock) ==
  Coded(x, T, "rcc", "sw", [hsi |-> 0, hse |-> 1, pll |-> 2], clock)

\* hw/hwa( configure, ahb, prescaler, n )
AhbCodes == (1 :> 0) @@ (2 :> 8) @@ (4 :> 9) @@ (8 :> 10) @@ (16 :> 11) @@ (64 :> 12)
              @@ (128 :> 13) @@ (256 :> 14) @@ (512 :> 15)

ConfigureAhb(x, T, n) == Coded(x, T, "rcc", "hpre", AhbCodes, n)

\* hw/hwa( configure, apb1 | apb2, prescaler, n ): the logical register has
\* the name of the bus.
ApbCodes == (1 :> 0) @@ (2 :> 4) @@ (4 :> 5) @@ (8 :> 6) @@ (16 :> 7)

ConfigureApb(x, T, bus, n) == Coded(x, T, "rcc", bus, ApbCodes, n)

\* hw/hwa( write, adcprescaler, n ): the code is (n-2)/3.
WriteAdcPrescaler(x, T, n) ==
  Coded(x, T, "rcc", "adcpre", [k \in {2, 4, 6, 8} |-> (k - 2) \div 3], n)

\* hw/hwa( write, usbprescaler, 1 | 1.5 )
WriteUsbPrescaler(x, T, v) == Coded(x, T, "rcc", "usbpre", [one |-> 1, one_half |-> 0], v)

-----------------------------------------------------------------------------
(* The SysTick timer.                                                      *)

StkaClocks == [ahb |-> 1, ahb_8 |-> 0]

\* hw/hwa( configure, systick, clock, reload, run )
ConfigureSystick(x, T, clock, reload, run) ==
  Coded(x, T, "systick", "clksource", StkaClocks, clock)
    \o <<WriteReg(x, T, "systick", "reload", reload)>>
    \o Coded(x, T, "systick", "enable", State, run)

\* hw/hwa( turn, systick, on | off )
TurnSystick(x, T, v) == Coded(x, T, "systick", "enable", State, v)

-----------------------------------------------------------------------------
(* Pins.                                                                   *)

StmPinBits(T, p) == Group(T.pins[p].bn, T.pins[p].bp)
PortReg(T, p, r) == <<T.pins[p].port, r>>

Frequency == [f10MHz |-> 1, f2MHz |-> 2, f50MHz |-> 3]

\* The four bits of a pin are in crl or in crh.
ModeWrite(T, p, r, pins, mode) ==
  [key |-> PortReg(T, p, r), mask |-> UNION {Group(4, 4 * (i % 8)) : i \in pins},
   value |-> {4 * (i % 8) + b : i \in pins, b \in BitsOf(mode)}]

\* hwa( configure, p, mode, digital, direction, output, frequency, f ): other
\* modes and directions do not compile.
ConfigureStmPin(T, p, frequency) ==
  LET low  == StmPinBits(T, p) \cap 0 .. 7
      high == StmPinBits(T, p) \cap 8 .. 15
      mode == Frequency[frequency]
  IN  <<[do |-> "set", writes |->
           (IF low = {} THEN <<>> ELSE <<ModeWrite(T, p, "crl", low, mode)>>)
             \o (IF high = {} THEN <<>> ELSE <<ModeWrite(T, p, "crh", high, mode)>>)]>>

\* hw/hwa( write, p, v ): bits to set and bits to reset, the others 0.
WriteStmPin(x, T, p, v) ==
  LET bits == StmPinBits(T, p)
      one  == {i \in bits : i - T.pins[p].bp \in BitsOf(v)}
  IN  <<[do |-> x, writes |-> <<[key |-> PortReg(T, p, "bsrr"), mask |-> 0 .. 31,
                                 value |-> one \cup {i + 16 : i \in bits \ one}]>>]>>

\* hw( toggle, p ) at once, hwa( toggle, p ) at the commit.
ToggleStmPin(x, T, p) ==
  IF x = "hw"
  THEN <<[do |-> "hwtoggle", from |-> PortReg(T, p, "odr"), to |-> PortReg(T, p, "bsrr"),
          bits |-> StmPinBits(T, p)]>>
  ELSE <<[do |-> "toggle", object |-> T.pins[p].port, bits |-> StmPinBits(T, p)]>>
=============================================================================
