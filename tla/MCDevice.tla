------------------------------ MODULE MCDevice ------------------------------
(***************************************************************************)
(* Instances of Device for TLC: programs of a few instructions on the      *)
(* devices, over all logical registers, interrupts and pins of their       *)
(* tables, and over the arguments of their peripherals.                    *)
(***************************************************************************)
EXTENDS PortFunctions

X4 == INSTANCE DevAttinyx4
X5 == INSTANCE DevAttinyx5
X8 == INSTANCE DevAtmegax8
Stm == INSTANCE DevStm32f103
Esp == INSTANCE DevEsp8266

MCTables ==
  LET tables == [attinyx4 |-> X4!Device, attinyx5 |-> X5!Device, atmegax8 |-> X8!Device,
                 stm32f103 |-> Stm!Device, esp8266 |-> Esp!Device]
  IN  tables

Avr == {"attinyx4", "attinyx5", "atmegax8"}

Forms == {"hwa", "hw"}

Program(d, about, calls) == [device |-> d, about |-> about, calls |-> calls]
AboutFields == [kind |-> "fields"]

\* Every logical register of every object of the device.
FieldsOf(t) ==
  UNION {{<<o, f>> : f \in DOMAIN t.objects[o].bits} :
           o \in DOMAIN t.objects}

\* TLC's integers have 31 bits: of a larger register the low 30 bits.
Largest(t, o, f) ==
  LET p == Field(t, o, f)
  IN  2^(IF p[1].bn > 30 THEN 30 ELSE p[1].bn) * (IF Len(p) = 2 THEN 2^p[2].bn ELSE 1) - 1

\* Nothing, everything, and one more than the register can hold.
FieldPrograms(d, t) ==
  UNION {{Program(d, AboutFields, <<HwaWrite(t, of[1], of[2], v), CommitCall>>) :
            v \in {0, Largest(t, of[1], of[2]), Largest(t, of[1], of[2]) + 1}} :
            of \in FieldsOf(t)}

\* Two logical registers in one hardware register, set and cleared, in one
\* commit or in two.
InContext(t) == {of \in FieldsOf(t) : HwaWrite(t, of[1], of[2], 0) # Refuse}

MeetPoint(t, of) ==
  LET p == Field(t, of[1], of[2])[1]
  IN  AddressOf(t, KeyOf(p))

\* The configuration of a pin of the ESP8266 is like that of another.
Alike == {p \o "_cf" : p \in DOMAIN Esp!Pins \ {"gpio0"}}

PairPrograms(d, t) ==
  LET set(x)   == HwaWrite(t, x[1], x[2], Largest(t, x[1], x[2]))
      clear(y) == HwaWrite(t, y[1], y[2], 0)
      pairs    == {p \in InContext(t) \X InContext(t) :
                     /\ p[1] # p[2] /\ MeetPoint(t, p[1]) = MeetPoint(t, p[2])
                     /\ p[1][1] \notin Alike}
  IN  {Program(d, AboutFields, <<set(p[1]), clear(p[2]), CommitCall>>) : p \in pairs}
      \cup {Program(d, AboutFields, <<set(p[1]), CommitCall, clear(p[2]), CommitCall>>) :
               p \in pairs}

IrqPrograms(d, t) ==
  UNION {{Program(d, [kind |-> "irq", irq |-> i, on |-> v = "on"],
                  TurnIrq(x, t, i, v) \o <<CommitCall>>) :
            x \in Forms, v \in {"on", "off"}}
         \cup {Program(d, AboutFields, ClearIrqFlag(x, t, i) \o <<CommitCall>>) :
                 x \in Forms} :
           i \in t.irqs}

\* Pins: some of the combinations of mode, direction and pull-up.
PinArguments ==
  {<<"digital", "input", "on">>, <<"-", "output", "-">>, <<"analog", "input", "off">>,
   <<"digital", "output", "on">>, <<"analog", "output", "-">>}

PinPrograms(d, t) ==
  UNION {LET about == [kind |-> "pin", o |-> o]
         IN  {Program(d, about, ConfigurePin(t, o, a[1], a[2], a[3]) \o <<CommitCall>>) :
                a \in PinArguments}
             \cup {Program(d, about, HwConfigurePin(t, o, a[1], a[2], a[3])) :
                     a \in PinArguments}
             \cup {Program(d, about, WritePin(x, t, o, v) \o <<CommitCall>>) :
                     x \in Forms, v \in {0, 1, 2}}
             \cup (IF t.pins[o].pcic = "none" THEN {}
                   ELSE {Program(d, AboutFields,
                                 TurnPcic(x, t, t.pins[o].pcic, o, v) \o <<CommitCall>>) :
                           x \in Forms, v \in {"on", "off"}}) :
           o \in DOMAIN t.pins}

\* External interrupts and prescalers.
OtherPrograms(d, t) ==
  {Program(d, AboutFields, ConfigureInt(x, t, "int0", s) \o <<CommitCall>>) :
         x \in Forms, s \in DOMAIN SenseCode}
      \cup {Program(d, AboutFields, TurnPrescaler(t, "prescaler0", v)) : v \in {"on", "off"}}
      \cup {Program(d, AboutFields, ResetPrescaler(t, "prescaler0")),
            Program(d, AboutFields, Power("hwa", t, "counter0", "on"))}

\* The watchdog: an action, then another, with a commit after each;
\* and turned on before an action in the same commit.
WatchdogPrograms(d, t) ==
  LET about(a, b, n) == [kind |-> "watchdog", first |-> a, last |-> b, timeout |-> n]
      Set(n, a) == ConfigureWatchdog(t, "watchdog0", n, a) \o <<CommitCall>>
      Turn(v)   == TurnWatchdog(t, "watchdog0", v) \o <<CommitCall>>
  IN  {Program(d, about(a, b, n), Set(5, a) \o Set(n, b)) :
         a \in DOMAIN ActionCode, b \in DOMAIN ActionCode, n \in {0, 9}}
      \cup {Program(d, about(a, "none", 0), Set(5, a) \o Turn("off")) :
              a \in DOMAIN ActionCode}
      \cup {Program(d, about("reset", a, 5), TurnWatchdog(t, "watchdog0", "on") \o Set(5, a)) :
              a \in DOMAIN ActionCode}

\* The PLL of attinyx5: up to three clocks, with a commit after each.
PllPrograms(d, t) ==
  {Program(d, [kind |-> "pll", clocks |-> clocks],
           FlattenSeq([i \in DOMAIN clocks |->
                         ConfigurePll(t, "prescaler1", clocks[i]) \o <<CommitCall>>])) :
     clocks \in SeqOf(DOMAIN PllCode, 3) \ {<<>>}}

-----------------------------------------------------------------------------
(* Serial peripherals: at most two configurations of each.                 *)

Frequencies == {32768, 1000000, 8000000, 14745600, 16000000}

\* What the documentation of the UART gives for the keys that are left out.
DefaultFrame ==
  [databits |-> 8, parity |-> "none", stopbits |-> 1, receiver |-> "enabled",
   transmitter |-> "enabled"]

Frames ==
  {Merge([databits |-> n, parity |-> p, stopbits |-> s], DefaultFrame) :
     n \in 5 .. 9, p \in {"none", "even", "odd"}, s \in {1, 2}}
  \cup {Merge([receiver |-> r, transmitter |-> x], DefaultFrame) :
          r \in DOMAIN Enable, x \in DOMAIN Enable}

BitRates == {50, 300, 2400, 9600, 38400, 57600, 115200, 230400, 250000, 1000000}

UartPrograms(d, t) ==
  LET Set(kept, a, f) == ConfigureUart(t, "uart0", kept, a, f) \o <<CommitCall>>
      One(a, f) ==
        Program(d, [kind |-> "uart", a |-> Merge(a, DefaultFrame), f |-> f],
                Set(UartDefaults, a, f))
      Two(a, b, f) ==
        Program(d, [kind |-> "uart", a |-> Merge(b, Merge(a, DefaultFrame)), f |-> f],
                Set(UartDefaults, a, f) \o Set(UartSettings(UartDefaults, a, f), b, f))
      At9600(frame) == Merge([bps |-> 9600], frame)
  IN  {One(At9600(frame), 1000000) : frame \in Frames}
      \cup {One([bps |-> v], f) : v \in BitRates, f \in Frequencies}
      \cup {Two(At9600(frame), b, 8000000) :
              frame \in {[databits |-> 9, parity |-> "odd"], [receiver |-> "disabled"]},
              b \in {[stopbits |-> 2], [bps |-> 38400], [databits |-> 7], DefaultFrame}}

TwiRates == {30, 31, 100, 1000, 1896, 1900, 2000, 20000, 62500, 100000, 400000}

TwiPrograms(d, t) ==
  LET One(x, a, f) == Program(d, [kind |-> "twi", a |-> a, f |-> f],
                              ConfigureTwi(x, t, "twi0", a, f)
                                \o (IF x = "hwa" THEN <<CommitCall>> ELSE <<>>))
      Command(calls) == Program(d, AboutFields, calls)
  IN  {One("hwa", [sclhz |-> v], f) : v \in TwiRates, f \in Frequencies}
      \cup {One("hw", [sclhz |-> v], 8000000) : v \in TwiRates}
      \cup {One(x, [slave_address |-> v, slave_address_mask |-> m], 1000000) :
              x \in Forms, v \in {0, 85, 127, 128}, m \in {0, 42}}
      \cup {Command(TwiControl(t, "twi0", c, irq)) :
              c \in DOMAIN TwiCommand, irq \in BOOLEAN}
      \cup {Command(TwiSelect(t, "twi0", sla, read, FALSE)) :
              sla \in {0, 85, 127, 128}, read \in BOOLEAN}
      \cup {Command(TwiData(t, "twi0", v, TRUE)) : v \in {0, 255}}

SpiPrograms(d, t) ==
  {Program(d, [kind |-> "spi", a |-> a, f |-> 1000000],
           ConfigureSpi(t, "spi0", a) \o <<CommitCall>>) :
     a \in [mode : DOMAIN SpiMode, clock : DOMAIN SpiClock, sck_idle : {"low", "high"},
            sampling_edge : {"rising", "falling", "first", "second"}]}
  \cup {Program(d, AboutFields, TurnObject(x, t, "spi0", v) \o <<CommitCall>>) :
          x \in Forms, v \in {"on", "off"}}

UsiPrograms(d, t) ==
  LET About(mode) == [kind |-> "usi", a |-> [mode |-> mode], f |-> 1000000]
  IN  {Program(d, About(m), ConfigureUsi(t, "usi0", m, c) \o <<CommitCall>>) :
         m \in {"spi_master", "spi_slave", "twi_master"}, c \in {"software", "compare0"}}
      \cup {Program(d, About("swclk"), ConfigureSwclk(t, "usi0") \o <<CommitCall>>)}
      \cup {Program(d, AboutFields, ToggleClock(t, "usi0")),
            Program(d, AboutFields, WriteData(t, "usi0", 85))}

-----------------------------------------------------------------------------
(* Analog peripherals: each alone, and both in either order.               *)

NotConfigured == [none |-> TRUE]

\* Each argument in turn, the others being as here.
AdcBase == [div |-> 8, trigger |-> "manual", vref |-> "vcc", align |-> "right",
            input |-> "adc1"]

AdcInputs(class) == ToSet(AnalogPins) \cup DOMAIN InternalInputs(class) \cup {"pb3", "foo"}

AdcArgumentSet(class) ==
  {Merge([div |-> n, align |-> "left"], AdcBase) : n \in ToSet(Dividers)}
  \cup {Merge([trigger |-> x], AdcBase) : x \in ToSet(Triggers(class))}
  \cup {Merge([vref |-> x], AdcBase) : x \in DOMAIN References(class)}
  \cup {Merge([input |-> x], AdcBase) : x \in AdcInputs(class)}

AcmpArgumentSet ==
  [edge : DOMAIN Edges, positive_input : {"bandgap", "ain0", "adc3"}]
  \cup [negative_input : ToSet(AnalogPins) \cup {"ain1", "pa3", "foo"}]

AnalogPrograms(d, t) ==
  LET class == t.objects["adc0"].class
      Adc(a, f) == ConfigureAdc(t, "adc0", a, f)
      Acmp(a) == ConfigureComparator(t, "acmp0", a)
      About(a, b, last, f) == [kind |-> "analog", adc |-> a, acmp |-> b, last |-> last, f |-> f]
      OneAdc(a, f) == Program(d, About(a, NotConfigured, "adc", f), Adc(a, f) \o <<CommitCall>>)
      OneAcmp(b) == Program(d, About(NotConfigured, b, "acmp", 1000000),
                            Acmp(b) \o <<CommitCall>>)
      Both(between, a, b) ==
        {Program(d, About(a, b, "acmp", 1000000),
                 Adc(a, 1000000) \o between \o Acmp(b) \o <<CommitCall>>),
         Program(d, About(a, b, "adc", 1000000),
                 Acmp(b) \o between \o Adc(a, 1000000) \o <<CommitCall>>)}
      clocked == [trigger |-> "auto", vref |-> "vcc", input |-> "adc2"]
  IN  {OneAdc(a, 1000000) : a \in AdcArgumentSet(class)}
      \cup {OneAdc(Merge([clock |-> c], clocked), f) : c \in {"min", "max"}, f \in Frequencies}
      \cup {OneAdc(Merge([polarity |-> "bipolar"], AdcBase), 1000000)}
      \cup {OneAcmp(b) : b \in AcmpArgumentSet}
      \cup UNION {Both(between, AdcBase, Merge([negative_input |-> n], [edge |-> "rising"])) :
                    between \in {<<>>, <<CommitCall>>}, n \in {"ain1", "adc1", "adc3"}}
      \cup {Program(d, AboutFields, StartConversion(x, t, "adc0") \o <<CommitCall>>) :
              x \in Forms}
      \cup {Program(d, AboutFields, TurnObject(x, t, "adc0", v) \o <<CommitCall>>) :
              x \in Forms, v \in {"on", "off"}}

-----------------------------------------------------------------------------
(* STM32: clocks.                                                          *)

Numbers == {"multiplier", "ahb", "apb1", "apb2", "adc", "reload"}

Ask1(x, op, v) ==
  IF op \in Numbers THEN [x |-> x, op |-> op, n |-> v] ELSE [x |-> x, op |-> op, v |-> v]
CommitAsk == [x |-> "hwa", op |-> "commit", v |-> "-"]

ClockSteps(t, r) ==
  CASE r.op = "commit" -> <<CommitCall>>
    [] r.op \in {"hse", "hsi", "port0"} -> PowerClock(r.x, t, r.op, r.v)
    [] r.op = "pll"        -> TurnPll(r.x, t, r.v)
    [] r.op = "source"     -> ConnectPll(r.x, t, r.v)
    [] r.op = "multiplier" -> MultiplyPll(r.x, t, r.n)
    [] r.op = "sysclk"     -> ConnectSysclk(r.x, t, r.v)
    [] r.op = "ahb"        -> ConfigureAhb(r.x, t, r.n)
    [] r.op \in {"apb1", "apb2"} -> ConfigureApb(r.x, t, r.op, r.n)
    [] r.op = "adc"        -> WriteAdcPrescaler(r.x, t, r.n)
    [] r.op = "usb"        -> WriteUsbPrescaler(r.x, t, r.v)
    [] r.op = "systick"    -> TurnSystick(r.x, t, r.v)

ClockValues ==
  [hse |-> {"on", "off"}, hsi |-> {"on", "off"}, port0 |-> {"on", "off"},
   pll |-> {"on", "off"}, source |-> DOMAIN PllSources, multiplier |-> 1 .. 17,
   sysclk |-> {"hsi", "hse", "pll"}, ahb |-> {1, 2, 4, 8, 16, 32, 64, 128, 256, 512},
   apb1 |-> {1, 2, 4, 8, 16, 32}, apb2 |-> {1, 2, 4, 8, 16}, adc |-> 2 .. 8,
   usb |-> {"one", "one_half"}, systick |-> {"on", "off"}]

\* The PLL set up, turned on and off, in any order, with commits or without.
PllRequests(x) ==
  {Ask1(x, "source", "hse"), Ask1(x, "multiplier", 9), Ask1(x, "pll", "on"),
   Ask1(x, "pll", "off")}
    \cup (IF x = "hwa" THEN {CommitAsk} ELSE {})

\* The clocks of an application, in one commit or one commit each.
Application(x) ==
  <<Ask1(x, "hse", "on"), Ask1(x, "source", "hse"), Ask1(x, "multiplier", 9),
    Ask1(x, "apb1", 2), Ask1(x, "ahb", 1), Ask1(x, "adc", 6), Ask1(x, "usb", "one_half"),
    Ask1(x, "port0", "on")>>

ClockPrograms(d, t) ==
  LET Clock(script) ==
        LET whole == Append(script, CommitAsk)
        IN  Program(d, [kind |-> "clock", script |-> whole],
                    FlattenSeq([i \in DOMAIN whole |-> ClockSteps(t, whole[i])]))
      ends(x) == <<Ask1(x, "pll", "on"), Ask1(x, "sysclk", "pll")>>
      Systick(x, c, n, r) ==
        Program(d, [kind |-> "clock",
                    script |-> <<Ask1(x, "systick_clock", c), Ask1(x, "reload", n),
                                 Ask1(x, "systick", r), CommitAsk>>],
                ConfigureSystick(x, t, c, n, r) \o <<CommitCall>>)
  IN  UNION {{Clock(<<Ask1(x, op, v)>>) : v \in ClockValues[op]} :
               x \in Forms, op \in DOMAIN ClockValues}
      \cup {Clock(s) : s \in SeqOf(PllRequests("hwa"), 4)}
      \cup {Clock(s) : s \in SeqOf(PllRequests("hw"), 3)}
      \cup {Clock(Application(x) \o ends(x)) : x \in Forms}
      \cup {Clock(Application(x) \o <<CommitAsk>> \o ends(x)) : x \in Forms}
      \cup {Systick(x, c, n, r) : x \in Forms, c \in DOMAIN StkaClocks,
               n \in {0, 9000, 16777215, 16777216}, r \in DOMAIN State}

-----------------------------------------------------------------------------
(* STM32: pins.                                                            *)

PortRequest(x, op, p, v) == [x |-> x, op |-> op, pin |-> p, v |-> v]

PortRequests ==
  {PortRequest("hwa", "commit", "pa3", 0), PortRequest("hwa", "write", "pa3", 1),
   PortRequest("hwa", "write", "porta", 21845), PortRequest("hwa", "toggle", "pa3", 0),
   PortRequest("hwa", "toggle", "porta", 0), PortRequest("hw", "toggle", "porta", 0)}

MorePortRequests ==
  PortRequests \cup {PortRequest("hwa", "write", "pa3", 0), PortRequest("hw", "write", "pa3", 1)}

PortSteps(t, r) ==
  CASE r.op = "commit" -> <<CommitCall>>
    [] r.op = "write"  -> WriteStmPin(r.x, t, r.pin, r.v)
    [] r.op = "toggle" -> ToggleStmPin(r.x, t, r.pin)

SomeStmPins == {"pa0", "pa7", "pa8", "pa15", "porta", "pb5", "pe12", "porte"}

PortPrograms(d, t) ==
  LET Port(script) ==
        LET whole == Append(script, PortRequest("hwa", "commit", "pa3", 0))
        IN  Program(d, [kind |-> "port", script |-> whole],
                    FlattenSeq([i \in DOMAIN whole |-> PortSteps(t, whole[i])]))
      Configure(p, f) == ConfigureStmPin(t, p, f)
  IN  {Port(s) : s \in SeqOf(PortRequests, 4) \cup SeqOf(MorePortRequests, 3)}
      \cup {Port(<<PortRequest(x, op, p, v)>>) :
               x \in Forms, op \in {"write", "toggle"}, p \in {"pa0", "pa15", "porta"},
               v \in {0, 1, 2, 65535}}
      \cup {Program(d, AboutFields, Configure(p, f) \o Configure(q, g) \o <<CommitCall>>) :
               p \in SomeStmPins, q \in {"pa0", "pa15", "porta", "pb5"},
               f \in DOMAIN Frequency, g \in {"f2MHz", "f50MHz"}}

-----------------------------------------------------------------------------
(* ESP8266.                                                                *)

EspPrograms(d, t) ==
  LET About(kind, o, a) == [kind |-> kind, o |-> o, a |-> a]
      Pin1(x, p, a) == Program(d, About("esp_pin", p, a),
                               ConfigureEspPin(x, t, p, a) \o <<CommitCall>>)
      Timer(a) == Program(d, About("esp_timer", "timer1", a),
                          ConfigureEspTimer(t, a) \o <<CommitCall>>)
      Two(a, b) == Program(d, About("esp_timer", "timer1", Merge(b, a)),
                           ConfigureEspTimer(t, a) \o <<CommitCall>>
                             \o ConfigureEspTimer(t, b) \o <<CommitCall>>)
      Uart1(x, o, a) == Program(d, About("esp_uart", o, a),
                                ConfigureEspUart(x, t, o, a) \o <<CommitCall>>)
      frame == [bps |-> 115200, databits |-> 8, parity |-> "none", stopbits |-> "one"]
      actions == {[action |-> v] : v \in {"none", "irq", "nmi"}}
      counts == [clock : DOMAIN TimerClock, countmode : DOMAIN CountMode,
                 top : {0, 1000, 8388607, 8388608}]
  IN  UNION {{Pin1(x, p, [function |-> f]) : x \in Forms, f \in DOMAIN Functions[p]} :
               p \in DOMAIN Functions}
      \cup {Pin1(x, p, a) : x \in Forms, p \in DOMAIN Functions,
               a \in [function : {"gpio"}, direction : DOMAIN EspDirection]}
      \cup {Pin1(x, p, [direction |-> "output"]) : x \in Forms, p \in {"gpio0", "gpio15"}}
      \cup {Program(d, AboutFields, WriteEspPin(t, p, v)) :
               p \in {"gpio0", "gpio15"}, v \in {0, 1, 2}}
      \cup {Program(d, AboutFields, ToggleEspPin(t, p)) : p \in {"gpio0", "gpio15"}}
      \cup {Timer(a) : a \in counts} \cup {Timer(a) : a \in actions}
      \cup {Two(a, b) : a, b \in actions}
      \cup {Two([countmode |-> "loop_down"], [top |-> 1000]),
            Two([countmode |-> "loop_down", top |-> 7], [countmode |-> "stop"])}
      \cup {Uart1(x, o, a) : x \in Forms, o \in {"uart0", "uart1"},
               a \in [databits : 5 .. 8, parity : DOMAIN EspParity,
                      stopbits : DOMAIN EspStopbits]}
      \cup {Uart1(x, o, Merge([bps |-> v], frame)) : x \in Forms, o \in {"uart0", "uart1"},
               v \in {77, 300, 9600, 57600, 115200, 921600}}
      \cup {Uart1(x, "uart0", [bps |-> 9600]) : x \in Forms}

-----------------------------------------------------------------------------
AvrPrograms(d, t) ==
  {PinPrograms(d, t), OtherPrograms(d, t), WatchdogPrograms(d, t), AnalogPrograms(d, t)}
    \cup (IF d = "attinyx5" THEN {PllPrograms(d, t)} ELSE {})
    \cup (IF d = "atmegax8" THEN {UartPrograms(d, t), TwiPrograms(d, t), SpiPrograms(d, t)}
          ELSE {UsiPrograms(d, t)})

ProgramsOn(d, t) ==
  {FieldPrograms(d, t), PairPrograms(d, t), IrqPrograms(d, t)}
    \cup (CASE d \in Avr -> AvrPrograms(d, t)
            [] d = "stm32f103" -> {ClockPrograms(d, t), PortPrograms(d, t)}
            [] d = "esp8266" -> {EspPrograms(d, t)})

MCPrograms ==
  LET on(d) == LET t == MCTables[d] IN ProgramsOn(d, t)
  IN  UNION {on(d) : d \in DOMAIN MCTables}
=============================================================================
