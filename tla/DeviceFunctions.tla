-------------------------- MODULE DeviceFunctions --------------------------
(***************************************************************************)
(* What the serial and analog peripherals do after a program of Device has *)
(* configured them: the properties read the hardware registers back as the *)
(* peripheral does, its datasheet gives the meaning of the bits, and       *)
(* compare with the arguments.  program.about.kind is the peripheral and   *)
(* program.about.a its arguments, .f the frequency of the system clock.    *)
(***************************************************************************)
EXTENDS Device, AnalogClasses, FiniteSetsExt

Asked(kind) == Done /\ program.about.kind = kind
A == program.about.a
Hz == program.about.f

\* The value of a logical register in the hardware.
Value(o, f) ==
  LET parts == Field(T, o, f)
  IN  SumSet(UNION {{2^(parts[i].vbp + b - parts[i].bp) :
                       b \in Mem(Address(KeyOf(parts[i]))) \cap MaskOf(parts[i])} :
                      i \in DOMAIN parts})

IsOutput(name) == PinNow(T.named[name], "ddr") # {}
IsHigh(name)   == PinNow(T.named[name], "port") # {}

-----------------------------------------------------------------------------
\* |f/x - 1| <= 2 %
Within2(f, x) == Distance(f, x) * 50 <= x

\* The UART sends and receives the frames that the last instruction asked
\* for, with what the instructions before it set, and at a rate within 2 % of
\* the one asked if the hardware has such a rate.  The code refuses a rate
\* only if it has no setting at all: it accepts one that is far off.
UartAsAsked ==
  Asked("uart") =>
    LET bits  == Value("uart0", "csz")
        units == IF Value("uart0", "2x") = 1 THEN 8 ELSE 16
        near(n) == {Hz \div (n * A.bps), Hz \div (n * A.bps) + 1} \cap 1 .. 4096
    IN  /\ A.databits = (IF bits = 7 THEN 9 ELSE 5 + bits)
        /\ A.parity = <<"none", "reserved", "even", "odd">>[1 + Value("uart0", "pm")]
        /\ A.stopbits = 1 + Value("uart0", "sbs")
        /\ A.receiver = (IF Value("uart0", "rxen") = 1 THEN "enabled" ELSE "disabled")
        /\ A.transmitter = (IF Value("uart0", "txen") = 1 THEN "enabled" ELSE "disabled")
        /\ (\E n \in {8, 16} : \E b \in near(n) : Within2(Hz, n * b * A.bps)) =>
             Within2(Hz, units * (Value("uart0", "brr") + 1) * A.bps)

-----------------------------------------------------------------------------
\* A rate for which the divider is rounded to 256, which br cannot hold.
Wraps == \E n \in 0 .. 3 : Hz \div A.sclhz \in 16 + 511 * 4^n .. 15 + 512 * 4^n

\* The two-wire interface holds both lines high as outputs, has the address
\* and the mask asked for, and drives scl within 1 % or one cycle of the rate
\* asked.  One exception: a rate in the last half step of a prescaler gives
\* the bit rate 0, the fastest.
TwiAsAsked ==
  Asked("twi") =>
    LET cycles == 16 + 2 * Value("twi0", "br") * 4^Value("twi0", "psc")
        off    == Distance(Hz, cycles * A.sclhz)
    IN  /\ \A pin \in {"scl", "sda"} : IsOutput(pin) /\ IsHigh(pin)
        /\ Given(A, "slave_address") => Value("twi0", "sla") = A.slave_address
        /\ Given(A, "slave_address_mask") => Value("twi0", "slam") = A.slave_address_mask
        /\ Given(A, "sclhz") => IF Wraps THEN cycles = 16
                                ELSE off <= A.sclhz \/ off * 100 <= Hz

-----------------------------------------------------------------------------
\* The dividers of the SPI clock by the code that the hardware decodes.
SpiDivider == <<4, 16, 64, 128, 2, 8, 32, 64>>

SpiAsAsked ==
  LET idle   == IF Value("spi0", "cpol") = 1 THEN "high" ELSE "low"
      second == Value("spi0", "cpha") = 1
      rises  == (idle = "low") # second
  IN  /\ (Value("spi0", "en") = 1) = (A.mode # "off")
      /\ (Value("spi0", "mstr") = 1) = (A.mode = "master")
      /\ A.mode = "master" => IsOutput("mosi") /\ IsOutput("sck")
      /\ A.mode = "slave" => IsOutput("miso")
      /\ A.clock = SpiDivider[1 + Value("spi0", "xpr")]
      /\ A.sck_idle = idle
      /\ CASE A.sampling_edge = "first"   -> ~ second
           [] A.sampling_edge = "second"  -> second
           [] A.sampling_edge = "rising"  -> rises
           [] A.sampling_edge = "falling" -> ~ rises

\* Three wires, shifted by the external clock or, for a master, by software;
\* the slave does not drive do.
UsiAsAsked ==
  /\ Value("usi0", "wm") = 1 /\ Value("usi0", "cs") \in {2, 3}
  /\ (Value("usi0", "clk") = 1) = (A.mode # "spi_slave")
  /\ A.mode # "spi_slave" => IsOutput("usi0_ck") /\ IsOutput("usi0_do")
  /\ A.mode = "spi_master" => ~ IsOutput("usi0_di")

\* The SPI, or the USI as an SPI, has the role, the pins, the clock and the
\* sampling edge asked for.
BusAsAsked == (Asked("spi") => SpiAsAsked) /\ (Asked("usi") => UsiAsAsked)

\* Whatever was configured before in the context, the serial peripheral that
\* was configured last has the frames, the rate, the address, the role and
\* the pins asked for.
SerialAsAsked == UartAsAsked /\ TwiAsAsked /\ BusAsAsked

-----------------------------------------------------------------------------
(* Converter and comparator: program.about.adc and program.about.acmp are  *)
(* their arguments, [none |-> TRUE] if not configured, and .last the last. *)

AdcArguments  == program.about.adc
AcmpArguments == program.about.acmp
IsConfigured(a) == ~ Given(a, "none")

AdcDivider == IF Value("adc0", "ps") = 0 THEN 2 ELSE 2^Value("adc0", "ps")

\* The pin that the channel n of the multiplexer connects.
ChannelPin(n) ==
  IF n \in 0 .. 7 THEN PinOf(T, AnalogPins[n + 1]) ELSE NoPin

\* The comparator uses the multiplexer, and turns the converter off.
Takes(a) == Given(a, "negative_input") /\ PinOf(T, a.negative_input) # PinOf(T, "ain1")

AdcAsAsked ==
  LET a == AdcArguments
      rate == Hz \div AdcDivider
      reachable == {n \in ToSet(Dividers) : Hz \div n \in 50000 .. 200000}
  IN  /\ Value("adc0", "en") = 1
      /\ IF Given(a, "div") THEN AdcDivider = a.div
         ELSE reachable # {} => AdcDivider \in reachable
      /\ (Value("adc0", "ate") = 0) = (a.trigger = "manual")
      /\ a.trigger # "manual" => Triggers(T.objects["adc0"].class)[1 + Value("adc0", "ts")] = a.trigger
      /\ Given(a, "align") => (Value("adc0", "lar") = 1) = (a.align = "left")
      /\ PinOf(T, a.input) # NoPin => ChannelPin(Value("adc0", "mux")) = PinOf(T, a.input)

\* The pin at the negative input of the comparator, which has the multiplexer
\* when the converter is off.
NegativePin ==
  IF Value("acmp0", "acme") = 1 /\ Value("acmp0", "aden") = 0
  THEN ChannelPin(Value("acmp0", "admux")) ELSE PinOf(T, "ain1")

AcmpAsAsked ==
  LET a == AcmpArguments
  IN  /\ Given(a, "edge") =>
           a.edge = <<"both", "reserved", "falling", "rising">>[1 + Value("acmp0", "acis")]
      /\ Given(a, "positive_input") =>
           (Value("acmp0", "acbg") = 1) = (a.positive_input = "bandgap")
      /\ Given(a, "negative_input") /\ PinOf(T, a.negative_input) # NoPin =>
           NegativePin = PinOf(T, a.negative_input)

\* The converter and the comparator are as asked, though they share the
\* multiplexer and the bit that turns the converter on: the one configured
\* last is, and the other is too unless the multiplexer was taken from it.
\* One exception: a name without a pin selects the channel 6 of atmegax8.
AnalogAsAsked ==
  Asked("analog") =>
    LET last == program.about.last
        AdcFree  == last = "adc" \/ ~ Takes(AcmpArguments)
        AcmpFree == last = "acmp" \/ ~ Takes(AcmpArguments)
    IN  /\ IsConfigured(AdcArguments) /\ AdcFree => AdcAsAsked
        /\ IsConfigured(AcmpArguments) /\ AcmpFree => AcmpAsAsked
=============================================================================
