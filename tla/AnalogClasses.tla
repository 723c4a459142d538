--------------------------- MODULE AnalogClasses ---------------------------
(***************************************************************************)
(* The instructions of the analog classes: the converters _ad10a, _ad10b   *)
(* and _ad10c, and the comparators _acmpa and _acmpb, which share the      *)
(* analog multiplexer.  T is the table of the device, o the object, f the  *)
(* frequency of the system clock; the arguments a are a function on the    *)
(* keys that the instruction gives.                                        *)
(***************************************************************************)
EXTENDS SerialClasses

Least(S) == CHOOSE x \in S : \A y \in S : x <= y

-----------------------------------------------------------------------------
(* Converters.                                                             *)

Dividers == <<2, 4, 8, 16, 32, 64, 128>>

\* Clock dividers: 2 is 1 or 0.
PrescalerCode(class, n) ==
  IF n = 2 /\ class = "ad10b" THEN 0 ELSE CHOOSE i \in DOMAIN Dividers : Dividers[i] = n

\* clock, min: the largest divider that leaves 50 kHz; clock, max: the
\* smallest that leaves no more than 200 kHz.
SlowestClock(f) ==
  LET fit == {n \in ToSet(Dividers) : f \div n >= 50000}
  IN  IF fit = {} THEN 2 ELSE CHOOSE n \in fit : \A m \in fit : m <= n
FastestClock(f) ==
  LET fit == {n \in ToSet(Dividers) : f \div n <= 200000}
  IN  IF fit = {} THEN 128 ELSE Least(fit)

\* The key div is clock, sysclk_div(...).
ClockDivider(a, f) ==
  IF Given(a, "div") THEN a.div
  ELSE IF a.clock = "min" THEN SlowestClock(f) ELSE FastestClock(f)

\* The event that starts a conversion: ts, with ate 1 but for manual.
TriggersA == <<"auto", "acmp0", "int0", "counter0_compare0", "counter0_overflow",
               "counter1_compare1", "counter1_overflow", "counter1_capture0">>
TriggersC == <<"auto", "acmp0", "int0", "counter0_compare0", "counter0_overflow",
               "counter0_compare1", "pcic0">>
Triggers(class) == IF class = "ad10c" THEN TriggersC ELSE TriggersA

References(class) ==
  CASE class = "ad10a" -> [vcc |-> 0, pin_aref |-> 1, bandgap |-> 2]
    [] class = "ad10b" -> [vcc |-> 1, pin_aref |-> 0, bandgap |-> 3]
    [] class = "ad10c" -> [vcc |-> 0, pin_aref |-> 1, bandgap_1100mV |-> 2,
                           bandgap_2560mV |-> 6, bandgap_2560mV_aref |-> 7]

InternalInputs(class) ==
  CASE class = "ad10a" -> [ground |-> \h20, bandgap |-> \h21, temperature |-> \h22]
    [] class = "ad10b" -> [temperature |-> 8, bandgap |-> 14, ground |-> 15]
    [] class = "ad10c" -> [bandgap |-> 12, ground |-> 13, temperature |-> 15]

AnalogPins == <<"adc0", "adc1", "adc2", "adc3", "adc4", "adc5", "adc6", "adc7">>

\* The pins that a class compares its argument with.
PinsOf(class) == SubSeq(AnalogPins, 1, IF class \in {"ad10c", "acmpb"} THEN 4 ELSE 8)

NoPin == "none"

\* The pin that an argument names: HW_PIN(name) or the pin itself.
PinOf(T, p) ==
  IF p \in DOMAIN T.named THEN T.named[p] ELSE IF p \in DOMAIN T.pins THEN p ELSE NoPin

\* The channels whose pin the argument p is: macros compare the numbers of
\* pins, which is 0 for a name without a pin.
Channels(T, class, p) ==
  {i - 1 : i \in {j \in DOMAIN PinsOf(class) : PinOf(T, p) = PinOf(T, PinsOf(class)[j])}}

InputCodes(T, class, input) ==
  IF input \in DOMAIN InternalInputs(class) THEN {InternalInputs(class)[input]}
  ELSE IF PinOf(T, input) = NoPin THEN {} ELSE Channels(T, class, input)

\* Neither the polarity nor any pair of differential inputs compiles.
NeverCompiles(a) == Given(a, "polarity") \/ Given(a, "positive_input")

\* The event that starts a conversion, and the side the result is aligned on.
TriggerCodes(class, trigger) ==
  IF trigger = "manual" THEN [ate |-> 0, ts |-> 0]
  ELSE [ate |-> 1,
        ts |-> (CHOOSE i \in DOMAIN Triggers(class) : Triggers(class)[i] = trigger) - 1]
LeftAligned(a) == IF Given(a, "align") THEN {IF a.align = "left" THEN 1 ELSE 0} ELSE {}

\* hwa( configure, adc0, clock, trigger, vref, align, input )
ConfigureAdc(T, o, a, f) ==
  LET class == T.objects[o].class
      W(reg, v) == HwaWrite(T, o, reg, v)
      codes == InputCodes(T, class, a.input)
      trigger == TriggerCodes(class, a.trigger)
  IN  IF NeverCompiles(a) \/ codes = {} \/ (Given(a, "clock") /\ class = "ad10a")
      THEN <<Refuse>>
      ELSE <<W("en", 1), W("ps", PrescalerCode(class, ClockDivider(a, f)))>>
             \o <<W("ate", trigger.ate), W("ts", trigger.ts), W("refs", References(class)[a.vref])>>
             \o SetToSeq({W("lar", v) : v \in LeftAligned(a)})
             \o <<W("mux", Least(codes))>>

\* hw/hwa( trigger, adc0 )
StartConversion(x, T, o) == <<WriteReg(x, T, o, "sc", 1)>>

-----------------------------------------------------------------------------
(* Comparators.                                                            *)

Edges == [both |-> 0, falling |-> 2, rising |-> 3]

\* hwa( configure, acmp0, edge, positive_input, negative_input ).  A name
\* without a pin is not refused when a channel has none either: adc6 and adc7
\* of atmegax8, of which adc6 is taken.
ConfigureComparator(T, o, a) ==
  LET class == T.objects[o].class
      W(reg, v) == HwaWrite(T, o, reg, v)
      Same(p, q) == PinOf(T, p) = PinOf(T, q)
      codes == Channels(T, class, a.negative_input)
      Positive == IF a.positive_input = "bandgap" THEN <<W("acbg", 1)>>
                  ELSE IF Same(a.positive_input, "ain0") THEN <<W("acbg", 0)>>
                  ELSE <<Refuse>>
      Negative == IF Same(a.negative_input, "ain1") THEN <<W("acme", 0)>>
                  ELSE IF codes = {} THEN <<Refuse>>
                  ELSE <<W("acme", 1), W("aden", 0), W("admux", Least(codes))>>
  IN  (IF Given(a, "edge") THEN <<W("acis", Edges[a.edge])>> ELSE <<>>)
        \o (IF Given(a, "positive_input") THEN Positive ELSE <<>>)
        \o (IF Given(a, "negative_input") THEN Negative ELSE <<>>)
=============================================================================
