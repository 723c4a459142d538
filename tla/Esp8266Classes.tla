--------------------------- MODULE Esp8266Classes ---------------------------
(***************************************************************************)
(* The instructions of the ESP8266 classes: pins _io1a and their           *)
(* configuration _pcfa, timer _tm23a and UART _uarta.  x is the form, hw   *)
(* or hwa, T the table of the device, the arguments a a function on the    *)
(* keys that the instruction gives.                                        *)
(***************************************************************************)
EXTENDS Instructions

GivenTo(a, key) == key \in DOMAIN a

Key(a, key, steps) == IF GivenTo(a, key) THEN steps ELSE <<>>

\* A step as one write of a register.
Merged(step) ==
  LET parts == step.parts
  IN  IF "writes" \in DOMAIN step THEN Head(step.writes)
      ELSE [key   |-> KeyOf(parts[1]),
            mask  |-> UNION {Group(parts[i].bn, parts[i].bp) : i \in DOMAIN parts},
            value |-> UNION {{b + parts[i].bp : b \in {c \in 0 .. parts[i].bn - 1 :
                                              c + parts[i].vbp \in BitsOf(step.value)}} :
                               i \in DOMAIN parts}]

\* hw( configure, ... ) asks in a context of its own, whose commit writes
\* each of the registers once, in the order of their class.
AtOnce(asks, registers) ==
  LET on(k)  == SelectSeq([i \in DOMAIN asks |-> Merged(asks[i])], LAMBDA w : w.key = k)
      one(k) == FoldLeft(LAMBDA v, w : [key |-> k, mask |-> v.mask \cup w.mask,
                                        value |-> v.value \cup w.value],
                         [key |-> k, mask |-> {}, value |-> {}], on(k))
      some   == SelectSeq(registers, LAMBDA k : on(k) # <<>>)
  IN  <<[do |-> "hw", writes |-> [i \in DOMAIN some |-> one(some[i])]]>>

-----------------------------------------------------------------------------
(* Pins.                                                                   *)

\* The functions of each pin and their codes.
Functions ==
  [gpio0  |-> [gpio |-> 0, spi_cs2 |-> 1, clk_out |-> 4],
   gpio1  |-> [uart0_txd |-> 0, spi_cs1 |-> 1, gpio |-> 3, clk_rtc |-> 4],
   gpio2  |-> [gpio |-> 0, i2so_ws |-> 1, uart1_txd |-> 2, uart0_txd |-> 4,
               hw_uart0_txd |-> 4],
   gpio3  |-> [uart0_rxd |-> 0, i2so_data |-> 1, gpio |-> 3, clk_xtal |-> 4],
   gpio4  |-> [gpio |-> 0, clk_xtal |-> 1],
   gpio5  |-> [gpio |-> 0, clk_rtc |-> 1],
   gpio6  |-> [sd_clk |-> 0, spi_clk |-> 1, gpio |-> 3, uart1_cts |-> 4],
   gpio7  |-> [sd_data0 |-> 0, spi_q |-> 1, gpio |-> 3, uart1_txd |-> 4],
   gpio8  |-> [sd_data1 |-> 0, spi_d |-> 1, gpio |-> 3, u1_rxd |-> 4],
   gpio9  |-> [sd_data2 |-> 0, spi_hd |-> 1, gpio |-> 3, hspi_hd |-> 4],
   gpio10 |-> [sd_data3 |-> 0, spi_wp |-> 1, gpio |-> 3, hspi_wp |-> 4],
   gpio11 |-> [sd_cmd |-> 0, spi_cs0 |-> 1, gpio |-> 3, uart1_rts |-> 4],
   gpio12 |-> [mtdi |-> 0, i2si_data |-> 1, hspi_miso |-> 2, gpio |-> 3, uart0_dtr |-> 4],
   gpio13 |-> [mtck |-> 0, i2s_bck |-> 1, hspi_mosi |-> 2, gpio |-> 3, uart0_cts |-> 4,
               uart0_rxd |-> 4],
   gpio14 |-> [mtms |-> 0, i2si_ws |-> 1, hspi_clk |-> 2, gpio |-> 3, uart0_dsr |-> 4],
   gpio15 |-> [mtdo |-> 0, i2so_bck |-> 1, hspi_cs |-> 2, gpio |-> 3, uart0_rts |-> 4,
               uart0_txd |-> 4]]

\* The object that holds the configuration of a pin.
ConfigOf == [p \in DOMAIN Functions |-> p \o "_cf"]

EspDirection == [input |-> 0, output_when_awake |-> 1, output_when_sleeping |-> 2, output |-> 3]

EspPinBits(T, p) == Group(T.pins[p].bn, T.pins[p].bp)
EspPort(T, p, r) == <<T.pins[p].port, r>>

\* The writes that the configuration of a pin asks for: what a
\* function needs besides its code, the pins of the UART, is looked up under
\* a name that does not exist; an input leaves the port as it is.
PinWrites(x, T, p, a) ==
     Key(a, "function", <<WriteReg(x, T, ConfigOf[p], "fn", Functions[p][a.function])>>)
  \o Key(a, "direction",
         <<WriteReg(x, T, ConfigOf[p], "oex", EspDirection[a.direction])>>
           \o (IF a.direction = "input" THEN <<>>
               ELSE <<[do |-> x, writes |->
                         <<[key |-> EspPort(T, p, "_enb"), mask |-> EspPinBits(T, p),
                            value |-> EspPinBits(T, p)]>>]>>))

\* hw/hwa( configure, p, function, direction ): hw() writes the port first.
ConfigureEspPin(x, T, p, a) ==
  IF x = "hwa" THEN PinWrites(x, T, p, a)
  ELSE AtOnce(PinWrites(x, T, p, a), <<EspPort(T, p, "_enb"), <<ConfigOf[p], "_reg">>>>)

\* hw( write, p, v ): hwa( write ) does not compile.
WriteEspPin(T, p, v) ==
  <<[do |-> "hw", writes |->
       <<[key |-> EspPort(T, p, "_out"), mask |-> EspPinBits(T, p),
          value |-> {b + T.pins[p].bp : b \in BitsOf(v)}]>>]>>

\* hw( toggle, p )
ToggleEspPin(T, p) ==
  <<[do |-> "hwtoggle", from |-> EspPort(T, p, "_out"), to |-> EspPort(T, p, "_out"),
     bits |-> EspPinBits(T, p)]>>

-----------------------------------------------------------------------------
(* Class _tm23a: hwa( configure, timer1, ... ); hw() does not compile.     *)

TimerClock == [apb |-> 0, apb_div_1 |-> 0, apb_div_16 |-> 1, apb_div_256 |-> 2]

\* en and arl
CountMode == [stop |-> <<0, 0>>, down |-> <<1, 0>>, loop_down |-> <<1, 1>>]

\* ets_isr_mask() and ets_isr_unmask() act at once, before the commit.
TimerAction(T, action) ==
  <<HwaWrite(T, "timer1", "irqtype", 0),
    HwaWrite(T, "timer1", "ie", IF action = "none" THEN 0 ELSE 1),
    HwWrite(T, "os", "timer1", IF action = "irq" THEN 1 ELSE 0)>>

ConfigureEspTimer(T, a) ==
     Key(a, "clock", <<HwaWrite(T, "timer1", "psc", TimerClock[a.clock])>>)
  \o Key(a, "countmode", <<HwaWrite(T, "timer1", "en", CountMode[a.countmode][1]),
                           HwaWrite(T, "timer1", "arl", CountMode[a.countmode][2])>>)
  \o Key(a, "top", <<HwaWrite(T, "timer1", "load", a.top)>>)
  \o Key(a, "action", TimerAction(T, a.action))

-----------------------------------------------------------------------------
(* Class _uarta.                                                           *)

ApbHz == 80000000

EspParity == [none |-> 0, even |-> 2, odd |-> 3]
EspStopbits == [one |-> 1, one_half |-> 2, two |-> 3]

\* (int)(0.5 + hw_apbhz/bps)
Clkdiv(bps) == (ApbHz + bps \div 2) \div bps

\* hw/hwa( configure, o, bps, databits, parity, stopbits ): bps must be
\* followed by another key.
UartWrites(x, T, o, a) ==
     Key(a, "bps", <<WriteReg(x, T, o, "clkdiv", Clkdiv(a.bps))>>)
  \o Key(a, "databits", <<WriteReg(x, T, o, "cbn", a.databits - 5)>>)
  \o Key(a, "parity", <<WriteReg(x, T, o, "cpx", EspParity[a.parity])>>)
  \o Key(a, "stopbits", <<WriteReg(x, T, o, "csbn", EspStopbits[a.stopbits])>>)

ConfigureEspUart(x, T, o, a) ==
  IF DOMAIN a = {"bps"} THEN <<Refuse>>
  ELSE IF x = "hwa" THEN UartWrites(x, T, o, a)
  ELSE AtOnce(UartWrites(x, T, o, a), <<<<o, "_clkdiv">>, <<o, "_conf0">>>>)
=============================================================================
