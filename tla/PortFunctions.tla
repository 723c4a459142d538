--------------------------- MODULE PortFunctions ---------------------------
(***************************************************************************)
(* What the clocks and the pins of an STM32 and the pins, the timer and    *)
(* the UARTs of an ESP8266 do after a program of Device has configured     *)
(* them.  program.about.script is what the program asks for, a sequence of *)
(* records: op is a request in the form x (hw or hwa) or "commit".         *)
(***************************************************************************)
EXTENDS DeviceFunctions, Stm32Classes, Esp8266Classes

Script == program.about.script
IsCommit(i) == Script[i].op = "commit"

\* The positions of the requests that satisfy P; the commit that follows i.
Requests(P(_)) == {i \in DOMAIN Script : ~ IsCommit(i) /\ P(Script[i])}
CommitAfter(i) == Min({j \in DOMAIN Script : j > i /\ IsCommit(j)})

-----------------------------------------------------------------------------
(* STM32: the clock tree, read from cr and cfgr as the hardware does.      *)

Clk(f) == Value("rcc", f)

PllInput  == IF Clk("pllsrc") = 0 THEN "hsi_half"
             ELSE IF Clk("pllxtpre") = 0 THEN "hse" ELSE "hse_half"
ApbDivider(code) == IF code < 4 THEN 1 ELSE 2^(code - 3)
AhbDivider(code) ==
  IF code < 8 THEN 1 ELSE <<2, 4, 8, 16, 64, 128, 256, 512>>[code - 7]
OnOff(bit) == IF bit = 1 THEN "on" ELSE "off"

ClockTree ==
  [hse |-> OnOff(Value("hse", "cken")), hsi |-> OnOff(Value("hsi", "cken")),
   port0 |-> OnOff(Value("port0", "cken")), pll |-> OnOff(Clk("pllon")),
   source |-> PllInput, multiplier |-> Clk("pllmul") + 2,
   sysclk |-> IF Clk("sw") = 3 THEN "none" ELSE <<"hsi", "hse", "pll">>[Clk("sw") + 1],
   ahb |-> AhbDivider(Clk("hpre")), apb1 |-> ApbDivider(Clk("ppre1")),
   apb2 |-> ApbDivider(Clk("ppre2")), adc |-> 2 * (Clk("adcpre") + 1),
   usb |-> IF Clk("usbpre") = 1 THEN "one" ELSE "one_half",
   systick |-> OnOff(Value("systick", "enable")),
   systick_clock |-> IF Value("systick", "clksource") = 1 THEN "ahb" ELSE "ahb_8",
   reload |-> Value("systick", "reload")]

PllSettings == {"source", "multiplier"}

\* Whether the PLL runs when the request i reaches the hardware: the commit
\* writes cr, where it is turned on, before cfgr, where it is set up.
PllRunsAt(i) ==
  LET turns == Requests(LAMBDA r : r.op = "pll")
      until == IF Script[i].x = "hw" THEN i ELSE CommitAfter(i)
      before == {j \in turns : j < until}
  IN  IF before = {} THEN BitOf("pllon", "rcc") \in InitialMem(Address(<<"rcc", "cr">>))
      ELSE Script[Max(before)].v = "on"

\* The clock tree is the one that the instructions asked for last.  Two
\* exceptions: a PLL that runs keeps its source and multiplier, and one that
\* is set up and turned on in one commit already runs when the settings come;
\* and the dividers 4, 6 and 8 of the ADC are 2, 4 and 6.
ClockAsAsked ==
  Asked("clock") =>
    \A i \in Requests(LAMBDA r : TRUE) :
      LET op   == Script[i].op
          last == \A j \in Requests(LAMBDA r : r.op = op) : j <= i
          held == \E j \in Requests(LAMBDA r : r.op \in PllSettings) : PllRunsAt(j)
      IN  last /\ ~ (op \in PllSettings /\ held) =>
            ClockTree[op] = (IF op = "adc" THEN IF Script[i].n = 2 THEN 2 ELSE Script[i].n - 2
                             ELSE IF "n" \in DOMAIN Script[i] THEN Script[i].n
                             ELSE Script[i].v)

\* The clock tree of an STM32, the clock of the timer of an AVR with a PLL and
\* the watchdog of an AVR are as asked last, whatever sequence of writes that
\* takes, up to the exceptions named above.
ClocksAsAsked == ClockAsAsked /\ PllAsAsked /\ WatchdogAsAsked

-----------------------------------------------------------------------------
(* STM32: the levels of the pins of a port.  A program writes and toggles  *)
(* them; hwa() collects, and the commit writes, then toggles.              *)

BitsIn(p) == PinBits(p)
OnesIn(p, v) == {i \in PinBits(p) : i - T.pins[p].bp \in BitsOf(v)}
Toggled(levels, bits) == (levels \ bits) \cup (bits \ levels)

\* What is left for the commit: one write and the pins to toggle.
Idle == [reset |-> {}, set |-> {}, toggle |-> {}]

Perform(s, r) ==
  LET write  == [s.later EXCEPT !.reset = BitsIn(r.pin), !.set = OnesIn(r.pin, r.v)]
      toggle == [s.later EXCEPT !.toggle = @ \cup BitsIn(r.pin)]
      set(levels, w) == (levels \ w.reset) \cup w.set
  IN  CASE r.op = "commit" ->
             [levels |-> Toggled(set(s.levels, s.later), s.later.toggle), later |-> Idle]
        [] r.op = "write"  -> IF r.x = "hwa" THEN [s EXCEPT !.later = write]
                              ELSE [s EXCEPT !.levels = set(@, write)]
        [] r.op = "toggle" -> IF r.x = "hwa" THEN [s EXCEPT !.later = toggle]
                              ELSE [s EXCEPT !.levels = Toggled(@, BitsIn(r.pin))]

OdrAddress == Address(<<"port0", "odr">>)

LevelsAsked ==
  FoldLeft(Perform, [levels |-> InitialMem(OdrAddress) \cap 0 .. 15, later |-> Idle],
           Script).levels

\* Commits that toggle pins.
TogglesAt(k) ==
  IsCommit(k) /\ \E i \in Requests(LAMBDA r : r.x = "hwa" /\ r.op = "toggle") :
                   i < k /\ CommitAfter(i) = k

\* A commit that toggles trusts the copy of odr, which is known from the
\* reset or from an earlier toggle, and which no other instruction changes.
Misled ==
  \E k \in DOMAIN Script : TogglesAt(k) /\
    \E i \in 1 .. k - 1 :
      /\ ~ IsCommit(i) /\ ~ (Script[i].x = "hwa" /\ Script[i].op = "toggle")
      /\ \/ start = "reset"
         \/ \E j \in 1 .. k - 1 : TogglesAt(j) /\ j < (IF Script[i].x = "hw" THEN i
                                                       ELSE CommitAfter(i))

\* A commit does not repeat a write that an earlier commit did, although an
\* instruction hw() changed the pins in between.
WrittenTwice ==
  \E i, j \in Requests(LAMBDA r : r.x = "hwa" /\ r.op = "write") :
    /\ Script[i].pin = Script[j].pin /\ Script[i].v = Script[j].v
    /\ \E k \in Requests(LAMBDA r : r.x = "hw") : CommitAfter(i) < k /\ k < CommitAfter(j)

\* The pins have the levels that the instructions gave them, whatever the
\* order of writes and toggles, at once or at a commit.  Two exceptions:
\* toggles after a write when the copy of odr is trusted, and a write that the
\* context takes for done.
PortAsAsked ==
  Asked("port") /\ ~ Misled /\ ~ WrittenTwice => Mem(OdrAddress) \cap 0 .. 15 = LevelsAsked

-----------------------------------------------------------------------------
(* ESP8266: program.about.a is the arguments.                              *)

\* The functions of pin p that its configuration selects.
Selected(p) == {f \in DOMAIN Functions[p] : Functions[p][f] = Value(ConfigOf[p], "fn")}

EspPinAsAsked ==
  LET p  == program.about.o
      oe == Value(ConfigOf[p], "oe") = 1
      soe == Value(ConfigOf[p], "soe") = 1
  IN  /\ GivenTo(A, "function") => A.function \in Selected(p)
      /\ GivenTo(A, "direction") =>
           /\ oe = (A.direction \in {"output", "output_when_awake"})
           /\ soe = (A.direction \in {"output", "output_when_sleeping"})
           /\ A.direction # "input" => PinNow(p, "_enb") # {}
      /\ \A q \in DOMAIN T.pins \ {p} :
           /\ PinNow(q, "_enb") = PinBefore(q, "_enb")
           /\ LET a == Address(<<ConfigOf[q], "_reg">>) IN Mem(a) = InitialMem(a)

\* The interrupt of the timer reaches the system if it is asked for, and the
\* counter runs over the period asked for.
TimerAsAsked ==
  /\ GivenTo(A, "clock") =>
       16^Value("timer1", "psc") = [apb |-> 1, apb_div_1 |-> 1, apb_div_16 |-> 16,
                                    apb_div_256 |-> 256][A.clock]
  /\ GivenTo(A, "countmode") =>
       /\ (Value("timer1", "en") = 1) = (A.countmode # "stop")
       /\ (Value("timer1", "en") = 1 /\ Value("timer1", "arl") = 1) = (A.countmode = "loop_down")
  /\ GivenTo(A, "top") => Value("timer1", "load") = A.top
  /\ GivenTo(A, "action") =>
       /\ (Value("timer1", "ie") = 1) = (A.action # "none")
       /\ (Value("os", "timer1") = 1) = (A.action = "irq")

\* The rate is the nearest that the divider has.
EspUartAsAsked ==
  LET o == program.about.o
  IN  /\ GivenTo(A, "bps") => Distance(ApbHz, Value(o, "clkdiv") * A.bps) * 2 <= A.bps
      /\ GivenTo(A, "databits") => Value(o, "cbn") + 5 = A.databits
      /\ GivenTo(A, "parity") =>
           A.parity = (IF Value(o, "cpae") = 0 THEN "none"
                       ELSE IF Value(o, "cpa") = 0 THEN "even" ELSE "odd")
      /\ GivenTo(A, "stopbits") =>
           A.stopbits = <<"reserved", "one", "one_half", "two">>[1 + Value(o, "csbn")]

\* A pin, the timer or a UART of the ESP8266 does what the instruction says,
\* from the copies of a context or from the context that hw() makes for
\* itself, and no other pin changes.  One exception: the pins of the UART are
\* not swapped, so that gpio13 and gpio15 carry cts and rts, not rxd and txd.
EspAsAsked ==
  /\ Asked("esp_pin")   => EspPinAsAsked
  /\ Asked("esp_timer") => TimerAsAsked
  /\ Asked("esp_uart")  => EspUartAsAsked

-----------------------------------------------------------------------------
\* The serial, analog and timer peripherals and the pins of every device do
\* what the instructions asked of them, whatever was configured before or
\* shares their registers.
PeripheralsAsAsked == SerialAsAsked /\ AnalogAsAsked /\ PortAsAsked /\ EspAsAsked
=============================================================================
