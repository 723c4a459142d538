---------------------------- MODULE Instructions ----------------------------
(***************************************************************************)
(* What the instructions hw(...) and hwa(...) on a device expand to: a     *)
(* sequence of steps, each a write of a logical register, as the method    *)
(* lookup of src/hwa/hwa_macros.h finds it in the tables of the device T   *)
(* (a record Device of a module Dev...).  The macros check the names of    *)
(* the arguments before any code exists; an instruction that does not      *)
(* compile is the step Refuse.                                             *)
(***************************************************************************)
EXTENDS DeviceTable

Refuse == [do |-> "refuse"]

\* hwa_commit() between the instructions of a program.
CommitCall == [do |-> "commit"]

Refused(steps) == \E i \in DOMAIN steps : steps[i] = Refuse

-----------------------------------------------------------------------------
(* Logical registers.                                                      *)

IsPin(T, o) == o \in DOMAIN T.pins

\* A pin is bits of its port, and one bit of a digital input register.
PinField(T, o, f) ==
  LET pin == T.pins[o]
  IN  IF f = "did" THEN pin.did ELSE X(pin.port, f, pin.bn, pin.bp)

\* A group of bits of "self" is in a register of the object.
Located(parts, o) ==
  [i \in DOMAIN parts |->
     IF parts[i].owner = "self" THEN [parts[i] EXCEPT !.owner = o] ELSE parts[i]]

\* _HW_M: the groups of bits of register f of object o; none if f is not a
\* register of o.
Field(T, o, f) ==
  IF IsPin(T, o) THEN PinField(T, o, f)
  ELSE IF o \notin DOMAIN T.objects THEN <<>>
  ELSE LET obj == T.objects[o]
       IN  IF f \in DOMAIN obj.bits THEN Located(obj.bits[f], o)
           ELSE IF f \in DOMAIN obj.regs THEN X(o, f, obj.regs[f].size, 0)
           ELSE <<>>

KeyOf(part) == <<part.owner, part.reg>>

RegisterOf(T, k) == T.objects[k[1]].regs[k[2]]

\* The method lookup finds the register in the tables.
Exists(T, k) == k[1] \in DOMAIN T.objects /\ k[2] \in DOMAIN T.objects[k[1]].regs

\* _hwa_write_reg(o,f,v).  A register made of two groups of another object
\* (_xob2) has no _hwa_write method.
HwaWrite(T, o, f, v) ==
  LET parts == Field(T, o, f)
  IN  IF \/ parts = <<>>
         \/ \E i \in DOMAIN parts : KeyOf(parts[i]) \notin T.copies
         \/ Len(parts) = 2 /\ parts[1].owner # o
      THEN Refuse
      ELSE [do |-> "hwa", parts |-> parts, value |-> v]

\* _hw_write_reg(o,f,v)
HwWrite(T, o, f, v) ==
  LET parts == Field(T, o, f)
  IN  IF \/ parts = <<>>
         \/ \E i \in DOMAIN parts : ~ Exists(T, KeyOf(parts[i]))
      THEN Refuse
      ELSE [do |-> "hw", parts |-> parts, value |-> v]

\* The two forms of an instruction that takes the form as its parameter x.
WriteReg(x, T, o, f, v) == IF x = "hwa" THEN HwaWrite(T, o, f, v) ELSE HwWrite(T, o, f, v)

\* hwa->o.config.item = v: kept in the context until the commit.
Config(o, item, v) == [do |-> "config", object |-> o, item |-> item, value |-> v]

-----------------------------------------------------------------------------
(* Instructions that several classes share.                                *)

State == [on |-> 1, off |-> 0]

\* hw/hwa( turn, HW_IRQ(...), on | off )
TurnIrq(x, T, irq, v) == <<WriteReg(x, T, irq.object, irq.ie, State[v])>>

\* hw/hwa( clear, HW_IRQFLAG(...) )
ClearIrqFlag(x, T, irq) == <<WriteReg(x, T, irq.object, irq.if, 1)>>

\* hw/hwa( power, o, on | off ): the macro looks for the state named `v`
\* instead of the value of v, so that no use of it compiles.
Power(x, T, o, v) == <<Refuse>>

-----------------------------------------------------------------------------
(* Class _io1a: pins.  An argument that is not given is "-".               *)

AllBits(T, o) == 2^T.pins[o].bn - 1

\* hwa( configure, o, mode, direction, pullup ).  Mode digital writes nothing.
ConfigurePin(T, o, mode, direction, pullup) ==
     (IF mode = "analog" THEN <<HwaWrite(T, o, "did", 1)>> ELSE <<>>)
  \o (CASE direction = "input"  -> <<HwaWrite(T, o, "ddr", 0)>>
        [] direction = "output" -> <<HwaWrite(T, o, "ddr", AllBits(T, o))>>
        [] OTHER                -> <<>>)
  \o (CASE pullup = "on"  -> <<HwaWrite(T, o, "port", AllBits(T, o))>>
        [] pullup = "off" -> <<HwaWrite(T, o, "port", 0)>>
        [] OTHER          -> <<>>)

\* hw( configure, o, ... ): the pullup names macros that do not exist; an
\* analog output is refused.
HwConfigurePin(T, o, mode, direction, pullup) ==
  IF pullup # "-" \/ (mode = "analog" /\ direction = "output") THEN <<Refuse>>
  ELSE   (IF mode = "analog" THEN <<HwWrite(T, o, "did", 1)>> ELSE <<>>)
      \o (CASE direction = "input"  -> <<HwWrite(T, o, "ddr", 0)>>
            [] direction = "output" -> <<HwWrite(T, o, "ddr", AllBits(T, o))>>
            [] OTHER                -> <<>>)

\* hw/hwa( write, o, v )
WritePin(x, T, o, v) == <<WriteReg(x, T, o, "port", v)>>

-----------------------------------------------------------------------------
(* Classes _inta, _pcica, _psca, _acmpa, _wdoga: single writes.            *)

SenseCode == [low_level |-> 0, edge |-> 1, falling_edge |-> 2, rising_edge |-> 3]

\* hw/hwa( configure, int0, sense, ... )
ConfigureInt(x, T, o, sense) == <<WriteReg(x, T, o, "sc", SenseCode[sense])>>

\* hw/hwa( turn, pcic0, pin, on | off )
TurnPcic(x, T, o, p, v) ==
  LET pin  == T.pins[p]
      part == Part(o, "msk", pin.bn, pin.bp, 0)
  IN  IF ~ Exists(T, KeyOf(part)) THEN <<Refuse>>
      ELSE <<[do |-> x, parts |-> <<part>>, value |-> State[v] * AllBits(T, p)]>>

\* hw( turn, prescaler0, on | off ) and hw( reset, prescaler0 )
TurnPrescaler(T, o, v) ==
  IF v = "off" THEN <<HwWrite(T, o, "tsmpsr", 3)>> ELSE <<HwWrite(T, o, "tsm", 0)>>
ResetPrescaler(T, o) == <<HwWrite(T, o, "psr", 1)>>

-----------------------------------------------------------------------------
(* Classes _wdoga, _wdogb.                                                 *)

NoTimeout == -1

ActionCode == [none |-> 0, irq |-> 1, reset |-> 2, irq_or_reset |-> 3]

\* hwa( configure, watchdog0, timeout, action ): 2^timeout times 16 ms.  The
\* branch of the macro without timeout names parameters it does not have.
ConfigureWatchdog(T, o, timeout, action) ==
  IF timeout = NoTimeout THEN <<Refuse>>
  ELSE <<Config(o, "timeout", timeout), Config(o, "action", ActionCode[action])>>

\* Mutant: off without the timed sequence.
TurnWatchdogPlain(T, o, v) == <<HwaWrite(T, o, "wde", State[v])>>

\* hwa( turn, watchdog0, on | off )
TurnWatchdog(T, o, v) ==
  IF v = "on" THEN <<HwaWrite(T, o, "wde", 1)>> ELSE <<Config(o, "action", ActionCode.none)>>

\* hw( turn, watchdog0, on | off ): the macro does not take the arguments that
\* the method call ends with.
HwTurnWatchdog(T, o, v) == <<Refuse>>

-----------------------------------------------------------------------------
(* Class _pscb: hwa( configure, prescaler1, clock, ... ), not the device    *)
(* clocked by its PLL.                                                     *)

PllCode == [system |-> 0, pll_32MHz |-> 1, pll_64MHz |-> 2]

ConfigurePll(T, o, clock) ==
  (CASE clock = "pll_32MHz" -> <<HwaWrite(T, o, "lsm", 1)>>
     [] clock = "pll_64MHz" -> <<HwaWrite(T, o, "lsm", 0)>>
     [] OTHER               -> <<>>)
    \o <<Config(o, "clock", PllCode[clock])>>
=============================================================================
