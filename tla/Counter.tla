------------------------------ MODULE Counter ------------------------------
(***************************************************************************)
(* A counting unit of an AVR device with its compare and capture units,    *)
(* configured through the context.  The instructions only store their      *)
(* arguments (class _c8b writes its registers at once); hwa_commit()       *)
(* deduces the mode registers from all the arguments together, or refuses  *)
(* the program.  The arguments stay in the context for the next commit.    *)
(***************************************************************************)
EXTENDS CounterSolvers

CONSTANT
  Programs    \* name -> [class, rounds]: what may be called before each
              \* commit, rounds[n][unit] is the set of the calls for a unit

ASSUME ProgramsAssumption ==
  \A p \in DOMAIN Programs :
    LET class  == Programs[p].class
        rounds == Programs[p].rounds
    IN /\ class \in Classes
       /\ Len(rounds) \in Nat \ {0}
       /\ \A n \in 1..Len(rounds) :
            /\ DOMAIN rounds[n] \subseteq UnitsOf(class)
            /\ \A unit \in DOMAIN rounds[n] :
                 rounds[n][unit] \subseteq CallsOf(class, unit)

VARIABLES
  prog,     \* the program, in DOMAIN Programs
  round,    \* number of the next commit
  left,     \* units that may still be configured before it
  config,   \* hwa->o.config of the counter and of its units
  written,  \* fields written since the last commit: mmask and mvalue
  asked,    \* last value written in every field: mvalue
  reg,      \* fields of the hardware registers
  pins,     \* <<unit, pin>>: pins configured as outputs
  phase     \* "configuring" | "committed" | "refused": HWA_ERR

vars == <<prog, round, left, config, written, asked, reg, pins, phase>>

Class  == Programs[prog].class
Rounds == Programs[prog].rounds
Calls(n, unit) == Rounds[n][unit]

CompareUnits == {"compare0", "compare1", "compare2"}
Fields == {"cs", "wgm", "compare0", "compare1", "compare2", "acic", "ices", "icnc",
           "ctc", "ie", "pwm0", "pwm1", "mode0", "mode1"}

\* The values the setup of each class gives.
NoCounter == [clock |-> Unset, countmode |-> Unset, top |-> Unset, overflow |-> Unset]
NoCompare == [update |-> Unset, output |-> Unset, low |-> Unset]
NoCapture == [input |-> Unset, edge |-> Unset, filter |-> Unset]
NoConfig  == [u \in Units \cup {"counter"} |->
                CASE u = "counter"  -> NoCounter
                  [] u = "capture0" -> NoCapture
                  [] OTHER          -> NoCompare]

Init ==
  /\ prog \in DOMAIN Programs
  /\ round = 1
  /\ left = DOMAIN Rounds[1]
  /\ config = NoConfig
  /\ written = NoField
  /\ asked = [f \in Fields |-> 0]
  /\ reg = [f \in Fields |-> 0]
  /\ pins = {}
  /\ phase = "configuring"

-----------------------------------------------------------------------------
(* Instructions.                                                           *)

\* An argument that is not given keeps what an earlier instruction gave.
Given(call, old) ==
  [a \in DOMAIN old |-> IF a \in DOMAIN call /\ call[a] # Unset THEN call[a] ELSE old[a]]

Calling(unit) ==
  /\ phase # "refused" /\ unit \in left
  /\ left' = left \ {unit}
  /\ UNCHANGED <<prog, round, reg, pins>>

\* The value of cs for a clock: 0 for `none`.
Cs(class, clock) ==
  LET codes == Arguments(class).clocks
  IN IF clock = 0 THEN 0 ELSE CHOOSE i \in DOMAIN codes : codes[i] = clock

\* 8-bit counters refuse at once an overflow at the bottom when counting up.
Refused(class, c) ==
  /\ class \in {"c8a", "c8c"}
  /\ c.countmode = "up_loop" /\ c.overflow = "at_bottom"

ConfigureCounter ==
  /\ Class # "c8b"
  /\ Calling("counter")
  /\ \E call \in Calls(round, "counter") :
       LET c == Given([call EXCEPT !.clock = Cs(Class, call.clock)], config["counter"])
       IN /\ config' = [config EXCEPT !["counter"] = c]
          /\ phase' = IF call.overflow # Unset /\ Refused(Class, c)
                      THEN "refused" ELSE "configuring"
  /\ UNCHANGED <<written, asked>>

\* Class _c8b: the registers are written, and nothing is kept.
ConfigureCounter8b ==
  /\ Class = "c8b"
  /\ Calling("counter")
  /\ \E call \in Calls(round, "counter") :
       LET ctc == IF call.top = Unset THEN NoField
                  ELSE Field("ctc", IF call.top = "compare2" THEN 1 ELSE 0)
       IN written' = Over(Field("cs", Cs("c8b", call.clock)), Over(ctc, written))
  /\ phase' = "configuring"
  /\ UNCHANGED <<config, asked>>

ConfigureUnit(unit) ==
  /\ Calling(unit)
  /\ \E call \in Calls(round, unit) :
       config' = [config EXCEPT ![unit] = Given(call, @)]
  /\ phase' = "configuring"
  /\ UNCHANGED <<written, asked>>

\* hwa( turn, HW_IRQ(counter1), on | off ) with a counter of class _c8b.
TurnIrq ==
  /\ Calling("irq")
  /\ \E state \in Calls(round, "irq") : written' = Over(Field("ie", state), written)
  /\ phase' = "configuring"
  /\ UNCHANGED <<config, asked>>

-----------------------------------------------------------------------------
(* hwa_commit().                                                           *)

Solution ==
  CASE Class \in {"c8a", "c8c"} -> Solve8(Class, config["counter"], config)
    [] Class \in Bits16 -> Solve16(Class, config["counter"], config, config["capture0"])
    [] OTHER -> Solve8b(config, written, asked)

\* A field must hold its value: clock ext_xosc of class _c8c does not fit.
Fits(fields) == "cs" \in DOMAIN fields => (Class = "c8b" \/ fields["cs"] < 8)

Driven ==
  {<<u, "high">> : u \in {v \in CompareUnits : config[v].output \notin {Unset, "DIS"}}}
  \cup {<<u, "low">> : u \in {v \in CompareUnits : config[v].low \notin {Unset, "DIS"}}}

Commit ==
  /\ phase # "refused"
  /\ LET s == Solution
         good == s.error = 0 /\ Fits(s.fields)
     IN IF ~good
        THEN phase' = "refused" /\ UNCHANGED <<prog, round, left, config, written, asked, reg, pins>>
        ELSE /\ phase' = "committed"
             /\ reg' = Over(s.fields, reg)
             /\ asked' = Over(s.fields, asked)
             /\ written' = NoField
             /\ pins' = pins \cup Driven
             /\ config' = [config EXCEPT !["counter"].top = StoredTop(config["counter"])]
             /\ round' = IF round < Len(Rounds) THEN round + 1 ELSE round
             /\ left' = IF round < Len(Rounds) THEN DOMAIN Rounds[round + 1] ELSE {}
             /\ UNCHANGED prog

\* A program that is refused does not compile.
Refusal == phase = "refused" /\ UNCHANGED vars

Next ==
  \/ ConfigureCounter \/ ConfigureCounter8b \/ TurnIrq
  \/ \E unit \in Units : ConfigureUnit(unit)
  \/ Commit
  \/ Refusal

Spec == Init /\ [][Next]_vars

-----------------------------------------------------------------------------
(* Properties: the hardware does what the program asked.                   *)

Committed == phase = "committed"
Configured == config["counter"].clock # Unset

\* What the hardware does with the mode field.
HardwareModes == {m \in Modes(Class) : m.wgm = reg["wgm"]}

(* Known departure, see the README: the 16-bit solvers have no case for     *)
(* counting up and down to the maximum.                                     *)
UpDownToMax ==
  /\ Class \in Bits16
  /\ config["counter"].countmode = "updown_loop" /\ config["counter"].top = "max"

(* CountsAsAsked: once committed, the data sheet's meaning of cs and wgm is *)
(* the clock, the counting mode and the top value that were asked for,      *)
(* whatever the units asked and whatever was committed before.              *)
CountsAsAsked ==
  LET c == config["counter"]
  IN Committed /\ Configured /\ ~UpDownToMax =>
       /\ reg["cs"] = c.clock
       /\ \E m \in HardwareModes : m.count = c.countmode /\ m.top = c.top

(* A stated overflow and a stated update of the compare       *)
(* values are those of the mode the solver chose.  Only the update of the   *)
(* first unit is looked at, and class _c8a verifies nothing without an      *)
(* output.                                                                  *)
OverflowAsStated ==
  LET over   == config["counter"].overflow
      update == config["compare0"].update
      verified == Class # "c8a" \/ Driven # {}
  IN Committed /\ Configured /\ Class # "c8b" /\ verified =>
       /\ over # Unset => \E m \in HardwareModes : m.overflow = over
       /\ update # Unset => \E m \in HardwareModes : m.update = update

(* WaveformAsAsked: the pins of every compare unit do what was asked of     *)
(* them, com being read in the mode that was solved, and the pin is an      *)
(* output.  The third unit of a 16-bit counter is a known departure.        *)
WaveformAsAsked ==
  Committed => \A u \in {"compare0", "compare1"} :
    LET output == config[u].output
        low    == config[u].low
        pwm    == IF u = "compare0" THEN reg["pwm0"] ELSE reg["pwm1"]
        mode   == IF u = "compare0" THEN reg["mode0"] ELSE reg["mode1"]
    IN /\ Configured /\ output # Unset =>
            \E m \in HardwareModes :
              /\ Waveform(m, reg[u]) = output
              /\ output \in (IF u = "compare0" THEN m.oca ELSE m.ocb)
       /\ Class = "c8b" /\ output # Unset =>
            Waveform8b(pwm, mode) =
              [high |-> output, low |-> IF low = Unset THEN "DIS" ELSE low]
       /\ output \notin {Unset, "DIS"} => <<u, "high">> \in pins
       /\ low \notin {Unset, "DIS"} => <<u, "low">> \in pins

\* A mode of the hardware does everything that is asked.
Possible ==
  LET c == config["counter"]
      wants(v, w) == v = Unset \/ v = w
      allows(u, set) == config[u].output = Unset \/ config[u].output \in set
  IN \E m \in Modes(Class) :
       /\ m.count = c.countmode /\ m.top = TopOf(c)
       /\ wants(c.overflow, m.overflow)
       /\ \A u \in CompareUnits : wants(config[u].update, m.update)
       /\ allows("compare0", m.oca) /\ allows("compare1", m.ocb)

(* Known departures, see the README: requests that are refused although a   *)
(* mode does what they ask.                                                 *)
RefusedTooMuch ==
  LET c == config["counter"]
  IN \/ Class = "c8c" /\ c.clock = 8
     \/ c.overflow = Unset
     \/ config["compare0"].update = Unset
     \/ /\ Class \in Bits16 /\ c.countmode = "up_loop"
        /\ \/ c.top = "compare0" /\ config["compare0"].update = "immediately"
           \/ c.top = "capture0" /\ config["compare0"].output = "ToM"
     \/ /\ Class \in Bits16 /\ c.countmode = "updown_loop"
        /\ c.top \in {"compare0", "capture0"} /\ config["compare0"].update = "at_top"
     \/ UpDownToMax

(* RefusesOnlyImpossible: a program whose counter and first unit are fully  *)
(* described does not compile only if no mode of the hardware does what it  *)
(* asks.                                                                    *)
RefusesOnlyImpossible ==
  phase = "refused" /\ Configured /\ ~RefusedTooMuch => ~Possible

(* Once the counter is committed its capture unit has the input, the edge   *)
(* and the filter that were asked for; class _c16b only                     *)
(* solves them for a stated input.                                          *)
CaptureAsStated ==
  LET cap == config["capture0"]
      solved == Class = "c16a" \/ cap.input # Unset
  IN Committed /\ Configured /\ solved =>
       /\ cap.input # Unset => reg["acic"] = (IF cap.input = 2 THEN 1 ELSE 0)
       /\ cap.edge # Unset => reg["ices"] = (IF cap.edge = 2 THEN 1 ELSE 0)
       /\ cap.filter # Unset => reg["icnc"] = cap.filter

(* OverflowIrqPossible: with compare2 as top value a counter of class _c8b  *)
(* raises its overflow flag only in PWM mode: an enabled overflow interrupt *)
(* always has it after a commit, whichever commit asked for which part.     *)
OverflowIrqPossible ==
  Class = "c8b" /\ Committed /\ reg["ie"] = 1 /\ reg["ctc"] = 1 =>
    reg["pwm0"] = 1 \/ reg["pwm1"] = 1

(* FlagsAsAsked: once committed, the overflow flag rises and the compare    *)
(* values are updated when it was asked, or can at least, and the capture   *)
(* flag on the edge of the input that was asked for: whichever unit and     *)
(* whichever commit asked for it.                                           *)
FlagsAsAsked == OverflowAsStated /\ OverflowIrqPossible /\ CaptureAsStated

(* CommitAgainChangesNothing: the requests stay in the context, so that a   *)
(* second commit solves them again; it finds the same and writes nothing.   *)
CommitAgainChangesNothing ==
  [][Committed /\ Commit => UNCHANGED <<config, asked, reg, pins, phase>>]_vars
=============================================================================
