---------------------------- MODULE CounterModes ----------------------------
(***************************************************************************)
(* The counting units of the AVR devices as their classes describe them:   *)
(* the arguments a program can give (src/atmel/avr/classes/c8a_2.h,        *)
(* c8b_2.h, c8c_2.h, c16a_2.h, c16b_2.h, cmp8a_2.h, cmp8b_2.h, cmp16a_2.h, *)
(* cap16a_2.h) and what each value of the mode registers makes the         *)
(* hardware do (the tables in the comments of the solvers).                *)
(*                                                                         *)
(* Outputs have the names of these tables: DIS disconnected, ToM / CoM /   *)
(* SoM toggle / clear / set on match, SaBCoM set_at_bottom_clear_on_match, *)
(* CaBSoM clear_at_bottom_set_on_match, CmuSmd                             *)
(* clear_on_match_up_set_on_match_down, SmuCmd its opposite.               *)
(***************************************************************************)
EXTENDS Integers

CONSTANT Unset        \* an argument that was not given (0xFF in config)

Units == {"compare0", "compare1", "compare2", "capture0"}

Normal == {"DIS", "ToM", "CoM", "SoM"}
Fast   == {"DIS", "SaBCoM", "CaBSoM"}
Phase  == {"DIS", "CmuSmd", "SmuCmd"}

Outputs == Normal \cup Fast \cup Phase

Updates == {"immediately", "at_bottom", "at_top"}
Overflows == {"at_bottom", "at_top", "at_max"}

CountModes == {"up_loop", "updown_loop"}

ASSUME UnsetAssumption ==
  Unset \notin Int \cup Outputs \cup Updates \cup Overflows \cup CountModes
               \cup {"0xFF", "0x1FF", "0x3FF", "max", "capture0", "compare0", "compare2"}

Classes == {"c8a", "c8b", "c8c", "c16a", "c16b"}
Bits16 == {"c16a", "c16b"}

\* Clocks are divisions of the system clock, 0 for a stopped counter, or the
\* external ones.
ExtRising  == -1
ExtFalling == -2
ExtXosc    == -3

(* The arguments of hwa( configure, counter, ... ): the clocks in the order *)
(* of their codes from 1, the top values (those of 16-bit counters that are *)
(* fixed are the numbers), the moments of the overflow.                     *)
Arguments8a ==
  [clocks |-> <<1, 8, 64, 256, 1024, ExtRising, ExtFalling>>,
   countmodes |-> CountModes, tops |-> {"max", "compare0"}, overflows |-> Overflows]

Arguments8c ==
  [clocks |-> <<1, 8, 32, 64, 128, 256, 1024, ExtXosc>>,
   countmodes |-> CountModes, tops |-> {"max", "compare0"}, overflows |-> Overflows]

Arguments16a ==
  [clocks |-> <<1, 8, 64, 256, 1024, ExtRising, ExtFalling>>,
   countmodes |-> CountModes,
   tops |-> {"0xFF", "0x1FF", "0x3FF", "max", "capture0", "compare0"},
   overflows |-> Overflows]

Arguments16b ==
  [clocks |-> <<1, 8, 64, 256, 1024, ExtRising, ExtFalling>>,
   countmodes |-> CountModes,
   tops |-> {"0xFF", "0x1FF", "0x3FF", "max", "capture0", "compare0"},
   overflows |-> Overflows]

Arguments8b ==
  [clocks |-> [n \in 1..15 |-> 2 ^ (n - 1)],
   countmodes |-> {"up_loop"}, tops |-> {"max", "compare2"}, overflows |-> {"at_bottom"}]

Arguments(class) ==
  CASE class = "c8a" -> Arguments8a [] class = "c8b" -> Arguments8b
    [] class = "c8c" -> Arguments8c [] class = "c16a" -> Arguments16a
    [] class = "c16b" -> Arguments16b

Tops(class) == Arguments(class).tops
Clocks(class) == {0} \cup {Arguments(class).clocks[i] : i \in DOMAIN Arguments(class).clocks}

\* What a program may give to a counter, with these clocks.
CounterCalls(class, clocks) ==
  [clock : clocks, countmode : Arguments(class).countmodes,
   top : Tops(class) \cup {Unset}, overflow : Arguments(class).overflows \cup {Unset}]

Calls8b(clocks) == [clock : clocks, top : Tops("c8b") \cup {Unset}]

(* The arguments of a compare unit: when its value is latched, what its pin *)
(* does; class _cmp8b has a second, complementary, pin.                     *)
CompareArguments8a == [update : Updates \cup {Unset}, output : Outputs \cup {Unset},
                       low : {Unset}]

CompareArguments16a == [update : Updates \cup {Unset}, output : Outputs \cup {Unset},
                        low : {Unset}]

CompareArguments8b == [update : {Unset}, output : Normal \cup Fast \cup {Unset},
                       low : {"DIS", "CaBSoM", Unset}]

(* The arguments of a capture unit, as codes: input pin_icp 1 or acmp0 2,   *)
(* edge falling 1 or rising 2, filter off 0 or on 1.  Class _cap16b needs   *)
(* the input.                                                               *)
CaptureArguments16a == [input : {1, 2, Unset}, edge : {1, 2, Unset}, filter : {0, 1, Unset}]

CaptureArguments16b == [input : {1, 2}, edge : {1, 2, Unset}, filter : {0, 1, Unset}]

\* The units of a counter and the calls each of them takes.
UnitsOf(class) ==
  {"counter", "compare0", "compare1"}
  \cup (IF class = "c8b" THEN {"irq"} ELSE {})
  \cup (IF class = "c16b" THEN {"compare2"} ELSE {})
  \cup (IF class \in Bits16 THEN {"capture0"} ELSE {})

CallsOf(class, unit) ==
  CASE unit = "counter" -> IF class = "c8b" THEN Calls8b(Clocks(class))
                           ELSE CounterCalls(class, Clocks(class))
    [] unit = "irq"      -> {0, 1}
    [] unit = "capture0" -> CaptureArguments16a
    [] OTHER -> IF class = "c8b" THEN CompareArguments8b
                ELSE IF class \in Bits16 THEN CompareArguments16a ELSE CompareArguments8a

-----------------------------------------------------------------------------
(* The modes of the hardware.                                              *)

Mode(wgm, count, top, update, overflow, oca, ocb) ==
  [wgm |-> wgm, count |-> count, top |-> top, update |-> update,
   overflow |-> overflow, oca |-> oca, ocb |-> ocb]

Modes8 ==
  { Mode(0, "up_loop", "max",      "immediately", "at_max", Normal, Normal),
    Mode(2, "up_loop", "compare0", "immediately", "at_max", Normal, Normal),
    Mode(3, "up_loop", "max",      "at_bottom",   "at_max", Fast, Fast),
    Mode(7, "up_loop", "compare0", "at_bottom",   "at_top",
         Fast \cup {"ToM"}, Fast),
    Mode(1, "updown_loop", "max",      "at_top", "at_bottom", Phase, Phase),
    Mode(5, "updown_loop", "compare0", "at_top", "at_bottom",
         Phase \cup {"ToM"}, Phase) }

\* When compare0 is the top value it has no output of its own.
Top == {"DIS"}

Modes16 ==
  { Mode( 0, "up_loop", "max",      "immediately", "at_max", Normal, Normal),
    Mode( 4, "up_loop", "compare0", "immediately", "at_max", Top, Normal),
    Mode(12, "up_loop", "capture0", "immediately", "at_max", Normal, Normal),
    Mode( 5, "up_loop", "0xFF",     "at_top", "at_top", Fast, Fast),
    Mode( 6, "up_loop", "0x1FF",    "at_top", "at_top", Fast, Fast),
    Mode( 7, "up_loop", "0x3FF",    "at_top", "at_top", Fast, Fast),
    Mode(14, "up_loop", "capture0", "at_top", "at_top",
         Fast \cup {"ToM"}, Fast),
    Mode(15, "up_loop", "compare0", "at_top", "at_top", Top, Fast),
    Mode( 1, "updown_loop", "0xFF",     "at_top", "at_bottom", Phase, Phase),
    Mode( 2, "updown_loop", "0x1FF",    "at_top", "at_bottom", Phase, Phase),
    Mode( 3, "updown_loop", "0x3FF",    "at_top", "at_bottom", Phase, Phase),
    Mode(10, "updown_loop", "capture0", "at_top", "at_bottom",
         Phase \cup {"ToM"}, Phase),
    Mode(11, "updown_loop", "compare0", "at_top", "at_bottom", Top, Phase),
    Mode( 8, "updown_loop", "capture0", "at_bottom", "at_bottom",
         Phase \cup {"ToM"}, Phase),
    Mode( 9, "updown_loop", "compare0", "at_bottom", "at_bottom", Top, Phase) }

Modes(class) == IF class \in {"c8a", "c8c"} THEN Modes8 ELSE Modes16

(* What the pin of a compare unit does, from its com field and the family   *)
(* of the mode: the data sheets.                                            *)
Waveform(mode, com) ==
  CASE com = 0 -> "DIS"
    [] com = 1 -> "ToM"
    [] com = 2 -> IF "CoM" \in mode.ocb THEN "CoM"
                  ELSE IF "SaBCoM" \in mode.ocb THEN "SaBCoM" ELSE "CmuSmd"
    [] com = 3 -> IF "SoM" \in mode.ocb THEN "SoM"
                  ELSE IF "CaBSoM" \in mode.ocb THEN "CaBSoM" ELSE "SmuCmd"

\* The same for the two pins of a compare unit of class _cmp8b.
Waveform8b(pwm, com) ==
  CASE com = 0             -> [high |-> "DIS", low |-> "DIS"]
    [] pwm = 0 /\ com = 1  -> [high |-> "ToM", low |-> "DIS"]
    [] pwm = 0 /\ com = 2  -> [high |-> "CoM", low |-> "DIS"]
    [] pwm = 0 /\ com = 3  -> [high |-> "SoM", low |-> "DIS"]
    [] pwm = 1 /\ com = 1  -> [high |-> "SaBCoM", low |-> "CaBSoM"]
    [] pwm = 1 /\ com = 2  -> [high |-> "SaBCoM", low |-> "DIS"]
    [] pwm = 1 /\ com = 3  -> [high |-> "CaBSoM", low |-> "DIS"]

\* The clock for each value of cs: the data sheets.
Clock(class, cs) ==
  CASE class \in {"c8a", "c16a", "c16b"} ->
         <<0, 1, 8, 64, 256, 1024, ExtRising, ExtFalling>>[cs + 1]
    [] class = "c8c" -> <<0, 1, 8, 32, 64, 128, 256, 1024>>[cs + 1]
    [] class = "c8b" -> IF cs = 0 THEN 0 ELSE 2 ^ (cs - 1)
=============================================================================
