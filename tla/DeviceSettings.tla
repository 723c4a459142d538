---------------------------- MODULE DeviceSettings ----------------------------
(***************************************************************************)
(* What the board header tells HWA of the target before including the      *)
(* device's header: the clock, the startup delays, the other fuses, the    *)
(* software UARTs.  A device header turns these HW_DEVICE_* definitions    *)
(* into the values of the fuse fields and into hw_syshz, the frequency     *)
(* every baud rate and delay is computed from, or stops with an #error.    *)
(* It also composes fuse bytes of the fields, and the makefiles burn those *)
(* whose names they know.                                                  *)
(*                                                                         *)
(* The preprocessor reads the header from top to bottom, one section at a  *)
(* time: the sections are the actions.  `defs` holds the macros defined so *)
(* far; a second #define of a macro replaces the first one (a warning).    *)
(* An #error is the definition of the macro "error".                       *)
(***************************************************************************)
EXTENDS Integers, Sequences

CONSTANT Boards   \* triples <<device, its settings, those of its software UARTs>>

Devices == {"attinyx5", "attinyx4", "atmegax8"}

(* The settings a device's header reads. *)
ReadBy(d) ==
  {"CLK_SRC", "CLK_SRC_HZ", "CLK_PSC", "STARTUP_DELAYS", "CLOCK_OUTPUT", "EXTERNAL_RESET",
   "DEBUG_WIRE", "SERIAL_PROGRAMMING", "WATCHDOG_ALWAYS_ON", "BROWNOUT_DETECTION"}
  \cup IF d = "atmegax8"
       THEN {"PRESERVE_EEPROM_THROUGH_CHIP_ERASE", "BOOT", "BOOTSECTION_SIZE"}
       ELSE {"PRESERVE_EEPROM_FROM_CHIP_ERASE", "SELF_PROGRAMMING"}

(* What a board may define: the documentation of every device lists two    *)
(* settings that the header of the ATmegax8 does not read.                 *)
Settings(d) == ReadBy(d) \cup {"PRESERVE_EEPROM_FROM_CHIP_ERASE", "SELF_PROGRAMMING"}

MaxHz == 20000000

(* Any words for any of these settings; a frequency the devices can run    *)
(* at; an object of a software UART is one of the device or it is not.     *)
ASSUME BoardAssumption ==
  \A b \in Boards :
    /\ b[1] \in Devices
    /\ DOMAIN b[2] \subseteq Settings(b[1])
    /\ "CLK_SRC_HZ" \in DOMAIN b[2] => b[2]["CLK_SRC_HZ"] \in 0 .. MaxHz
    /\ \A n \in 0 .. 1 : \A s \in {"compare", "pin_txd", "pin_rxd"} \cap DOMAIN b[3][n] :
         b[3][n][s] \in {"object", "nothing"}

VARIABLES
  device, settings, uarts,  \* the board
  at,     \* the section the preprocessor has come to
  read,   \* how many of the other fuses it has read
  defs    \* the macros defined so far, with their values

vars == <<device, settings, uarts, at, read, defs>>

(* Definitions: none; one; those of f, and those of g that f leaves.       *)
Nothing == [x \in {} |-> 0]
One(x, v) == [y \in {x} |-> v]
Over(f, g) == [x \in DOMAIN f \cup DOMAIN g |-> IF x \in DOMAIN f THEN f[x] ELSE g[x]]

Refused == [error |-> 1]

(* A setting, and its default when the board does not define it. *)
Setting(s, default) == IF s \in DOMAIN settings THEN settings[s] ELSE default

(* The frequency the board gives, when it does: the base of hw_syshz. *)
HzGiven  == "CLK_SRC_HZ" \in DOMAIN settings
SourceHz == IF HzGiven THEN [syshz_base |-> settings["CLK_SRC_HZ"]] ELSE Nothing

(* An undefined name counts as 0 in #if, and in the shell's arithmetic.    *)
Hz == Setting("CLK_SRC_HZ", 0)
Field(f) == IF f \in DOMAIN defs THEN defs[f] ELSE 0

(* Mutant: a limit of the ranges given to the lower one. *)
CrystalRangeOff == IF Hz <= 900000 THEN 4
                   ELSE IF Hz < 3000000 THEN 5
                   ELSE IF Hz < 8000000 THEN 6 ELSE 7

CrystalRange == IF Hz < 900000 THEN 4
                ELSE IF Hz < 3000000 THEN 5
                ELSE IF Hz < 8000000 THEN 6 ELSE 7

----------------------------------------------------------------------------
(* The clock source: CKSEL and hw_syshz_base. *)

SourceX5(src) ==
  CASE src = "external"      -> [CKSEL31 |-> 0, CKSEL0 |-> 0]
    [] src = "rc_pll_16MHz"  -> [CKSEL31 |-> 0, CKSEL0 |-> 1, syshz_base |-> 16000000]
    [] src = "rc_8MHz"       -> [CKSEL31 |-> 1, CKSEL0 |-> 0, syshz_base |-> 8000000]
    [] src = "rc_1600kHz"    -> [CKSEL31 |-> 1, CKSEL0 |-> 1, syshz_base |-> 1600000]
    [] src = "rc_128kHz"     -> [CKSEL31 |-> 2, CKSEL0 |-> 0, syshz_base |-> 128000]
    [] src = "low_freq_xosc" -> Over([CKSEL31 |-> 3, CKSEL0 |-> 0], SourceHz)
    [] src = "xosc" /\ HzGiven -> Over([CKSEL31 |-> CrystalRange], SourceHz)
    [] OTHER -> Refused

(* hw_syshz_base must not be 0, which an undefined name is to #if: the     *)
(* external clock, for which the header does not define it, is refused.    *)
SourceX4(src) ==
  CASE src = "rc_8MHz"   -> [CKSEL31 |-> 1, CKSEL0 |-> 0, syshz_base |-> 8000000]
    [] src = "rc_128kHz" -> [CKSEL31 |-> 2, CKSEL0 |-> 0, syshz_base |-> 128000]
    [] src = "low_freq_xosc" /\ Hz # 0 -> Over([CKSEL31 |-> 3, CKSEL0 |-> 0], SourceHz)
    [] src = "xosc" /\ Hz # 0 -> Over([CKSEL31 |-> CrystalRange], SourceHz)
    [] OTHER -> Refused

(* hw_syshz_base must not be void, which the frequency of a crystal is     *)
(* when the board does not define it.                                      *)
SourceX8(src) ==
  CASE src = "external"  -> [CKSEL31 |-> 0, CKSEL0 |-> 0]
    [] src = "rc_8MHz"   -> [CKSEL31 |-> 1, CKSEL0 |-> 0, syshz_base |-> 8000000]
    [] src = "rc_128kHz" -> [CKSEL31 |-> 1, CKSEL0 |-> 1, syshz_base |-> 128000]
    [] src \in {"low_freq_xosc", "low_power_xosc", "full_swing_xosc"} /\ HzGiven ->
         Over([CKSEL31 |-> CASE src = "low_freq_xosc"   -> 2
                             [] src = "full_swing_xosc" -> 3
                             [] OTHER -> CrystalRange], SourceHz)
    [] OTHER -> Refused

----------------------------------------------------------------------------
(* The startup delays: the names a source accepts, in the order of SUT10,  *)
(* and for a crystal of CKSEL0 and SUT10.                                  *)

Internal == <<"6CK_14CK", "6CK_14CK_4ms", "6CK_14CK_64ms">>
Watch    == <<"1KCK_4ms", "1KCK_64ms", "32KCK_64ms">>
Crystal  == <<"258CK_14CK_4ms", "258CK_14CK_64ms", "1KCK_14CK", "1KCK_14CK_4ms",
              "1KCK_14CK_64ms", "16KCK_14CK", "16KCK_14CK_4ms", "16KCK_14CK_64ms">>

Delay(names, name) ==
  IF \E i \in 0..2 : names[i + 1] = name
  THEN [SUT10 |-> CHOOSE i \in 0..2 : names[i + 1] = name]
  ELSE Refused

CrystalDelay(name) ==
  IF \E i \in 0..7 : Crystal[i + 1] = name
  THEN LET i == CHOOSE i \in 0..7 : Crystal[i + 1] = name
       IN  [CKSEL0 |-> i \div 4, SUT10 |-> i % 4]
  ELSE Refused

StartupX5(name) ==
  LET cksel == 2 * Field("CKSEL31") + Field("CKSEL0")
  IN  CASE cksel = 1 ->
             CASE name = "14CK_1KCK_4ms"   -> [SUT10 |-> 0]
               [] name = "14CK_16KCK_4ms"  -> [SUT10 |-> 1]
               [] name = "14CK_1KCK_64ms"  -> [SUT10 |-> 2]
               [] name = "14CK_16KCK_64ms" -> [SUT10 |-> 3]
               [] OTHER -> Refused
        [] cksel \in {0, 2, 4} -> Delay(Internal, name)
        [] cksel = 3 ->
             CASE name = "6CK_14CK_64ms" -> [SUT10 |-> 0]
               [] name = "6CK_14CK_4ms"  -> [SUT10 |-> 2]
               [] name = "1CK_14CK"      -> [SUT10 |-> 3]
               [] OTHER -> Refused
        [] cksel = 6 -> Delay(Watch, name)
        [] OTHER -> CrystalDelay(name)

StartupX4(name) ==
  CASE Field("CKSEL31") < 3 -> Over([CKSEL0 |-> 0], Delay(Internal, name))
    [] Field("CKSEL31") = 3 -> Delay(Watch, name)
    [] OTHER -> CrystalDelay(name)

(* rc_128kHz, whose CKSEL0 is 1, is redefined to rc_8MHz. *)
StartupX8(name) ==
  CASE Field("CKSEL31") < 2 -> Over([CKSEL0 |-> 0], Delay(Internal, name))
    [] Field("CKSEL31") = 2 -> Delay(<<"4CK", "4CK_4ms", "4CK_64ms">>, name)
    [] OTHER -> CrystalDelay(name)

----------------------------------------------------------------------------
(* The other fuses, in the order of the header: the setting, the field,    *)
(* the default and the value each word gives the field.  A fuse bit is     *)
(* programmed when it is 0.                                                *)

Enable   == [enabled |-> 0, disabled |-> 1]
Disable  == [enabled |-> 1, disabled |-> 0]
YesNo    == [yes |-> 0, no |-> 1]
Brownout ==
  [w \in {"1700_2000mV", "2500_2900mV", "4100_4500mV", "off"} |->
     CASE w = "1700_2000mV" -> 6 [] w = "2500_2900mV" -> 5 [] w = "4100_4500mV" -> 4
       [] w = "off" -> 7]

OthersX5 ==
  << <<"SELF_PROGRAMMING", "SELFPRGEN", "enabled", Enable>>,
     <<"EXTERNAL_RESET", "RSTDISBL", "enabled", Disable>>,
     <<"DEBUG_WIRE", "DWEN", "disabled", Enable>>,
     <<"SERIAL_PROGRAMMING", "SPIEN", "enabled", Enable>>,
     <<"WATCHDOG_ALWAYS_ON", "WDTON", "no", YesNo>>,
     <<"PRESERVE_EEPROM_FROM_CHIP_ERASE", "EESAVE", "no", YesNo>>,
     <<"BROWNOUT_DETECTION", "BODLEVEL", "off", Brownout>>,
     <<"CLOCK_OUTPUT", "CKOUT", "disabled", Enable>> >>

OthersX4 ==
  << <<"CLOCK_OUTPUT", "CKOUT", "disabled", Enable>>,
     <<"SELF_PROGRAMMING", "SELFPRGEN", "enabled", Enable>>,
     <<"EXTERNAL_RESET", "RSTDISBL", "enabled", Disable>>,
     <<"DEBUG_WIRE", "DWEN", "disabled", Enable>>,
     <<"SERIAL_PROGRAMMING", "SPIEN", "enabled", Enable>>,
     <<"WATCHDOG_ALWAYS_ON", "WDTON", "no", YesNo>>,
     <<"PRESERVE_EEPROM_FROM_CHIP_ERASE", "EESAVE", "no", YesNo>>,
     <<"BROWNOUT_DETECTION", "BODLEVEL", "off", Brownout>> >>

OthersX8 ==
  << <<"CLOCK_OUTPUT", "CKOUT", "disabled", Enable>>,
     <<"EXTERNAL_RESET", "RSTDISBL", "enabled", Disable>>,
     <<"DEBUG_WIRE", "DWEN", "disabled", Enable>>,
     <<"SERIAL_PROGRAMMING", "SPIEN", "enabled", Enable>>,
     <<"WATCHDOG_ALWAYS_ON", "WDTON", "no", YesNo>>,
     <<"PRESERVE_EEPROM_THROUGH_CHIP_ERASE", "EESAVE", "no", YesNo>>,
     <<"BROWNOUT_DETECTION", "BODLEVEL", "off", Brownout>>,
     <<"BOOT", "BOOTRST", "application", [application |-> 1, bootloader |-> 0]>> >>

(* Read before the rest of the header, by the header of the ATmega328. *)
\* Mutant: the sizes in the other order.
BootSizesTurned ==
  [size \in {512, 1024, 2048, 4096} |->
     CASE size = 512 -> 0 [] size = 1024 -> 1 [] size = 2048 -> 2 [] size = 4096 -> 3]

BootSizes ==
  [size \in {512, 1024, 2048, 4096} |->
     CASE size = 512 -> 3 [] size = 1024 -> 2 [] size = 2048 -> 1 [] size = 4096 -> 0]

----------------------------------------------------------------------------
(* Mutant: the prescaler of the unit is not required. *)
SwuartNoDivider(u, unit) ==
  IF DOMAIN u = {} THEN Nothing
  ELSE IF \/ "compare" \notin DOMAIN u
          \/ \E s \in {"compare", "pin_txd", "pin_rxd"} \cap DOMAIN u : u[s] = "nothing"
  THEN Refused
  ELSE IF "pin_rxd" \in DOMAIN u /\ "starter" \notin DOMAIN u THEN Nothing
  ELSE unit

(* A software UART exists when the settings of its unit are complete: a    *)
(* compare unit, a prescaler, pins that are pins.  Without a starter, the  *)
(* header warns that it takes the default, and drops the unit.             *)
Swuart(u, unit) ==
  IF DOMAIN u = {} THEN Nothing
  ELSE IF \/ {"compare", "clk_div"} \ DOMAIN u # {}
          \/ \E s \in {"compare", "pin_txd", "pin_rxd"} \cap DOMAIN u : u[s] = "nothing"
  THEN Refused
  ELSE IF "pin_rxd" \in DOMAIN u /\ "starter" \notin DOMAIN u THEN Nothing
  ELSE unit

SwuartX5 == Over(Swuart(uarts[0], [swuart0 |-> 130]), Swuart(uarts[1], [swuart1 |-> 131]))

SwuartX4 == Over(Swuart(uarts[0], [swuart0 |-> 137, swuart0_synced |-> 0]),
                 Swuart(uarts[1], [swuart1 |-> 138, swuart1_synced |-> 0]))

SwuartX8 == Over(Swuart(uarts[0], [swuart0 |-> 153, swuart0_synced |-> 0]),
                 Swuart(uarts[1], [swuart1 |-> 154, swuart1_synced |-> 0]))

----------------------------------------------------------------------------
OnDevice(x5, x4, x8) == CASE device = "attinyx5" -> x5
                          [] device = "attinyx4" -> x4
                          [] device = "atmegax8" -> x8

Others == OnDevice(OthersX5, OthersX4, OthersX8)

Init ==
  /\ \E b \in Boards : device = b[1] /\ settings = b[2] /\ uarts = b[3]
  /\ at = "source"
  /\ read = 0
  /\ defs = Nothing

(* The header goes on unless it met an #error. *)
Reading(section) == at = section /\ "error" \notin DOMAIN defs
Define(new)      == defs' = Over(new, defs)
Then(section)    == at' = section /\ UNCHANGED <<device, settings, uarts>>

BootSize ==
  /\ Reading("source") /\ device = "atmegax8" /\ "BOOTSZ" \notin DOMAIN defs
  /\ LET size == Setting("BOOTSECTION_SIZE", 4096)
     IN  Define(IF size \in DOMAIN BootSizes THEN [BOOTSZ |-> BootSizes[size]] ELSE Refused)
  /\ Then("source") /\ UNCHANGED read

Source ==
  /\ Reading("source") /\ (device = "atmegax8" => "BOOTSZ" \in DOMAIN defs)
  /\ LET src == Setting("CLK_SRC", "rc_8MHz")
     IN  Define(OnDevice(SourceX5(src), SourceX4(src), SourceX8(src)))
  /\ Then("prescaler") /\ UNCHANGED read

(* hw_syshz is the text of hw_syshz_base, or that text followed by "/8":   *)
(* no number when the base is not defined.                                 *)
Prescaler ==
  /\ Reading("prescaler")
  /\ LET psc  == Setting("CLK_PSC", 8)
         hz   == IF "syshz_base" \in DOMAIN defs
                 THEN [syshz |-> defs["syshz_base"] \div psc] ELSE Nothing
     IN  Define(CASE psc = 8 -> Over([CKDIV8 |-> 0], hz)
                  [] psc = 1 -> Over([CKDIV8 |-> 1], hz)
                  [] OTHER   -> Refused)
  /\ Then("startup") /\ UNCHANGED read

Startup ==
  /\ Reading("startup")
  /\ IF "STARTUP_DELAYS" \in DOMAIN settings
     THEN LET name == settings["STARTUP_DELAYS"]
          IN  Define(OnDevice(StartupX5(name), StartupX4(name), StartupX8(name)))
     ELSE Define([SUT10 |-> 2])
  /\ Then("others") /\ UNCHANGED read

Other ==
  /\ Reading("others") /\ read < Len(Others)
  /\ LET fuse == Others[read + 1]
         word == Setting(fuse[1], fuse[3])
     IN  Define(IF word \in DOMAIN fuse[4] THEN One(fuse[2], fuse[4][word]) ELSE Refused)
  /\ read' = read + 1
  /\ Then("others")

(* The ATtinyx5 refuses the PLL at the lowest brown-out level. *)
OthersEnd ==
  /\ Reading("others") /\ read = Len(Others)
  /\ Define(IF /\ device = "attinyx5"
               /\ Setting("CLK_SRC", "rc_8MHz") = "rc_pll_16MHz" /\ Field("BODLEVEL") = 6
            THEN Refused ELSE Nothing)
  /\ Then("swuart") /\ UNCHANGED read

Swuarts ==
  /\ Reading("swuart")
  /\ Define(OnDevice(SwuartX5, SwuartX4, SwuartX8))
  /\ Then("end") /\ UNCHANGED read

Next == BootSize \/ Source \/ Prescaler \/ Startup \/ Other \/ OthersEnd \/ Swuarts

Spec == Init /\ [][Next]_vars

----------------------------------------------------------------------------
(* The fuse bytes a header composes of the fields, as the makefile's shell *)
(* computes them.  The fields do not overlap: | is a sum.                  *)

LowByte == 128 * Field("CKDIV8") + 64 * Field("CKOUT") + 16 * Field("SUT10")
             + 2 * Field("CKSEL31") + Field("CKSEL0")

UpperHalf == 128 * Field("RSTDISBL") + 64 * Field("DWEN") + 32 * Field("SPIEN")
               + 16 * Field("WDTON") + 8 * Field("EESAVE")

BytesX5 == [EB |-> 254 + Field("SELFPRGEN"), HB |-> UpperHalf + Field("BODLEVEL"),
            LB |-> LowByte]

BytesX4 == [EB |-> 254 + Field("SELFPRGEN"), HB |-> UpperHalf + Field("BODLEVEL"),
            LB |-> LowByte]

(* The ATmega328, whose high byte holds the boot section. *)
BytesX8 == [EB |-> Field("BODLEVEL"),
            HB |-> UpperHalf + 2 * Field("BOOTSZ") + Field("BOOTRST"), LB |-> LowByte]

Bytes == OnDevice(BytesX5, BytesX4, BytesX8)

(* The macros a header makes of its bytes, after HW_DEVICE_; those the     *)
(* makefiles look for.  They burn no byte whose macro is not defined.      *)
Named     == OnDevice({"FUSE_EB", "FUSE_HB", "FUSE_LB"}, {"FUSE_EB", "FUSE_HB", "FUSE_LB"},
                      {"FUSE_FUSE_EB", "FUSE_FUSE_HB", "FUSE_FUSE_LB"})
LookedFor == {"FUSE_EB", "FUSE_HB", "FUSE_LB"}
Burnt     == LookedFor \cap Named

----------------------------------------------------------------------------
(* What a device that holds the bytes makes of them, by its datasheet. *)

Bit(byte, weight) == (Bytes[byte] \div weight) % 2

DeviceSource ==
  LET cksel == Bytes.LB % 16
      names == OnDevice(<<"external", "rc_pll_16MHz", "rc_8MHz", "rc_1600kHz",
                          "rc_128kHz", "reserved", "low_freq_xosc", "reserved">>,
                        <<"external", "reserved", "rc_8MHz", "reserved",
                          "rc_128kHz", "reserved", "low_freq_xosc", "reserved">>,
                        <<"external", "reserved", "rc_8MHz", "rc_128kHz",
                          "low_freq_xosc", "low_freq_xosc", "full_swing_xosc",
                          "full_swing_xosc">>)
  IN  IF cksel < 8 THEN names[cksel + 1] ELSE OnDevice("xosc", "xosc", "low_power_xosc")

DeviceHz ==
  CASE DeviceSource = "rc_pll_16MHz" -> 16000000
    [] DeviceSource = "rc_8MHz"      -> 8000000
    [] DeviceSource = "rc_1600kHz"   -> 1600000
    [] DeviceSource = "rc_128kHz"    -> 128000
    [] OTHER -> Hz

(* The least and the greatest frequency of a crystal at a value of CKSEL3..1. *)
DeviceRange == CASE Bytes.LB % 16 \in 8..9   -> <<0, 899999>>
                 [] Bytes.LB % 16 \in 10..11 -> <<900000, 2999999>>
                 [] Bytes.LB % 16 \in 12..13 -> <<3000000, 7999999>>
                 [] Bytes.LB % 16 \in 14..15 -> <<8000000, MaxHz>>
                 [] OTHER -> <<0, MaxHz>>

(* The startup delays of a source at each value of CKSEL0 and SUT1..0. *)
Delays(source) ==
  CASE source = "rc_pll_16MHz" ->
         <<"14CK_1KCK_4ms", "14CK_16KCK_4ms", "14CK_1KCK_64ms", "14CK_16KCK_64ms">>
    [] source = "rc_1600kHz" ->
         <<"6CK_14CK_64ms", "6CK_14CK_64ms", "6CK_14CK_4ms", "1CK_14CK">>
    [] source = "low_freq_xosc" ->
         OnDevice(<<"1KCK_4ms", "1KCK_64ms", "32KCK_64ms">>,
                  <<"1KCK_4ms", "1KCK_64ms", "32KCK_64ms">>,
                  <<"4CK", "4CK_4ms", "4CK_64ms">>)
    [] source \in {"external", "rc_8MHz", "rc_128kHz"} ->
         <<"6CK_14CK", "6CK_14CK_4ms", "6CK_14CK_64ms">>
    [] OTHER ->
         <<"258CK_14CK_4ms", "258CK_14CK_64ms", "1KCK_14CK", "1KCK_14CK_4ms",
           "1KCK_14CK_64ms", "16KCK_14CK", "16KCK_14CK_4ms", "16KCK_14CK_64ms">>

DeviceDelay ==
  LET sut == (Bytes.LB \div 16) % 4
  IN  Delays(DeviceSource)[1 + sut + IF Len(Delays(DeviceSource)) = 8
                                     THEN 4 * (Bytes.LB % 2) ELSE 0]

----------------------------------------------------------------------------
Accepted == at = "end" /\ "error" \notin DOMAIN defs

Source0 == Setting("CLK_SRC", "rc_8MHz")

(* Where the header selects another clock than the board asks for: the     *)
(* delays of the ATmegax8 overwrite the CKSEL0 of the 128 kHz oscillator.  *)
Misselects ==
  device = "atmegax8" /\ Source0 = "rc_128kHz" /\ "STARTUP_DELAYS" \in DOMAIN settings

(* The setting of EESAVE that the header reads: that of the ATmegax8 is    *)
(* not the one of its documentation.                                       *)
Eesave == OnDevice("PRESERVE_EEPROM_FROM_CHIP_ERASE", "PRESERVE_EEPROM_FROM_CHIP_ERASE",
                   "PRESERVE_EEPROM_THROUGH_CHIP_ERASE")

(* What the board defines and its header does not read. *)
Unread == DOMAIN settings \ ReadBy(device)

(* hw_syshz is the frequency the device really runs at.  The headers do    *)
(* not define it for an external clock, nor that of the ATtinyx5 for a     *)
(* watch crystal whose frequency the board does not tell.                  *)
ClockAsAsked ==
  \/ Misselects
  \/ Field("syshz") = DeviceHz \div (IF Bit("LB", 128) = 0 THEN 8 ELSE 1)
  \/ "syshz" \notin DOMAIN defs /\ \/ Source0 = "external"
                                   \/ device = "attinyx5" /\ Source0 = "low_freq_xosc"

CrystalAsAsked == HzGiven => DeviceRange[1] <= Hz /\ Hz <= DeviceRange[2]

DelaysAsAsked ==
  "STARTUP_DELAYS" \in DOMAIN settings => DeviceDelay = settings["STARTUP_DELAYS"]

(* The word is yes to the headers, enabled to their documentation. *)
PreservesEeprom ==
  \E s \in DOMAIN settings :
    /\ s \in {"PRESERVE_EEPROM_FROM_CHIP_ERASE", "PRESERVE_EEPROM_THROUGH_CHIP_ERASE"}
    /\ settings[s] \in {"yes", "enabled"}

SwitchesAsAsked ==
  /\ Bit("LB", 128) = 0 <=> Setting("CLK_PSC", 8) = 8
  /\ Bit("LB", 64) = 0 <=> Setting("CLOCK_OUTPUT", "disabled") = "enabled"
  /\ Bit("HB", 128) = 0 <=> Setting("EXTERNAL_RESET", "enabled") = "disabled"
  /\ Bit("HB", 64) = 0 <=> Setting("DEBUG_WIRE", "disabled") = "enabled"
  /\ Bit("HB", 32) = 0 <=> Setting("SERIAL_PROGRAMMING", "enabled") = "enabled"
  /\ Bit("HB", 16) = 0 <=> Setting("WATCHDOG_ALWAYS_ON", "no") = "yes"
  /\ Unread # {} \/ (Bit("HB", 8) = 0 <=> PreservesEeprom)

LevelAsAsked ==
  LET level == OnDevice(Bytes.HB % 8, Bytes.HB % 8, Bytes.EB % 8)
  IN  Setting("BROWNOUT_DETECTION", "off") =
        CASE level = 7 -> "off"         [] level = 6 -> "1700_2000mV"
          [] level = 5 -> "2500_2900mV" [] level = 4 -> "4100_4500mV"

ProgramAsAsked ==
  IF device = "atmegax8"
  THEN /\ Bit("HB", 1) = 0 <=> Setting("BOOT", "application") = "bootloader"
       /\ Setting("BOOTSECTION_SIZE", 4096)
            = <<4096, 2048, 1024, 512>>[1 + ((Bytes.HB \div 2) % 4)]
  ELSE Bit("EB", 1) = 0 <=> Setting("SELF_PROGRAMMING", "enabled") = "enabled"

FactoryAsAsked ==
  DOMAIN settings = {} => Bytes.LB = 98 /\ Bytes.HB = OnDevice(223, 223, 217)

AsAsked ==
  /\ ClockAsAsked
  /\ Misselects \/ DeviceSource = Source0
  /\ CrystalAsAsked
  /\ DelaysAsAsked
  /\ SwitchesAsAsked
  /\ LevelAsAsked
  /\ ProgramAsAsked
  /\ FactoryAsAsked

(* A device the makefiles burn with the bytes of an accepted board header  *)
(* runs from the clock that header names, in the range of its crystal,     *)
(* after the delays it names, divided and protected, watched and started   *)
(* as it asks; its frequency is the hw_syshz the program is compiled with; *)
(* a board that asks for nothing gets the bytes of the factory.  It says   *)
(* nothing of the ATmegax8, of which no byte is burnt.                     *)
FusesAsAsked == Accepted /\ Burnt = LookedFor => AsAsked

(* The bytes that the header of the ATmegax8 composes under other names    *)
(* would make the device run so, were they burnt, except for the 128 kHz   *)
(* oscillator with a startup delay (Misselects) and for the protection of  *)
(* the EEPROM when the board uses a setting that is not read (Unread).     *)
ComposesAsAsked == Accepted /\ Burnt = {} => AsAsked

(* What the documentation of a device lets a board define. *)

Crystals == {"xosc", "low_power_xosc", "full_swing_xosc"}

ClockDocumented ==
  /\ Source0 \in OnDevice(
       {"external", "rc_pll_16MHz", "rc_8MHz", "rc_1600kHz", "rc_128kHz", "low_freq_xosc",
        "xosc"},
       {"external", "rc_8MHz", "rc_128kHz", "low_freq_xosc", "xosc"},
       {"external", "rc_8MHz", "rc_128kHz", "low_freq_xosc", "low_power_xosc",
        "full_swing_xosc"})
  /\ HzGiven => Hz > 0
  /\ Source0 \in Crystals \cup {"low_freq_xosc"} => HzGiven

Divider     == Setting("CLK_PSC", 8)
BootSizeOf  == Setting("BOOTSECTION_SIZE", 4096)
Names(list) == {list[i] : i \in DOMAIN list}

StartDocumented ==
  /\ Divider \in {1, 8}
  /\ Setting("STARTUP_DELAYS", Delays(Source0)[1]) \in Names(Delays(Source0))
  /\ BootSizeOf \in {512, 1024, 2048, 4096}

Clocking == {"CLK_SRC", "CLK_SRC_HZ", "CLK_PSC", "STARTUP_DELAYS", "BOOTSECTION_SIZE"}

(* The words of the other settings, by the tables of the documentation.    *)
WordsOf(s) ==
  CASE s = "WATCHDOG_ALWAYS_ON" -> {"yes", "no"}
    [] s = "BROWNOUT_DETECTION" -> OnDevice({"off"}, {}, {"off"})
                                     \cup {"1700_2000mV", "2500_2900mV", "4100_4500mV"}
    [] s = "BOOT" -> {"application", "bootloader"}
    [] s = "PRESERVE_EEPROM_THROUGH_CHIP_ERASE" -> {}
    [] OTHER -> {"enabled", "disabled"}

(* The levels at which the PLL of the ATtinyx5 works. *)
LevelDocumented ==
  ~ (Source0 = "rc_pll_16MHz" /\ Setting("BROWNOUT_DETECTION", "off") = "1700_2000mV")

FusesDocumented ==
  /\ \A s \in DOMAIN settings \ Clocking : settings[s] \in WordsOf(s)
  /\ LevelDocumented

(* What a header takes that the tables do not list: yes and no for the     *)
(* EEPROM, under the name it reads; off on the ATtinyx4, its default;      *)
(* anything for a setting it does not read.                                *)
TakesAlso(s) ==
  \/ s = Eesave /\ settings[s] \in {"yes", "no"}
  \/ s = "BROWNOUT_DETECTION" /\ settings[s] = "off"
  \/ s \in Unread

FusesTaken ==
  /\ \A s \in DOMAIN settings \ Clocking : settings[s] \in WordsOf(s) \/ TakesAlso(s)
  /\ LevelDocumented

(* And for the clock: a frequency of 0, and on the ATtinyx5 a watch        *)
(* crystal of unknown frequency.                                           *)
ClockTaken ==
  \/ ClockDocumented
  \/ HzGiven /\ Hz = 0
  \/ device = "attinyx5" /\ Source0 = "low_freq_xosc"

Complete(u) ==
  DOMAIN u # {} =>
    /\ {"compare", "clk_div"} \subseteq DOMAIN u
    /\ \A s \in {"compare", "pin_txd", "pin_rxd"} \cap DOMAIN u : u[s] = "object"

Documented ==
  /\ ClockDocumented /\ StartDocumented /\ FusesDocumented
  /\ Complete(uarts[0]) /\ Complete(uarts[1])

(* The units that send or receive. *)
Works(u) == DOMAIN u # {} /\ ("pin_rxd" \in DOMAIN u => "starter" \in DOMAIN u)

(* What a header refuses though its documentation allows it: an external   *)
(* clock on the ATtinyx4, whose frequency it does not read, and both words *)
(* documented for the protection of the EEPROM.                            *)
RefusesAlso ==
  \/ device = "attinyx4" /\ Source0 = "external"
  \/ device # "atmegax8" /\ "PRESERVE_EEPROM_FROM_CHIP_ERASE" \in DOMAIN settings

(* Every board header the documentation allows is accepted, except         *)
(* RefusesAlso, and gives the software UARTs it configures; no other board *)
(* header is accepted, except for what TakesAlso and ClockTaken name.  A   *)
(* unit that has a receive pin and no starter is dropped with the warning  *)
(* that the default is used.                                               *)
AcceptsDocumented ==
  /\ "error" \in DOMAIN defs => ~ Documented \/ RefusesAlso
  /\ Accepted =>
       /\ ClockTaken /\ StartDocumented /\ FusesTaken
       /\ Complete(uarts[0]) /\ Complete(uarts[1])
       /\ "swuart0" \in DOMAIN defs <=> Works(uarts[0])
       /\ "swuart1" \in DOMAIN defs <=> Works(uarts[1])
=============================================================================
