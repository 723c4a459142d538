------------------------ MODULE DeviceSettings_proofs ------------------------
(***************************************************************************)
(* Proofs about DeviceSettings, for every board header: any words for any  *)
(* of the settings, any frequency the devices can run at.                  *)
(***************************************************************************)
EXTENDS DeviceSettings, TLAPS

-----------------------------------------------------------------------------
(* Definitions.                                                            *)

Has(f) == f \in DOMAIN defs

\* A new definition replaces an old one; the others stay.
LEMMA Defined ==
  ASSUME NEW new, Define(new), NEW f
  PROVE  /\ Has(f)' <=> f \in DOMAIN new \/ Has(f)
         /\ Field(f)' = IF f \in DOMAIN new THEN new[f] ELSE Field(f)
  BY DEF Define, Over, Field, Has

LEMMA OverDomain ==
  ASSUME NEW f, NEW g
  PROVE  DOMAIN Over(f, g) = DOMAIN f \cup DOMAIN g
  BY DEF Over

LEMMA OverFirst ==
  ASSUME NEW f, NEW g, NEW x \in DOMAIN f
  PROVE  Over(f, g)[x] = f[x]
  BY DEF Over

LEMMA OverSecond ==
  ASSUME NEW f, NEW g, NEW x \in DOMAIN g, x \notin DOMAIN f
  PROVE  Over(f, g)[x] = g[x]
  BY DEF Over

\* What is left of the header is read only if there was no #error.
LEMMA NoError == ASSUME NEW section, Reading(section) PROVE ~ Has("error")
  BY DEF Reading, Has

-----------------------------------------------------------------------------
(* The board.                                                              *)

Board ==
  /\ device \in Devices
  /\ DOMAIN settings \subseteq Settings(device)
  /\ HzGiven => settings["CLK_SRC_HZ"] \in 0 .. MaxHz
  /\ \A n \in 0 .. 1 : \A s \in {"compare", "pin_txd", "pin_rxd"} \cap DOMAIN uarts[n] :
       uarts[n][s] \in {"object", "nothing"}

LEMMA MaxHzNat == MaxHz \in Nat /\ MaxHz >= 8000000
  BY SMT DEF MaxHz

LEMMA HzRange ==
  ASSUME Board
  PROVE  Hz \in Nat /\ Hz <= MaxHz /\ (~ HzGiven => Hz = 0)
  BY MaxHzNat, SMT DEF Board, Hz, Setting, HzGiven

LEMMA RangeOfCrystal ==
  ASSUME Board
  PROVE  /\ CrystalRange \in 4 .. 7
         /\ Hz < 900000 <=> CrystalRange = 4
         /\ Hz >= 900000 /\ Hz < 3000000 <=> CrystalRange = 5
         /\ Hz >= 3000000 /\ Hz < 8000000 <=> CrystalRange = 6
         /\ Hz >= 8000000 <=> CrystalRange = 7
  BY HzRange, SMT DEF CrystalRange

-----------------------------------------------------------------------------
(* The clock source.                                                       *)

\* The values of CKSEL that select a source, on each device.
SelectsX5(src, c31, c0) ==
  \/ src = "external" /\ c31 = 0 /\ c0 = 0
  \/ src = "rc_pll_16MHz" /\ c31 = 0 /\ c0 = 1
  \/ src = "rc_8MHz" /\ c31 = 1 /\ c0 = 0
  \/ src = "rc_1600kHz" /\ c31 = 1 /\ c0 = 1
  \/ src = "rc_128kHz" /\ c31 = 2 /\ c0 = 0
  \/ src = "low_freq_xosc" /\ c31 = 3 /\ c0 = 0
  \/ src = "xosc" /\ HzGiven /\ c31 = CrystalRange /\ c0 \in 0 .. 1

SelectsX4(src, c31, c0) ==
  \/ src = "rc_8MHz" /\ c31 = 1 /\ c0 = 0
  \/ src = "rc_128kHz" /\ c31 = 2 /\ c0 = 0
  \/ src = "low_freq_xosc" /\ c31 = 3 /\ c0 = 0 /\ Hz # 0
  \/ src = "xosc" /\ Hz # 0 /\ c31 = CrystalRange /\ c0 \in 0 .. 1

SelectsX8(src, c31, c0) ==
  \/ src = "external" /\ c31 = 0 /\ c0 = 0
  \/ src = "rc_8MHz" /\ c31 = 1 /\ c0 = 0
  \/ src = "rc_128kHz" /\ c31 = 1 /\ c0 = 1
  \/ src = "low_freq_xosc" /\ HzGiven /\ c31 = 2 /\ c0 = 0
  \/ src = "full_swing_xosc" /\ HzGiven /\ c31 = 3 /\ c0 \in 0 .. 1
  \/ src = "low_power_xosc" /\ HzGiven /\ c31 = CrystalRange /\ c0 \in 0 .. 1

Selects(src, c31, c0) ==
  \/ device = "attinyx5" /\ SelectsX5(src, c31, c0)
  \/ device = "attinyx4" /\ SelectsX4(src, c31, c0)
  \/ device = "atmegax8" /\ SelectsX8(src, c31, c0)

\* The frequency of a source, when the header knows it.
BaseHz(src) ==
  CASE src = "rc_pll_16MHz" -> 16000000
    [] src = "rc_8MHz"      -> 8000000
    [] src = "rc_1600kHz"   -> 1600000
    [] src = "rc_128kHz"    -> 128000
    [] OTHER -> Hz

KnownHz(src) == src # "external" /\ (src = "low_freq_xosc" => HzGiven)

\* What the section of the clock source defines, or that it refuses a source
\* that the documentation does not give, except the external clock of the
\* ATtinyx4.
Sourced(new, src) ==
  \/ /\ new = Refused
     /\ Source0 = src => ~ Documented \/ (device = "attinyx4" /\ src = "external")
  \/ /\ DOMAIN new \subseteq {"CKSEL31", "CKSEL0", "syshz_base"}
     /\ "CKSEL31" \in DOMAIN new
     /\ Selects(src, new["CKSEL31"], IF "CKSEL0" \in DOMAIN new THEN new["CKSEL0"] ELSE 0)
     /\ "syshz_base" \in DOMAIN new <=> KnownHz(src)
     /\ "syshz_base" \in DOMAIN new => new["syshz_base"] = BaseHz(src)

\* A source that the board gives the frequency of.
Feeds(new, rec) ==
  /\ DOMAIN new = DOMAIN rec \cup IF HzGiven THEN {"syshz_base"} ELSE {}
  /\ \A x \in DOMAIN rec : new[x] = rec[x]
  /\ HzGiven /\ "syshz_base" \notin DOMAIN rec => new["syshz_base"] = Hz

LEMMA SourceHzFacts ==
  /\ HzGiven => DOMAIN SourceHz = {"syshz_base"} /\ SourceHz["syshz_base"] = Hz
  /\ ~ HzGiven => DOMAIN SourceHz = {}
  BY DEF SourceHz, Nothing, Hz, Setting, HzGiven

LEMMA OverOnly ==
  ASSUME NEW rec
  PROVE  Feeds(Over(rec, SourceHz), rec)
  BY SourceHzFacts DEF Over, Feeds

\* A crystal of 0 Hz is not documented.
LEMMA CrystalDocumented ==
  ASSUME Documented, Source0 \in Crystals \cup {"low_freq_xosc"}
  PROVE  HzGiven /\ Hz # 0
  BY DEF Documented, ClockDocumented, Crystals

LEMMA SourceDocumented ==
  ASSUME Documented, Board
  PROVE  /\ device = "attinyx5" => Source0 \in {"external", "rc_pll_16MHz", "rc_8MHz",
                                     "rc_1600kHz", "rc_128kHz", "low_freq_xosc", "xosc"}
         /\ device = "attinyx4" => Source0 \in {"external", "rc_8MHz", "rc_128kHz",
                                     "low_freq_xosc", "xosc"}
         /\ device = "atmegax8" => Source0 \in {"external", "rc_8MHz", "rc_128kHz",
                            "low_freq_xosc", "low_power_xosc", "full_swing_xosc"}
  BY DEF Documented, ClockDocumented, OnDevice, Board, Devices

LEMMA SourcedX5 ==
  ASSUME Board, device = "attinyx5", NEW src, NEW new, new = SourceX5(src)
  PROVE  Sourced(new, src)
  <1>1. CASE src = "low_freq_xosc"
    <2>1. new = Over([CKSEL31 |-> 3, CKSEL0 |-> 0], SourceHz)
      BY <1>1, SMT DEF SourceX5
    <2>2. Feeds(new, [CKSEL31 |-> 3, CKSEL0 |-> 0])
      BY <2>1, OverOnly
    <2> QED
      BY <1>1, <2>2, SMT
      DEF Feeds, Sourced, Selects, SelectsX5, KnownHz, BaseHz, Crystals
  <1>2. CASE src = "xosc" /\ HzGiven
    <2>1. new = Over([CKSEL31 |-> CrystalRange], SourceHz)
      BY <1>2, SMT DEF SourceX5
    <2>2. Feeds(new, [CKSEL31 |-> CrystalRange])
      BY <2>1, OverOnly
    <2> QED
      BY <1>2, <2>2, SMT
      DEF Feeds, Sourced, Selects, SelectsX5, KnownHz, BaseHz, Crystals
  <1>3. CASE src \in {"external", "rc_pll_16MHz", "rc_8MHz", "rc_1600kHz", "rc_128kHz"}
    BY <1>3, SMT DEF SourceX5, Sourced, Selects, SelectsX5, KnownHz, BaseHz, Crystals
  <1>4. CASE /\ src \notin {"external", "rc_pll_16MHz", "rc_8MHz", "rc_1600kHz",
                            "rc_128kHz", "low_freq_xosc"}
             /\ src = "xosc" => ~ HzGiven
    <2>1. new = Refused
      BY <1>4, SMT DEF SourceX5
    <2> QED
      BY <1>4, <2>1, CrystalDocumented, SourceDocumented DEF Sourced, Crystals
  <1> QED
    BY <1>1, <1>2, <1>3, <1>4

LEMMA SourcedX4 ==
  ASSUME Board, device = "attinyx4", NEW src, NEW new, new = SourceX4(src)
  PROVE  Sourced(new, src)
  <1>0. Hz # 0 => HzGiven
    BY HzRange
  <1>1. CASE src = "low_freq_xosc" /\ Hz # 0
    <2>1. new = Over([CKSEL31 |-> 3, CKSEL0 |-> 0], SourceHz)
      BY <1>1, SMT DEF SourceX4
    <2>2. Feeds(new, [CKSEL31 |-> 3, CKSEL0 |-> 0])
      BY <2>1, OverOnly
    <2> QED
      BY <1>0, <1>1, <2>2, SMT
      DEF Feeds, Sourced, Selects, SelectsX4, KnownHz, BaseHz, Crystals
  <1>2. CASE src = "xosc" /\ Hz # 0
    <2>1. new = Over([CKSEL31 |-> CrystalRange], SourceHz)
      BY <1>2, SMT DEF SourceX4
    <2>2. Feeds(new, [CKSEL31 |-> CrystalRange])
      BY <2>1, OverOnly
    <2> QED
      BY <1>0, <1>2, <2>2, SMT
      DEF Feeds, Sourced, Selects, SelectsX4, KnownHz, BaseHz, Crystals
  <1>3. CASE src \in {"rc_8MHz", "rc_128kHz"}
    BY <1>3, SMT DEF SourceX4, Sourced, Selects, SelectsX4, KnownHz, BaseHz, Crystals
  <1>4. CASE /\ src \notin {"rc_8MHz", "rc_128kHz"}
             /\ src \in {"low_freq_xosc", "xosc"} => Hz = 0
    <2>1. new = Refused
      BY <1>4, SMT DEF SourceX4
    <2> QED
      BY <1>4, <2>1, CrystalDocumented, SourceDocumented DEF Sourced, Crystals
  <1> QED
    BY <1>1, <1>2, <1>3, <1>4

LEMMA SourcedX8 ==
  ASSUME Board, device = "atmegax8", NEW src, NEW new, new = SourceX8(src)
  PROVE  Sourced(new, src)
  <1> DEFINE fed == {"low_freq_xosc", "low_power_xosc", "full_swing_xosc"}
             c31 == CASE src = "low_freq_xosc" -> 2 [] src = "full_swing_xosc" -> 3
                      [] OTHER -> CrystalRange
  <1>1. CASE src \in fed /\ HzGiven
    <2>1. new = Over([CKSEL31 |-> c31], SourceHz)
      BY <1>1, SMT DEF SourceX8
    <2>2. Feeds(new, [CKSEL31 |-> c31])
      BY <2>1, OverOnly
    <2> QED
      BY <1>1, <2>2, SMT
      DEF Feeds, Sourced, Selects, SelectsX8, KnownHz, BaseHz, Crystals
  <1>2. CASE src \in {"external", "rc_8MHz", "rc_128kHz"}
    BY <1>2, SMT DEF SourceX8, Sourced, Selects, SelectsX8, KnownHz, BaseHz, Crystals
  <1>3. CASE src \notin {"external", "rc_8MHz", "rc_128kHz"} /\ (src \in fed => ~ HzGiven)
    <2>1. new = Refused
      BY <1>3, SMT DEF SourceX8
    <2> QED
      BY <1>3, <2>1, CrystalDocumented, SourceDocumented DEF Sourced, Crystals
  <1> QED
    BY <1>1, <1>2, <1>3

-----------------------------------------------------------------------------
(* The startup delays.                                                     *)

\* The delay that a device makes of SUT1..0 and CKSEL0.
DelayAt(delays, sut, c0) == delays[1 + sut + IF Len(delays) = 8 THEN 4 * c0 ELSE 0]

\* What the names of a source, found or not, define.
Delayed(new, names, name, c0) ==
  \/ "error" \in DOMAIN new /\ name \notin Names(names)
  \/ LET k0 == IF "CKSEL0" \in DOMAIN new THEN new["CKSEL0"] ELSE c0
     IN  /\ name \in Names(names)
         /\ DOMAIN new \subseteq {"CKSEL0", "SUT10"} /\ "SUT10" \in DOMAIN new
         /\ new["SUT10"] \in 0 .. 3
         /\ DelayAt(names, new["SUT10"], k0) = name

LEMMA DelayFound ==
  ASSUME NEW a, NEW b, NEW c, NEW name, NEW c0,
         NEW names, names = <<a, b, c>>, NEW new, new = Delay(names, name)
  PROVE  /\ Delayed(new, names, name, c0)
         /\ new = Refused \/ DOMAIN new = {"SUT10"}
  <1>1. CASE \E i \in 0 .. 2 : names[i + 1] = name
    <2>1. PICK i \in 0 .. 2 : i = CHOOSE j \in 0 .. 2 : names[j + 1] = name
      BY <1>1
    <2>2. names[i + 1] = name
      BY <1>1, <2>1
    <2>3. new = [SUT10 |-> i]
      BY <1>1, <2>1 DEF Delay
    <2>4. DOMAIN new = {"SUT10"} /\ new["SUT10"] = i
      BY <2>3
    <2>5. Len(names) = 3 /\ DOMAIN new = {"SUT10"} /\ "CKSEL0" \notin DOMAIN new
      BY <2>4
    <2>6. name \in Names(names)
      <3>1. i + 1 \in DOMAIN names
        BY <2>5
      <3> QED
        BY <2>2, <3>1, Zenon DEF Names
    <2> QED
      BY <2>2, <2>4, <2>5, <2>6 DEF Delayed, DelayAt
  <1>2. CASE ~ \E i \in 0 .. 2 : names[i + 1] = name
    <2>1. new = Refused
      BY <1>2 DEF Delay
    <2>2. name \notin {a, b, c}
      BY <1>2
    <2> QED
      BY <2>1, <2>2 DEF Delayed, Names, Refused
  <1> QED
    BY <1>1, <1>2

LEMMA CrystalDelayFound ==
  ASSUME NEW name, NEW c0, NEW new, new = CrystalDelay(name)
  PROVE  /\ Delayed(new, Crystal, name, c0)
         /\ \/ new = Refused
            \/ "CKSEL0" \in DOMAIN new /\ new["CKSEL0"] \in 0 .. 1
  <1>0. Len(Crystal) = 8 /\ DOMAIN Crystal = 1 .. 8
    BY DEF Crystal
  <1>1. CASE \E i \in 0 .. 7 : Crystal[i + 1] = name
    <2>1. PICK i \in 0 .. 7 : i = CHOOSE j \in 0 .. 7 : Crystal[j + 1] = name
      BY <1>1
    <2>2. Crystal[i + 1] = name
      BY <1>1, <2>1
    <2>3. new = [CKSEL0 |-> i \div 4, SUT10 |-> i % 4]
      BY <1>1, <2>1 DEF CrystalDelay
    <2>4. /\ DOMAIN new = {"CKSEL0", "SUT10"} /\ new["SUT10"] = i % 4
          /\ new["CKSEL0"] = i \div 4
      BY <2>3
    <2>5. i % 4 \in 0 .. 3 /\ i \div 4 \in 0 .. 1 /\ 1 + (i % 4) + 4 * (i \div 4) = i + 1
      BY SMT
    <2>6. name \in Names(Crystal)
      <3>1. i + 1 \in DOMAIN Crystal
        BY <1>0
      <3> QED
        BY <2>2, <3>1, Zenon DEF Names
    <2> QED
      BY <1>0, <2>2, <2>4, <2>5, <2>6 DEF Delayed, DelayAt
  <1>2. CASE ~ \E i \in 0 .. 7 : Crystal[i + 1] = name
    <2>1. new = Refused
      BY <1>2 DEF CrystalDelay
    <2>2. name \notin Names(Crystal)
      BY <1>0, <1>2 DEF Names
    <2> QED
      BY <2>1, <2>2 DEF Delayed, Refused
  <1> QED
    BY <1>1, <1>2

\* A name that the source does not have is not documented.
LEMMA DelayDocumented ==
  ASSUME Documented, "STARTUP_DELAYS" \in DOMAIN settings
  PROVE  settings["STARTUP_DELAYS"] \in Names(Delays(Source0))
  BY DEF Documented, StartDocumented, Setting, Names

\* The 128 kHz oscillator of the ATmegax8 becomes the 8 MHz one.
Becomes8MHz(src, c31, c0) ==
  device = "atmegax8" /\ src = "rc_128kHz" /\ c31 = 1 /\ c0 = 0

\* The delay is the named one, and the source is still selected.
Started(new, src, name, c31, c0) ==
  LET k0 == IF "CKSEL0" \in DOMAIN new THEN new["CKSEL0"] ELSE c0
  IN  /\ Delayed(new, Delays(src), name, c0)
      /\ "error" \notin DOMAIN new => Selects(src, c31, k0) \/ Becomes8MHz(src, c31, k0)

\* The delays of an internal clock, with or without CKSEL0 cleared.
LEMMA InternalDelay ==
  ASSUME NEW name, NEW c0, NEW new,
         \/ new = Delay(Internal, name)
         \/ new = Over([CKSEL0 |-> 0], Delay(Internal, name))
  PROVE  /\ Delayed(new, Internal, name, c0)
         /\ \/ "error" \in DOMAIN new
            \/ "CKSEL0" \in DOMAIN new => new["CKSEL0"] = 0
  <1> DEFINE d == Delay(Internal, name)
  <1>1. Delayed(d, Internal, name, c0) /\ (d = Refused \/ DOMAIN d = {"SUT10"})
    BY DelayFound DEF Internal
  <1>2. Len(Internal) = 3
    BY DEF Internal
  <1>3. CASE new = d
    BY <1>1, <1>3 DEF Refused
  <1>4. CASE new = Over([CKSEL0 |-> 0], d)
    <2> HIDE DEF d
    <2>1. DOMAIN new = {"CKSEL0"} \cup DOMAIN d /\ new["CKSEL0"] = 0
      BY <1>4 DEF Over
    <2>2. "SUT10" \in DOMAIN d => new["SUT10"] = d["SUT10"]
      BY <1>4 DEF Over
    <2> QED
      BY <1>1, <1>2, <2>1, <2>2 DEF Delayed, DelayAt, Refused
  <1> QED
    BY <1>3, <1>4

LEMMA StartedX5 ==
  ASSUME Board, device = "attinyx5", NEW src, NEW c31, NEW c0, SelectsX5(src, c31, c0),
         Field("CKSEL31") = c31, Field("CKSEL0") = c0,
         NEW name, NEW new, new = StartupX5(name)
  PROVE  Started(new, src, name, c31, c0)
  <1> DEFINE cksel == 2 * c31 + c0
             delays == Delays(src)
  <1>1. CASE src = "rc_pll_16MHz"
    <2>1. cksel = 1 /\ c31 = 0 /\ c0 = 1
      BY <1>1 DEF SelectsX5
    <2>2. delays = <<"14CK_1KCK_4ms", "14CK_16KCK_4ms", "14CK_1KCK_64ms", "14CK_16KCK_64ms">>
      BY <1>1 DEF Delays
    <2>3. new = CASE name = "14CK_1KCK_4ms"   -> [SUT10 |-> 0]
                  [] name = "14CK_16KCK_4ms"  -> [SUT10 |-> 1]
                  [] name = "14CK_1KCK_64ms"  -> [SUT10 |-> 2]
                  [] name = "14CK_16KCK_64ms" -> [SUT10 |-> 3]
                  [] OTHER -> Refused
      BY <2>1 DEF StartupX5
    <2>4. CASE name \in Names(delays)
      BY <1>1, <2>1, <2>2, <2>3, <2>4 DEF Started, Delayed, DelayAt, Names, Selects, SelectsX5
    <2>5. CASE name \notin Names(delays)
      <3>1. new = Refused
        BY <2>2, <2>3, <2>5 DEF Names
      <3> QED
        BY <2>5, <3>1 DEF Started, Delayed, Refused
    <2> QED
      BY <2>4, <2>5
  <1>2. CASE src = "rc_1600kHz"
    <2>1. cksel = 3 /\ c31 = 1 /\ c0 = 1
      BY <1>2 DEF SelectsX5
    <2>2. delays = <<"6CK_14CK_64ms", "6CK_14CK_64ms", "6CK_14CK_4ms", "1CK_14CK">>
      BY <1>2 DEF Delays
    <2>3. new = CASE name = "6CK_14CK_64ms" -> [SUT10 |-> 0]
                  [] name = "6CK_14CK_4ms"  -> [SUT10 |-> 2]
                  [] name = "1CK_14CK"      -> [SUT10 |-> 3]
                  [] OTHER -> Refused
      BY <2>1 DEF StartupX5
    <2>4. CASE name \in Names(delays)
      BY <1>2, <2>1, <2>2, <2>3, <2>4 DEF Started, Delayed, DelayAt, Names, Selects, SelectsX5
    <2>5. CASE name \notin Names(delays)
      <3>1. new = Refused
        BY <2>2, <2>3, <2>5 DEF Names
      <3> QED
        BY <2>5, <3>1 DEF Started, Delayed, Refused
    <2> QED
      BY <2>4, <2>5
  <1>3. CASE src \in {"external", "rc_8MHz", "rc_128kHz"}
    <2>1. cksel \in {0, 2, 4} /\ c0 = 0
      BY <1>3 DEF SelectsX5
    <2>2. delays = Internal
      BY <1>3 DEF Delays, Internal
    <2>3. new = Delay(Internal, name)
      BY <2>1 DEF StartupX5
    <2> QED
      BY <2>1, <2>2, <2>3, InternalDelay DEF Started, Selects
  <1>4. CASE src = "low_freq_xosc"
    <2>1. cksel = 6 /\ c31 = 3 /\ c0 = 0
      BY <1>4 DEF SelectsX5
    <2>2. delays = Watch
      BY <1>4 DEF Delays, Watch, OnDevice
    <2>3. new = Delay(Watch, name)
      BY <2>1 DEF StartupX5
    <2>4. Delayed(new, Watch, name, c0) /\ (new = Refused \/ DOMAIN new = {"SUT10"})
      BY <2>3, DelayFound DEF Watch
    <2> QED
      BY <2>1, <2>2, <2>4 DEF Started, Selects, Refused
  <1>5. CASE src = "xosc"
    <2>1. cksel \notin {0, 1, 2, 3, 4, 6} /\ c31 = CrystalRange /\ HzGiven
      BY <1>5, RangeOfCrystal DEF SelectsX5
    <2>2. delays = Crystal
      BY <1>5 DEF Delays, Crystal
    <2>3. new = CrystalDelay(name)
      BY <2>1 DEF StartupX5
    <2> QED
      BY <1>5, <2>1, <2>2, <2>3, CrystalDelayFound
      DEF Started, Selects, SelectsX5, Refused, Delayed
  <1> QED
    BY <1>1, <1>2, <1>3, <1>4, <1>5 DEF SelectsX5

LEMMA StartedX4 ==
  ASSUME Board, device = "attinyx4", NEW src, NEW c31, NEW c0, SelectsX4(src, c31, c0),
         Field("CKSEL31") = c31, Field("CKSEL0") = c0,
         NEW name, NEW new, new = StartupX4(name)
  PROVE  Started(new, src, name, c31, c0)
  <1> DEFINE delays == Delays(src)
  <1>1. CASE src \in {"rc_8MHz", "rc_128kHz"}
    <2>1. c31 \in 0 .. 2 /\ c0 = 0
      BY <1>1 DEF SelectsX4
    <2>2. delays = Internal
      BY <1>1 DEF Delays, Internal
    <2>3. new = Over([CKSEL0 |-> 0], Delay(Internal, name))
      BY <2>1 DEF StartupX4
    <2> QED
      BY <2>1, <2>2, <2>3, InternalDelay DEF Started, Selects
  <1>2. CASE src = "low_freq_xosc"
    <2>1. c31 = 3 /\ c0 = 0
      BY <1>2 DEF SelectsX4
    <2>2. delays = Watch
      BY <1>2 DEF Delays, Watch, OnDevice
    <2>3. new = Delay(Watch, name)
      BY <2>1 DEF StartupX4
    <2>4. Delayed(new, Watch, name, c0) /\ (new = Refused \/ DOMAIN new = {"SUT10"})
      BY <2>3, DelayFound DEF Watch
    <2> QED
      BY <2>1, <2>2, <2>4 DEF Started, Selects, Refused
  <1>3. CASE src = "xosc"
    <2>1. c31 \in 4 .. 7 /\ c31 = CrystalRange /\ Hz # 0
      BY <1>3, RangeOfCrystal DEF SelectsX4
    <2>2. delays = Crystal
      BY <1>3 DEF Delays, Crystal
    <2>3. new = CrystalDelay(name)
      BY <2>1 DEF StartupX4
    <2> QED
      BY <1>3, <2>1, <2>2, <2>3, CrystalDelayFound
      DEF Started, Selects, SelectsX4, Refused, Delayed
  <1> QED
    BY <1>1, <1>2, <1>3 DEF SelectsX4

LEMMA StartedX8 ==
  ASSUME Board, device = "atmegax8", NEW src, NEW c31, NEW c0, SelectsX8(src, c31, c0),
         Field("CKSEL31") = c31, Field("CKSEL0") = c0,
         NEW name, NEW new, new = StartupX8(name)
  PROVE  Started(new, src, name, c31, c0)
  <1> DEFINE delays == Delays(src)
             bearing == <<"4CK", "4CK_4ms", "4CK_64ms">>
  <1>1. CASE src \in {"external", "rc_8MHz", "rc_128kHz"}
    <2>1. c31 \in 0 .. 1 /\ c0 \in 0 .. 1 /\ (src # "rc_128kHz" => c0 = 0)
          /\ (src = "rc_128kHz" => c31 = 1)
      BY <1>1 DEF SelectsX8
    <2>2. delays = Internal
      BY <1>1 DEF Delays, Internal
    <2>3. new = Over([CKSEL0 |-> 0], Delay(Internal, name))
      BY <2>1 DEF StartupX8
    <2>4. "CKSEL0" \in DOMAIN new /\ new["CKSEL0"] = 0
      BY <2>3 DEF Over
    <2> QED
      BY <1>1, <2>1, <2>2, <2>3, <2>4, InternalDelay
      DEF Started, Selects, SelectsX8, Becomes8MHz
  <1>2. CASE src = "low_freq_xosc"
    <2>1. c31 = 2 /\ c0 = 0
      BY <1>2 DEF SelectsX8
    <2>2. delays = bearing
      BY <1>2 DEF Delays, OnDevice
    <2>3. new = Delay(bearing, name)
      BY <2>1 DEF StartupX8
    <2>4. Delayed(new, bearing, name, c0) /\ (new = Refused \/ DOMAIN new = {"SUT10"})
      BY <2>3, DelayFound
    <2> QED
      BY <2>1, <2>2, <2>4 DEF Started, Selects, Refused
  <1>3. CASE src \in {"full_swing_xosc", "low_power_xosc"}
    <2>1. /\ c31 \in 3 .. 7 /\ HzGiven
          /\ src = "full_swing_xosc" => c31 = 3
          /\ src = "low_power_xosc" => c31 = CrystalRange
      BY <1>3, RangeOfCrystal DEF SelectsX8
    <2>2. delays = Crystal
      BY <1>3 DEF Delays, Crystal
    <2>3. new = CrystalDelay(name)
      BY <2>1 DEF StartupX8
    <2> QED
      BY <1>3, <2>1, <2>2, <2>3, CrystalDelayFound
      DEF Started, Selects, SelectsX8, Refused, Delayed
  <1> QED
    BY <1>1, <1>2, <1>3 DEF SelectsX8

-----------------------------------------------------------------------------
(* The other fuses.                                                        *)

FuseFields == {"SELFPRGEN", "RSTDISBL", "DWEN", "SPIEN", "WDTON", "EESAVE", "BODLEVEL",
               "CKOUT", "BOOTRST"}

\* The words a header takes for a setting it reads.
WordsTaken(s) ==
  CASE s \in {"WATCHDOG_ALWAYS_ON", Eesave} -> {"yes", "no"}
    [] s = "BROWNOUT_DETECTION" -> {"off", "1700_2000mV", "2500_2900mV", "4100_4500mV"}
    [] s = "BOOT" -> {"application", "bootloader"}
    [] OTHER -> {"enabled", "disabled"}

\* A row of the list of fuses gives values to these words, and its default is
\* one of them.
Proper(fuse) ==
  /\ fuse[1] \notin Clocking /\ fuse[2] \in FuseFields
  /\ DOMAIN fuse[4] = WordsTaken(fuse[1]) /\ fuse[3] \in WordsTaken(fuse[1])

LEMMA WordValues ==
  /\ DOMAIN Enable = {"enabled", "disabled"} /\ Enable["enabled"] = 0 /\ Enable["disabled"] = 1
  /\ DOMAIN Disable = {"enabled", "disabled"} /\ Disable["enabled"] = 1 /\ Disable["disabled"] = 0
  /\ DOMAIN YesNo = {"yes", "no"} /\ YesNo["yes"] = 0 /\ YesNo["no"] = 1
  /\ DOMAIN Brownout = {"1700_2000mV", "2500_2900mV", "4100_4500mV", "off"}
  /\ Brownout["1700_2000mV"] = 6 /\ Brownout["2500_2900mV"] = 5
  /\ Brownout["4100_4500mV"] = 4 /\ Brownout["off"] = 7
  BY DEF Enable, Disable, YesNo, Brownout

LEMMA FusesX5 ==
  ASSUME device = "attinyx5"
  PROVE  /\ Others = OthersX5 /\ Len(Others) = 8
         /\ \A i \in 1 .. 8 : Proper(Others[i])
         /\ \A i, j \in 1 .. 8 : Others[i][2] = Others[j][2] => i = j
         /\ \A s \in ReadBy(device) \ Clocking : \E i \in 1 .. 8 : Others[i][1] = s
  <1>1. Others = OthersX5
    BY DEF Others, OnDevice
  <1>2. Len(OthersX5) = 8
    BY DEF OthersX5
  <1>3. ASSUME NEW i \in 1 .. 8
        PROVE  Proper(OthersX5[i])
    BY WordValues DEF OthersX5, Proper, Clocking, FuseFields, WordsTaken, Eesave, OnDevice
  <1>4. ASSUME NEW i \in 1 .. 8, NEW j \in 1 .. 8, OthersX5[i][2] = OthersX5[j][2]
        PROVE  i = j
    BY <1>4 DEF OthersX5
  <1>5. ASSUME NEW s \in ReadBy(device) \ Clocking
        PROVE  \E i \in 1 .. 8 : OthersX5[i][1] = s
    BY DEF OthersX5, ReadBy, Clocking
  <1> QED
    BY <1>1, <1>2, <1>3, <1>4, <1>5

LEMMA FusesX4 ==
  ASSUME device = "attinyx4"
  PROVE  /\ Others = OthersX4 /\ Len(Others) = 8
         /\ \A i \in 1 .. 8 : Proper(Others[i])
         /\ \A i, j \in 1 .. 8 : Others[i][2] = Others[j][2] => i = j
         /\ \A s \in ReadBy(device) \ Clocking : \E i \in 1 .. 8 : Others[i][1] = s
  <1>1. Others = OthersX4
    BY DEF Others, OnDevice
  <1>2. Len(OthersX4) = 8
    BY DEF OthersX4
  <1>3. ASSUME NEW i \in 1 .. 8
        PROVE  Proper(OthersX4[i])
    BY WordValues DEF OthersX4, Proper, Clocking, FuseFields, WordsTaken, Eesave, OnDevice
  <1>4. ASSUME NEW i \in 1 .. 8, NEW j \in 1 .. 8, OthersX4[i][2] = OthersX4[j][2]
        PROVE  i = j
    BY <1>4 DEF OthersX4
  <1>5. ASSUME NEW s \in ReadBy(device) \ Clocking
        PROVE  \E i \in 1 .. 8 : OthersX4[i][1] = s
    BY DEF OthersX4, ReadBy, Clocking
  <1> QED
    BY <1>1, <1>2, <1>3, <1>4, <1>5

LEMMA FusesX8 ==
  ASSUME device = "atmegax8"
  PROVE  /\ Others = OthersX8 /\ Len(Others) = 8
         /\ \A i \in 1 .. 8 : Proper(Others[i])
         /\ \A i, j \in 1 .. 8 : Others[i][2] = Others[j][2] => i = j
         /\ \A s \in ReadBy(device) \ Clocking : \E i \in 1 .. 8 : Others[i][1] = s
  <1>1. Others = OthersX8
    BY DEF Others, OnDevice
  <1>2. Len(OthersX8) = 8
    BY DEF OthersX8
  <1>3. ASSUME NEW i \in 1 .. 8
        PROVE  Proper(OthersX8[i])
    BY WordValues DEF OthersX8, Proper, Clocking, FuseFields, WordsTaken, Eesave, OnDevice
  <1>4. ASSUME NEW i \in 1 .. 8, NEW j \in 1 .. 8, OthersX8[i][2] = OthersX8[j][2]
        PROVE  i = j
    BY <1>4 DEF OthersX8
  <1>5. ASSUME NEW s \in ReadBy(device) \ Clocking
        PROVE  \E i \in 1 .. 8 : OthersX8[i][1] = s
    BY DEF OthersX8, ReadBy, Clocking
  <1> QED
    BY <1>1, <1>2, <1>3, <1>4, <1>5

\* The lists of the three devices.
Listed ==
  /\ Len(Others) = 8
  /\ \A i \in 1 .. 8 : Proper(Others[i])
  /\ \A i, j \in 1 .. 8 : Others[i][2] = Others[j][2] => i = j
  /\ \A s \in ReadBy(device) \ Clocking : \E i \in 1 .. 8 : Others[i][1] = s

LEMMA FusesListed == Board => Listed
  BY FusesX5, FusesX4, FusesX8 DEF Board, Devices, Listed

\* A fuse that has been read has the value of the word the board gives.
Word(i)     == Setting(Others[i][1], Others[i][3])
FuseRead(i) ==
  /\ Word(i) \in WordsTaken(Others[i][1])
  /\ Has(Others[i][2]) /\ Field(Others[i][2]) = Others[i][4][Word(i)]

\* A documented board has one of these words, unless the header refuses what
\* the documentation allows.
LEMMA WordDocumented ==
  ASSUME Documented, ~ RefusesAlso, Board, Listed, NEW i \in 1 .. 8
  PROVE  Word(i) \in WordsTaken(Others[i][1])
  <1> DEFINE s == Others[i][1]
  <1>1. s \notin Clocking /\ Others[i][3] \in WordsTaken(s)
    BY DEF Listed, Proper
  <1>2. ASSUME s \in DOMAIN settings
        PROVE  settings[s] \in WordsTaken(s)
    <2>1. settings[s] \in WordsOf(s)
      BY <1>1, <1>2 DEF Documented, FusesDocumented
    <2>2. s # Eesave
      BY <1>2, <2>1 DEF RefusesAlso, Eesave, OnDevice, WordsOf, Board, Devices
    <2> HIDE DEF s
    <2> QED
      BY <2>1, <2>2 DEF WordsOf, WordsTaken, OnDevice, Board, Devices
  <1> QED
    BY <1>1, <1>2 DEF Word, Setting

\* And the other way round.
LEMMA WordsDocumented ==
  ASSUME Board, Listed, \A i \in 1 .. 8 : FuseRead(i),
         NEW s \in DOMAIN settings \ Clocking
  PROVE  settings[s] \in WordsOf(s) \/ TakesAlso(s)
  <1>1. CASE s \in ReadBy(device)
    <2>1. PICK i \in 1 .. 8 : Others[i][1] = s
      BY <1>1 DEF Listed
    <2>2. settings[s] \in WordsTaken(s)
      BY <2>1 DEF FuseRead, Word, Setting
    <2>3. CASE s = Eesave
      <3>1. WordsTaken(s) = {"yes", "no"}
        BY <2>3 DEF WordsTaken, Eesave, OnDevice, Board, Devices
      <3> QED
        BY <2>2, <2>3, <3>1 DEF TakesAlso
    <2>4. CASE s # Eesave
      <3>1. s # "PRESERVE_EEPROM_THROUGH_CHIP_ERASE"
        BY <1>1, <2>4 DEF Eesave, OnDevice, ReadBy, Board, Devices
      <3> QED
        BY <2>2, <2>4, <3>1 DEF WordsTaken, WordsOf, TakesAlso, OnDevice
    <2> QED
      BY <2>3, <2>4
  <1>2. CASE s \notin ReadBy(device)
    BY <1>2 DEF TakesAlso, Unread
  <1> QED
    BY <1>1, <1>2

-----------------------------------------------------------------------------
(* The invariant: what has been read so far is what the board asks for.    *)

Sections == {"source", "prescaler", "startup", "others", "swuart", "end"}

\* The header stops only at a board that the documentation does not allow.
Unwelcome == ~ Documented \/ RefusesAlso

BootRead ==
  device = "atmegax8" /\ (at # "source" \/ Has("BOOTSZ")) =>
    Has("BOOTSZ") /\ BootSizeOf \in DOMAIN BootSizes /\ Field("BOOTSZ") = BootSizes[BootSizeOf]

HasDelays == "STARTUP_DELAYS" \in DOMAIN settings

Selected(c31, c0) ==
  \/ Selects(Source0, c31, c0)
  \/ Becomes8MHz(Source0, c31, c0) /\ HasDelays /\ at \notin {"prescaler", "startup"}

SourceRead ==
  IF at = "source" THEN DOMAIN defs \subseteq {"BOOTSZ"}
  ELSE /\ Selected(Field("CKSEL31"), Field("CKSEL0"))
       /\ Has("syshz_base") <=> KnownHz(Source0)
       /\ Has("syshz_base") => Field("syshz_base") = BaseHz(Source0)

PrescalerRead ==
  IF at \in {"source", "prescaler"} THEN ~ Has("syshz")
  ELSE /\ Divider \in {1, 8}
       /\ Field("CKDIV8") = IF Divider = 8 THEN 0 ELSE 1
       /\ Has("syshz") <=> KnownHz(Source0)
       /\ Has("syshz") => Field("syshz") = BaseHz(Source0) \div Divider

StartupRead ==
  at \in {"others", "swuart", "end"} =>
    /\ Field("SUT10") \in 0 .. 3
    /\ IF HasDelays
       THEN /\ settings["STARTUP_DELAYS"] \in Names(Delays(Source0))
            /\ settings["STARTUP_DELAYS"]
                 = DelayAt(Delays(Source0), Field("SUT10"), Field("CKSEL0"))
       ELSE Field("SUT10") = 2

FusesRead ==
  /\ read \in 0 .. 8
  /\ at \in {"source", "prescaler", "startup"} => read = 0
  /\ at \in {"swuart", "end"} => read = 8
  /\ \A i \in 1 .. read : FuseRead(i)

PllRead ==
  at \in {"swuart", "end"} =>
    ~ (device = "attinyx5" /\ Source0 = "rc_pll_16MHz" /\ Field("BODLEVEL") = 6)

UartsRead ==
  IF at # "end" THEN ~ Has("swuart0") /\ ~ Has("swuart1")
  ELSE /\ Complete(uarts[0]) /\ Complete(uarts[1])
       /\ Has("swuart0") <=> Works(uarts[0])
       /\ Has("swuart1") <=> Works(uarts[1])

AsAskedSoFar ==
  /\ BootRead /\ SourceRead /\ PrescalerRead /\ StartupRead
  /\ FusesRead /\ PllRead /\ UartsRead

IInv ==
  /\ Board /\ at \in Sections
  /\ IF Has("error") THEN Unwelcome ELSE AsAskedSoFar

-----------------------------------------------------------------------------
(* Nothing changes the board.                                              *)

SameBoard == UNCHANGED <<device, settings, uarts>>

LEMMA ReadKept ==
  ASSUME SameBoard, NEW s, NEW default
  PROVE  Setting(s, default)' = Setting(s, default)
  BY DEF SameBoard, Setting

LEMMA HzKept ==
  ASSUME SameBoard
  PROVE  /\ HzGiven' <=> HzGiven
         /\ Hz' = Hz
         /\ CrystalRange' = CrystalRange
         /\ Source0' = Source0
         /\ Eesave' = Eesave
  BY SMT DEF SameBoard, HzGiven, Hz, Setting, CrystalRange, Source0, Eesave, OnDevice

LEMMA DelaysKept ==
  ASSUME SameBoard, NEW src
  PROVE  Delays(src)' = Delays(src)
  BY DEF SameBoard, Delays, OnDevice

LEMMA ListKept ==
  ASSUME SameBoard
  PROVE  /\ Others' = Others
         /\ \A s : WordsTaken(s)' = WordsTaken(s)
         /\ \A s : WordsOf(s)' = WordsOf(s)
  BY DEF SameBoard, Others, OnDevice, WordsTaken, WordsOf, Eesave

LEMMA BoardKept ==
  ASSUME SameBoard
  PROVE  /\ Board' <=> Board
         /\ Divider' = Divider
         /\ BootSizeOf' = BootSizeOf
         /\ HasDelays' <=> HasDelays
         /\ settings' = settings
         /\ device' = device
         /\ uarts' = uarts
  <1>1. Board' <=> Board
    BY DEF SameBoard, Board, HzGiven
  <1> QED
    BY <1>1, ReadKept DEF SameBoard, Divider, BootSizeOf, HasDelays

LEMMA UnwelcomeKept ==
  ASSUME SameBoard
  PROVE  /\ Documented' <=> Documented
         /\ Unwelcome' <=> Unwelcome
  <1>1. ClockDocumented' <=> ClockDocumented
    BY HzKept DEF SameBoard, ClockDocumented, OnDevice, Crystals
  <1>2. StartDocumented' <=> StartDocumented
    <2>1. Delays(Source0)' = Delays(Source0)
      BY DelaysKept, HzKept
    <2>2. Setting("STARTUP_DELAYS", Delays(Source0)[1])'
            = Setting("STARTUP_DELAYS", Delays(Source0)[1])
      BY <2>1, ReadKept DEF SameBoard, Setting
    <2> QED
      BY <2>1, <2>2, BoardKept DEF StartDocumented, Names
  <1>3. FusesDocumented' <=> FusesDocumented
    BY HzKept, ListKept, ReadKept, BoardKept DEF FusesDocumented, LevelDocumented, Clocking
  <1>4. /\ Complete(uarts[0])' <=> Complete(uarts[0])
        /\ Complete(uarts[1])' <=> Complete(uarts[1])
    BY DEF SameBoard, Complete
  <1>5. Documented' <=> Documented
    BY <1>1, <1>2, <1>3, <1>4 DEF Documented
  <1> QED
    BY <1>5, HzKept DEF SameBoard, Unwelcome, RefusesAlso

LEMMA SourceKept ==
  ASSUME SameBoard, NEW src, NEW c31, NEW c0
  PROVE  /\ Selects(src, c31, c0)' <=> Selects(src, c31, c0)
         /\ Becomes8MHz(src, c31, c0)' <=> Becomes8MHz(src, c31, c0)
         /\ KnownHz(src)' <=> KnownHz(src)
         /\ BaseHz(src)' = BaseHz(src)
  <1>1. /\ SelectsX5(src, c31, c0)' <=> SelectsX5(src, c31, c0)
        /\ SelectsX4(src, c31, c0)' <=> SelectsX4(src, c31, c0)
        /\ SelectsX8(src, c31, c0)' <=> SelectsX8(src, c31, c0)
    BY HzKept DEF SelectsX5, SelectsX4, SelectsX8
  <1>2. /\ KnownHz(src)' <=> KnownHz(src)
        /\ BaseHz(src)' = BaseHz(src)
    BY HzKept, SMT DEF KnownHz, BaseHz
  <1> QED
    BY <1>1, <1>2 DEF SameBoard, Selects, Becomes8MHz

LEMMA FuseKept ==
  ASSUME SameBoard, NEW i, NEW f, f = Others[i][2],
         Has(f)' <=> Has(f), Field(f)' = Field(f)
  PROVE  FuseRead(i)' <=> FuseRead(i)
  <1>1. (Others[i][2])' = f
    BY ListKept
  <1>2. Word(i)' = Word(i)
    BY ListKept, ReadKept DEF Word
  <1> QED
    BY <1>1, <1>2, ListKept DEF FuseRead, Has, Field

-----------------------------------------------------------------------------
(* What a section does not define stays as the board asks for.             *)

Untouched(new, fields) == DOMAIN new \cap fields = {}

LEMMA Undisturbed ==
  ASSUME NEW new, Define(new), NEW fields, Untouched(new, fields), NEW f \in fields
  PROVE  /\ Has(f)' <=> Has(f)
         /\ Field(f)' = Field(f)
  BY Defined DEF Untouched

LEMMA Stopped ==
  ASSUME IInv, SameBoard, at' \in Sections, NEW new, Define(new), "error" \in DOMAIN new,
         Unwelcome
  PROVE  IInv'
  <1>1. Has("error")'
    BY Defined
  <1> QED
    BY <1>1, BoardKept, UnwelcomeKept DEF IInv, Sections

LEMMA GoesOn ==
  ASSUME IInv, SameBoard, at' \in Sections, AsAskedSoFar'
  PROVE  Has("error")' \/ IInv'
  BY BoardKept DEF IInv, Sections

LEMMA BootStays ==
  ASSUME BootRead, SameBoard, at # "source", at' # "source", NEW new, Define(new),
         Untouched(new, {"BOOTSZ"})
  PROVE  BootRead'
  <1>1. /\ Has("BOOTSZ")' <=> Has("BOOTSZ")
        /\ Field("BOOTSZ")' = Field("BOOTSZ")
    BY Undisturbed
  <1> QED
    BY <1>1, BoardKept DEF BootRead, BootSizes

SourceFields == {"CKSEL31", "CKSEL0", "syshz_base"}

LEMMA SourceStays ==
  ASSUME SourceRead, SameBoard, at # "source", at' # "source",
         at' \in {"prescaler", "startup"} => at \in {"prescaler", "startup"},
         NEW new, Define(new), Untouched(new, SourceFields)
  PROVE  SourceRead'
  <1>1. /\ Field("CKSEL31")' = Field("CKSEL31")
        /\ Field("CKSEL0")' = Field("CKSEL0")
        /\ Field("syshz_base")' = Field("syshz_base")
        /\ Has("syshz_base")' <=> Has("syshz_base")
    BY Undisturbed DEF SourceFields
  <1> DEFINE c31 == Field("CKSEL31")
             c0  == Field("CKSEL0")
  <1>3. /\ Selects(Source0, c31, c0)' <=> Selects(Source0, c31, c0)
        /\ Becomes8MHz(Source0, c31, c0)' <=> Becomes8MHz(Source0, c31, c0)
        /\ KnownHz(Source0)' <=> KnownHz(Source0)
        /\ BaseHz(Source0)' = BaseHz(Source0)
    BY <1>1, HzKept, SourceKept
  <1> QED
    BY <1>1, <1>3, BoardKept DEF SourceRead, Selected


LEMMA PrescalerStays ==
  ASSUME PrescalerRead, SameBoard, at \notin {"source", "prescaler"},
         at' \notin {"source", "prescaler"}, NEW new, Define(new),
         Untouched(new, {"CKDIV8", "syshz"})
  PROVE  PrescalerRead'
  <1>1. /\ Field("CKDIV8")' = Field("CKDIV8")
        /\ Field("syshz")' = Field("syshz")
        /\ Has("syshz")' <=> Has("syshz")
    BY Undisturbed
  <1>2. /\ KnownHz(Source0)' <=> KnownHz(Source0)
        /\ BaseHz(Source0)' = BaseHz(Source0)
    BY HzKept, SourceKept
  <1> QED
    BY <1>1, <1>2, BoardKept DEF PrescalerRead

Later == {"others", "swuart", "end"}

LEMMA StartupStays ==
  ASSUME StartupRead, SameBoard, at \in Later, NEW new, Define(new),
         Untouched(new, {"SUT10", "CKSEL0"})
  PROVE  StartupRead'
  <1>1. /\ Field("SUT10")' = Field("SUT10")
        /\ Field("CKSEL0")' = Field("CKSEL0")
    BY Undisturbed
  <1>2. Delays(Source0)' = Delays(Source0)
    BY DelaysKept, HzKept
  <1> QED
    BY <1>1, <1>2, BoardKept DEF StartupRead, DelayAt, Names, Later

LEMMA FusesStay ==
  ASSUME Board, SameBoard, read \in 0 .. 8, \A i \in 1 .. read : FuseRead(i), NEW new, Define(new),
         Untouched(new, FuseFields)
  PROVE  \A i \in 1 .. read : FuseRead(i)'
  <1> SUFFICES ASSUME NEW i \in 1 .. read
               PROVE  FuseRead(i)'
    OBVIOUS
  <1>1. PICK f \in FuseFields : f = Others[i][2]
    BY FusesListed DEF Listed, Proper
  <1>2. Has(f)' <=> Has(f)
    BY Undisturbed
  <1>3. Field(f)' = Field(f)
    BY Undisturbed
  <1> QED
    BY <1>1, <1>2, <1>3, FuseKept

LEMMA FusesReadStays ==
  ASSUME Board, SameBoard, FusesRead, read' = read, NEW new, Define(new),
         Untouched(new, FuseFields),
         at' \in {"source", "prescaler", "startup"} => at \in {"source", "prescaler", "startup"},
         at' \in {"swuart", "end"} => read = 8
  PROVE  FusesRead'
  <1>1. \A i \in 1 .. read : FuseRead(i)'
    BY FusesStay DEF FusesRead
  <1> QED
    BY <1>1 DEF FusesRead

LEMMA UartsStay ==
  ASSUME UartsRead, at # "end", at' # "end", NEW new, Define(new),
         Untouched(new, {"swuart0", "swuart1"})
  PROVE  UartsRead'
  <1>1. /\ Has("swuart0")' <=> Has("swuart0")
        /\ Has("swuart1")' <=> Has("swuart1")
    BY Undisturbed
  <1> QED
    BY <1>1 DEF UartsRead


-----------------------------------------------------------------------------
(* The sections, one by one.                                               *)

LEMMA Reads ==
  ASSUME IInv, NEW section, Reading(section)
  PROVE  at = section /\ Board /\ AsAskedSoFar
  BY NoError DEF IInv, Reading

LEMMA BootSizeStep == ASSUME IInv, BootSize PROVE IInv'
  <1> DEFINE size == Setting("BOOTSECTION_SIZE", 4096)
  <1>1. PICK new : /\ Define(new)
                   /\ new = IF size \in DOMAIN BootSizes THEN [BOOTSZ |-> BootSizes[size]]
                            ELSE Refused
    BY DEF BootSize
  <1>2. /\ at = "source" /\ at' = "source" /\ SameBoard /\ read' = read
        /\ Board /\ AsAskedSoFar /\ device = "atmegax8"
    BY Reads DEF BootSize, Then, SameBoard
  <1>3. size = BootSizeOf /\ DOMAIN BootSizes = {512, 1024, 2048, 4096}
    BY DEF BootSizeOf, BootSizes
  <1>4. CASE size \notin DOMAIN BootSizes
    <2>1. new = Refused
      BY <1>1, <1>4
    <2>2. Unwelcome
      BY <1>3, <1>4 DEF Unwelcome, Documented, StartDocumented
    <2> QED
      BY <1>1, <1>2, <2>1, <2>2, Stopped DEF Sections, Refused
  <1>5. CASE size \in DOMAIN BootSizes
    <2>1. DOMAIN new = {"BOOTSZ"} /\ new["BOOTSZ"] = BootSizes[size]
      BY <1>1, <1>5
    <2>2. Has("BOOTSZ")' /\ Field("BOOTSZ")' = BootSizes[size]
      BY <1>1, <2>1, Defined
    <2>3. BootRead'
      BY <1>2, <1>3, <1>5, <2>2, BoardKept DEF BootRead, BootSizes
    <2>4. SourceRead'
      BY <1>1, <1>2, <2>1 DEF AsAskedSoFar, SourceRead, Define, Over
    <2>5. PrescalerRead'
      BY <1>1, <1>2, <2>1, Defined DEF AsAskedSoFar, PrescalerRead
    <2>6. FusesRead'
      BY <1>1, <1>2, <2>1, FusesReadStays DEF AsAskedSoFar, Untouched, FuseFields
    <2>7. UartsRead'
      BY <1>1, <1>2, <2>1, UartsStay DEF AsAskedSoFar, Untouched
    <2>8. StartupRead' /\ PllRead'
      BY <1>2 DEF StartupRead, PllRead
    <2>9. ~ Has("error")'
      BY <1>1, <2>1, Defined, NoError DEF BootSize
    <2> QED
      BY <1>2, <2>3, <2>4, <2>5, <2>6, <2>7, <2>8, <2>9, GoesOn DEF AsAskedSoFar, Sections
  <1> QED
    BY <1>4, <1>5

LEMMA SourceStep == ASSUME IInv, Source PROVE IInv'
  <1>1. PICK new : /\ Define(new)
                   /\ new = OnDevice(SourceX5(Source0), SourceX4(Source0), SourceX8(Source0))
    BY DEF Source, Source0
  <1>2. /\ at = "source" /\ at' = "prescaler" /\ SameBoard /\ read' = read
        /\ Board /\ AsAskedSoFar
        /\ device = "atmegax8" => Has("BOOTSZ")
    BY Reads DEF Source, Then, SameBoard, Has
  <1>3. Sourced(new, Source0)
    BY <1>1, <1>2, SourcedX5, SourcedX4, SourcedX8 DEF OnDevice, Board, Devices
  <1>4. CASE new = Refused
    <2>1. Unwelcome
      BY <1>3, <1>4 DEF Sourced, Unwelcome, RefusesAlso, Refused
    <2> QED
      BY <1>1, <1>2, <1>4, <2>1, Stopped DEF Sections, Refused
  <1>5. CASE new # Refused
    <2> DEFINE c31 == new["CKSEL31"]
               c0  == IF "CKSEL0" \in DOMAIN new THEN new["CKSEL0"] ELSE 0
    <2>1. /\ DOMAIN new \subseteq SourceFields /\ "CKSEL31" \in DOMAIN new
          /\ Selects(Source0, c31, c0)
      BY <1>3, <1>5 DEF Sourced, SourceFields
    <2>2. /\ "syshz_base" \in DOMAIN new <=> KnownHz(Source0)
          /\ "syshz_base" \in DOMAIN new => new["syshz_base"] = BaseHz(Source0)
      BY <1>3, <1>5 DEF Sourced
    <2>3. DOMAIN defs \subseteq {"BOOTSZ"}
      BY <1>2 DEF AsAskedSoFar, SourceRead
    <2>4. Field("CKSEL31")' = c31 /\ Field("CKSEL0")' = c0
      BY <1>1, <2>1, <2>3, Defined DEF Field
    <2>5. /\ Has("syshz_base")' <=> KnownHz(Source0)
          /\ Has("syshz_base")' => Field("syshz_base")' = BaseHz(Source0)
      BY <1>1, <2>2, <2>3, Defined DEF Has
    <2>6. SourceRead'
      <3>1. Selects(Source0, c31, c0)'
        BY <1>2, <2>1, HzKept, SourceKept
      <3> QED
        BY <1>2, <2>4, <2>5, <3>1, HzKept, SourceKept DEF SourceRead, Selected
    <2>7. BootRead'
      <3>1. /\ Has("BOOTSZ")' <=> Has("BOOTSZ")
            /\ Field("BOOTSZ")' = Field("BOOTSZ")
        BY <1>1, <2>1, Defined DEF SourceFields
      <3> QED
        BY <1>2, <3>1, BoardKept DEF AsAskedSoFar, BootRead, BootSizes
    <2>8. PrescalerRead'
      BY <1>1, <1>2, <2>1, Defined DEF AsAskedSoFar, PrescalerRead, SourceFields
    <2>9. FusesRead'
      BY <1>1, <1>2, <2>1, FusesReadStays DEF AsAskedSoFar, Untouched, FuseFields, SourceFields
    <2>10. UartsRead'
      BY <1>1, <1>2, <2>1, UartsStay DEF AsAskedSoFar, Untouched, SourceFields
    <2>11. StartupRead' /\ PllRead'
      BY <1>2 DEF StartupRead, PllRead
    <2>12. ~ Has("error")'
      BY <1>1, <2>1, Defined, NoError DEF Source, SourceFields
    <2> QED
      BY <1>2, <2>6, <2>7, <2>8, <2>9, <2>10, <2>11, <2>12, GoesOn DEF AsAskedSoFar, Sections
  <1> QED
    BY <1>4, <1>5


LEMMA PrescalerStep == ASSUME IInv, Prescaler PROVE IInv'
  <1> DEFINE hz == IF "syshz_base" \in DOMAIN defs
                   THEN [syshz |-> defs["syshz_base"] \div Divider] ELSE Nothing
  <1>1. PICK new : /\ Define(new)
                   /\ new = CASE Divider = 8 -> Over([CKDIV8 |-> 0], hz)
                              [] Divider = 1 -> Over([CKDIV8 |-> 1], hz)
                              [] OTHER       -> Refused
    BY DEF Prescaler, Divider
  <1>2. /\ at = "prescaler" /\ at' = "startup" /\ SameBoard /\ read' = read
        /\ Board /\ AsAskedSoFar
    BY Reads DEF Prescaler, Then, SameBoard
  <1>3. CASE Divider \notin {1, 8}
    <2>1. new = Refused
      BY <1>1, <1>3
    <2>2. Unwelcome
      BY <1>3 DEF Unwelcome, Documented, StartDocumented
    <2> QED
      BY <1>1, <1>2, <2>1, <2>2, Stopped DEF Sections, Refused
  <1>4. CASE Divider \in {1, 8}
    <2> DEFINE bit == IF Divider = 8 THEN 0 ELSE 1
    <2>1. new = Over([CKDIV8 |-> bit], hz)
      BY <1>1, <1>4
    <2>2. /\ Has("syshz_base") <=> KnownHz(Source0)
          /\ Has("syshz_base") => defs["syshz_base"] = BaseHz(Source0)
      BY <1>2 DEF AsAskedSoFar, SourceRead, Has, Field
    <2>3. /\ Has("syshz_base") =>
               DOMAIN hz = {"syshz"} /\ hz["syshz"] = BaseHz(Source0) \div Divider
          /\ ~ Has("syshz_base") => DOMAIN hz = {}
      BY <2>2 DEF Has, Nothing
    <2> HIDE DEF hz
    <2>4. /\ DOMAIN new = {"CKDIV8"} \cup DOMAIN hz /\ new["CKDIV8"] = bit
          /\ "syshz" \in DOMAIN hz => new["syshz"] = hz["syshz"]
      BY <2>1 DEF Over
    <2>5. /\ DOMAIN new \subseteq {"CKDIV8", "syshz"}
          /\ "syshz" \in DOMAIN new <=> KnownHz(Source0)
          /\ "syshz" \in DOMAIN new => new["syshz"] = BaseHz(Source0) \div Divider
      BY <2>2, <2>3, <2>4
    <2>6. ~ Has("syshz")
      BY <1>2 DEF AsAskedSoFar, PrescalerRead
    <2>7. Field("CKDIV8")' = bit
      BY <1>1, <2>4, Defined
    <2>8. /\ Has("syshz")' <=> KnownHz(Source0)
          /\ Has("syshz")' => Field("syshz")' = BaseHz(Source0) \div Divider
      BY <1>1, <2>5, <2>6, Defined
    <2>9. PrescalerRead'
      BY <1>2, <1>4, <2>7, <2>8, BoardKept, HzKept, SourceKept DEF PrescalerRead
    <2>10. BootRead'
      BY <1>1, <1>2, <2>5, BootStays DEF AsAskedSoFar, Untouched
    <2>11. SourceRead'
      BY <1>1, <1>2, <2>5, SourceStays DEF AsAskedSoFar, Untouched, SourceFields
    <2>12. FusesRead'
      BY <1>1, <1>2, <2>5, FusesReadStays DEF AsAskedSoFar, Untouched, FuseFields
    <2>13. UartsRead'
      BY <1>1, <1>2, <2>5, UartsStay DEF AsAskedSoFar, Untouched
    <2>14. StartupRead' /\ PllRead'
      BY <1>2 DEF StartupRead, PllRead
    <2>15. ~ Has("error")'
      BY <1>1, <2>5, Defined, NoError DEF Prescaler
    <2> QED
      BY <1>2, <2>9, <2>10, <2>11, <2>12, <2>13, <2>14, <2>15, GoesOn DEF AsAskedSoFar, Sections
  <1> QED
    BY <1>3, <1>4

LEMMA StartupStep == ASSUME IInv, Startup PROVE IInv'
  <1> DEFINE c31 == Field("CKSEL31")
             c0  == Field("CKSEL0")
             name == settings["STARTUP_DELAYS"]
  <1>1. PICK new : /\ Define(new)
                   /\ new = IF HasDelays
                            THEN OnDevice(StartupX5(name), StartupX4(name), StartupX8(name))
                            ELSE [SUT10 |-> 2]
    BY DEF Startup, HasDelays
  <1>2. /\ at = "startup" /\ at' = "others" /\ SameBoard /\ read' = read
        /\ Board /\ AsAskedSoFar
    BY Reads DEF Startup, Then, SameBoard
  <1>3. Selects(Source0, c31, c0)
    BY <1>2 DEF AsAskedSoFar, SourceRead, Selected
  <1>4. CASE HasDelays /\ "error" \in DOMAIN new
    <2>1. Started(new, Source0, name, c31, c0)
      BY <1>1, <1>2, <1>3, <1>4, StartedX5, StartedX4, StartedX8
      DEF OnDevice, Board, Devices, Selects
    <2>2. Unwelcome
      BY <1>4, <2>1, DelayDocumented DEF Started, Delayed, Unwelcome, HasDelays
    <2> QED
      BY <1>1, <1>2, <1>4, <2>2, Stopped DEF Sections
  <1>5. CASE ~ (HasDelays /\ "error" \in DOMAIN new)
    <2> DEFINE k0  == IF "CKSEL0" \in DOMAIN new THEN new["CKSEL0"] ELSE c0
               sut == new["SUT10"]
    <2>1. /\ DOMAIN new \subseteq {"CKSEL0", "SUT10"} /\ "SUT10" \in DOMAIN new
          /\ sut \in 0 .. 3
          /\ HasDelays => name \in Names(Delays(Source0))
          /\ HasDelays => DelayAt(Delays(Source0), sut, k0) = name
          /\ ~ HasDelays => sut = 2
          /\ Selects(Source0, c31, k0) \/ (Becomes8MHz(Source0, c31, k0) /\ HasDelays)
      <3>1. CASE HasDelays
        <4>1. Started(new, Source0, name, c31, c0)
          BY <1>1, <1>2, <1>3, <3>1, StartedX5, StartedX4, StartedX8
          DEF OnDevice, Board, Devices, Selects
        <4> QED
          BY <1>5, <3>1, <4>1 DEF Started, Delayed
      <3>2. CASE ~ HasDelays
        BY <1>1, <1>3, <3>2
      <3> QED
        BY <3>1, <3>2
    <2>2. /\ Field("SUT10")' = sut
          /\ Field("CKSEL0")' = k0
          /\ Field("CKSEL31")' = c31
      BY <1>1, <2>1, Defined
    <2>3. /\ Has("syshz_base")' <=> Has("syshz_base")
          /\ Field("syshz_base")' = Field("syshz_base")
      BY <1>1, <2>1, Defined
    <2>4. SourceRead'
      <3>1. \/ Selects(Source0, c31, k0)'
            \/ Becomes8MHz(Source0, c31, k0)' /\ HasDelays
        BY <1>2, <2>1, <2>2, HzKept, SourceKept
      <3>2. /\ KnownHz(Source0)' <=> KnownHz(Source0)
            /\ BaseHz(Source0)' = BaseHz(Source0)
        BY <1>2, HzKept, SourceKept
      <3> QED
        BY <1>2, <2>2, <2>3, <3>1, <3>2, HzKept, BoardKept DEF AsAskedSoFar, SourceRead, Selected
    <2>5. StartupRead'
      <3>1. Delays(Source0)' = Delays(Source0)
        BY <1>2, DelaysKept, HzKept
      <3> QED
        BY <1>2, <2>1, <2>2, <3>1, BoardKept DEF StartupRead, DelayAt, Names
    <2>6. BootRead'
      BY <1>1, <1>2, <2>1, BootStays DEF AsAskedSoFar, Untouched
    <2>7. PrescalerRead'
      BY <1>1, <1>2, <2>1, PrescalerStays DEF AsAskedSoFar, Untouched
    <2>8. FusesRead'
      BY <1>1, <1>2, <2>1, FusesReadStays DEF AsAskedSoFar, Untouched, FuseFields
    <2>9. UartsRead'
      BY <1>1, <1>2, <2>1, UartsStay DEF AsAskedSoFar, Untouched
    <2>10. PllRead'
      BY <1>2 DEF PllRead
    <2>11. ~ Has("error")'
      BY <1>1, <2>1, Defined, NoError DEF Startup
    <2> QED
      BY <1>2, <2>4, <2>5, <2>6, <2>7, <2>8, <2>9, <2>10, <2>11, GoesOn DEF AsAskedSoFar, Sections
  <1> QED
    BY <1>4, <1>5


\* A fuse is read after the clock, and its field is one of its own.
LEMMA OtherStep == ASSUME IInv, Other PROVE IInv'
  <1>0. PICK n : n = read + 1
    OBVIOUS
  <1> DEFINE fuse == Others[n]
             word == Setting(fuse[1], fuse[3])
  <1>1. PICK new : /\ Define(new)
                   /\ new = IF word \in DOMAIN fuse[4] THEN One(fuse[2], fuse[4][word])
                            ELSE Refused
    BY <1>0 DEF Other
  <1>2. /\ at = "others" /\ at' = "others" /\ SameBoard /\ read' = n
        /\ Board /\ AsAskedSoFar /\ read < Len(Others)
    BY <1>0, Reads DEF Other, Then, SameBoard
  <1>3. Listed /\ n \in 1 .. 8 /\ read \in 0 .. 7
    <2>1. Listed /\ Len(Others) = 8
      BY <1>2, FusesListed DEF Listed
    <2>2. read \in 0 .. 8
      BY <1>2 DEF AsAskedSoFar, FusesRead
    <2> QED
      BY <1>0, <1>2, <2>1, <2>2, SMT
  <1>4. /\ fuse[2] \in FuseFields /\ DOMAIN fuse[4] = WordsTaken(fuse[1])
    BY <1>3 DEF Listed, Proper
  <1>5. CASE word \notin DOMAIN fuse[4]
    <2>1. new = Refused
      BY <1>1, <1>5
    <2>2. Unwelcome
      BY <1>2, <1>3, <1>4, <1>5, WordDocumented DEF Unwelcome, Word
    <2> QED
      BY <1>1, <1>2, <2>1, <2>2, Stopped DEF Sections, Refused
  <1>6. CASE word \in DOMAIN fuse[4]
    <2>0. PICK f \in FuseFields : f = fuse[2]
      BY <1>4
    <2>1. DOMAIN new = {f} /\ new[f] = fuse[4][word]
      BY <1>1, <1>6, <2>0 DEF One
    <2>2. f \notin SourceFields \cup
                     {"error", "BOOTSZ", "CKDIV8", "syshz", "SUT10", "swuart0", "swuart1"}
      BY <2>0 DEF FuseFields, SourceFields
    <2>3. FuseRead(n)'
      <3>1. Has(f)' /\ Field(f)' = fuse[4][word]
        BY <1>1, <2>1, Defined
      <3>2. (Others[n][2])' = f /\ (Others[n][4])' = fuse[4]
        BY <1>2, <2>0, ListKept
      <3>3. WordsTaken(Others[n][1])' = WordsTaken(fuse[1]) /\ Word(n)' = word
        BY <1>2, ListKept, ReadKept DEF Word
      <3> QED
        BY <1>4, <1>6, <3>1, <3>2, <3>3 DEF FuseRead, Has, Field
    <2>4. ASSUME NEW i \in 1 .. read
          PROVE  FuseRead(i)'
      <3>1. i \in 1 .. 8 /\ i # n /\ FuseRead(i)
        BY <1>0, <1>2, <1>3 DEF AsAskedSoFar, FusesRead
      <3>2. PICK g : g = Others[i][2]
        OBVIOUS
      <3>3. g # f
        BY <1>3, <2>0, <3>1, <3>2 DEF Listed
      <3>4. Has(g)' <=> Has(g)
        BY <1>1, <2>1, <3>3, Defined
      <3>5. Field(g)' = Field(g)
        BY <1>1, <2>1, <3>3, Defined
      <3> QED
        BY <1>2, <3>1, <3>2, <3>4, <3>5, FuseKept
    <2>5. FusesRead'
      <3>1. \A i \in 1 .. n : i \in 1 .. read \/ i = n
        BY <1>0, <1>3, SMT
      <3>2. \A i \in 1 .. n : FuseRead(i)'
        BY <2>3, <2>4, <3>1
      <3>3. n \in 0 .. 8
        BY <1>3, SMT
      <3> HIDE DEF fuse
      <3> QED
        BY <1>2, <3>2, <3>3 DEF FusesRead
    <2>6. BootRead'
      BY <1>1, <1>2, <2>1, <2>2, BootStays DEF AsAskedSoFar, Untouched
    <2>7. SourceRead'
      BY <1>1, <1>2, <2>1, <2>2, SourceStays DEF AsAskedSoFar, Untouched
    <2>8. PrescalerRead'
      BY <1>1, <1>2, <2>1, <2>2, PrescalerStays DEF AsAskedSoFar, Untouched
    <2>9. StartupRead'
      BY <1>1, <1>2, <2>1, <2>2, StartupStays DEF AsAskedSoFar, Untouched, Later, SourceFields
    <2>10. UartsRead'
      BY <1>1, <1>2, <2>1, <2>2, UartsStay DEF AsAskedSoFar, Untouched
    <2>11. PllRead'
      BY <1>2 DEF PllRead
    <2>12. ~ Has("error")'
      BY <1>1, <2>1, <2>2, Defined, NoError DEF Other
    <2> QED
      BY <1>2, <2>5, <2>6, <2>7, <2>8, <2>9, <2>10, <2>11, <2>12, GoesOn DEF AsAskedSoFar, Sections
  <1> QED
    BY <1>5, <1>6

\* The lowest level of the brown-out detection is the word that gives 6.
LEMMA BrownoutRead ==
  ASSUME Board, device \in {"attinyx5", "attinyx4", "atmegax8"}, \A i \in 1 .. 8 : FuseRead(i)
  PROVE  /\ Setting("BROWNOUT_DETECTION", "off") \in DOMAIN Brownout
         /\ Field("BODLEVEL") = Brownout[Setting("BROWNOUT_DETECTION", "off")]
  <1>1. Others[IF device = "attinyx5" THEN 7 ELSE IF device = "attinyx4" THEN 8 ELSE 7]
          = <<"BROWNOUT_DETECTION", "BODLEVEL", "off", Brownout>>
    BY DEF Others, OnDevice, OthersX5, OthersX4, OthersX8
  <1>2. PICK i \in 1 .. 8 : Others[i] = <<"BROWNOUT_DETECTION", "BODLEVEL", "off", Brownout>>
    BY <1>1
  <1>3. FuseRead(i)
    BY <1>2
  <1>4. WordsTaken("BROWNOUT_DETECTION") = DOMAIN Brownout
    BY WordValues DEF WordsTaken, Eesave, OnDevice
  <1> QED
    BY <1>2, <1>3, <1>4 DEF FuseRead, Word

LEMMA OthersEndStep == ASSUME IInv, OthersEnd PROVE IInv'
  <1> DEFINE bad == /\ device = "attinyx5"
                    /\ Setting("CLK_SRC", "rc_8MHz") = "rc_pll_16MHz" /\ Field("BODLEVEL") = 6
  <1>1. PICK new : Define(new) /\ new = IF bad THEN Refused ELSE Nothing
    BY DEF OthersEnd
  <1>2. /\ at = "others" /\ at' = "swuart" /\ SameBoard /\ read' = read
        /\ Board /\ AsAskedSoFar /\ read = Len(Others)
    BY Reads DEF OthersEnd, Then, SameBoard
  <1>3. read = 8 /\ \A i \in 1 .. 8 : FuseRead(i)
    BY <1>2, FusesListed DEF AsAskedSoFar, FusesRead, Listed
  <1>4. CASE bad
    <2>1. Setting("BROWNOUT_DETECTION", "off") = "1700_2000mV"
      BY <1>2, <1>3, <1>4, BrownoutRead, WordValues DEF Board, Devices
    <2>2. Unwelcome
      BY <1>4, <2>1 DEF Unwelcome, Documented, FusesDocumented, LevelDocumented, Source0
    <2> QED
      BY <1>1, <1>2, <1>4, <2>2, Stopped DEF Sections, Refused
  <1>5. CASE ~ bad
    <2>1. DOMAIN new = {}
      BY <1>1, <1>5 DEF Nothing
    <2>2. Field("BODLEVEL")' = Field("BODLEVEL")
      BY <1>1, <2>1, Defined
    <2>3. PllRead'
      BY <1>2, <1>5, <2>2, HzKept DEF PllRead, SameBoard, Source0
    <2>4. BootRead'
      BY <1>1, <1>2, <2>1, BootStays DEF AsAskedSoFar, Untouched
    <2>5. SourceRead'
      BY <1>1, <1>2, <2>1, SourceStays DEF AsAskedSoFar, Untouched
    <2>6. PrescalerRead'
      BY <1>1, <1>2, <2>1, PrescalerStays DEF AsAskedSoFar, Untouched
    <2>7. StartupRead'
      BY <1>1, <1>2, <2>1, StartupStays DEF AsAskedSoFar, Untouched, Later
    <2>8. FusesRead'
      BY <1>1, <1>2, <1>3, <2>1, FusesReadStays DEF AsAskedSoFar, Untouched
    <2>9. UartsRead'
      BY <1>1, <1>2, <2>1, UartsStay DEF AsAskedSoFar, Untouched
    <2>10. ~ Has("error")'
      BY <1>1, <2>1, Defined, NoError DEF OthersEnd
    <2> QED
      BY <1>2, <2>3, <2>4, <2>5, <2>6, <2>7, <2>8, <2>9, <2>10, GoesOn DEF AsAskedSoFar, Sections
  <1> QED
    BY <1>4, <1>5


\* A unit is defined when its settings are complete and it works.
LEMMA SwuartFound ==
  ASSUME NEW u, NEW unit, NEW found, found = Swuart(u, unit),
         \A s \in {"compare", "pin_txd", "pin_rxd"} \cap DOMAIN u : u[s] \in {"object", "nothing"}
  PROVE  /\ ~ Complete(u) => found = Refused
         /\ Complete(u) /\ Works(u) => found = unit
         /\ Complete(u) /\ ~ Works(u) => DOMAIN found = {}
  <1> DEFINE bad == \/ {"compare", "clk_div"} \ DOMAIN u # {}
                    \/ \E s \in {"compare", "pin_txd", "pin_rxd"} \cap DOMAIN u : u[s] = "nothing"
  <1>1. bad <=> ~ (/\ {"compare", "clk_div"} \subseteq DOMAIN u
                   /\ \A s \in {"compare", "pin_txd", "pin_rxd"} \cap DOMAIN u : u[s] = "object")
    <2>1. {"compare", "clk_div"} \ DOMAIN u = {} <=> {"compare", "clk_div"} \subseteq DOMAIN u
      OBVIOUS
    <2>2. "object" # "nothing"
      OBVIOUS
    <2> QED
      BY <2>1, <2>2, Zenon
  <1>2. DOMAIN u # {} => (Complete(u) <=> ~ bad)
    <2> HIDE DEF bad
    <2> QED
      BY <1>1, Zenon DEF Complete
  <1>3. found = IF DOMAIN u = {} THEN Nothing
                ELSE IF bad THEN Refused
                ELSE IF "pin_rxd" \in DOMAIN u /\ "starter" \notin DOMAIN u THEN Nothing
                ELSE unit
    BY Zenon DEF Swuart
  <1>4. DOMAIN Nothing = {}
    BY DEF Nothing
  <1>5. CASE DOMAIN u = {}
    BY <1>3, <1>4, <1>5 DEF Complete, Works
  <1>6. CASE DOMAIN u # {}
    <2> HIDE DEF bad
    <2> QED
      BY <1>2, <1>3, <1>4, <1>6 DEF Works
  <1> QED
    BY <1>5, <1>6

UartFields == {"swuart0", "swuart1", "swuart0_synced", "swuart1_synced"}

\* What both units define, from the definitions of each.
LEMMA SwuartsFound ==
  ASSUME Board, NEW a, NEW b, NEW unit0, NEW unit1, NEW new, new = Over(a, b),
         a = Swuart(uarts[0], unit0), b = Swuart(uarts[1], unit1),
         DOMAIN unit0 \in {{"swuart0"}, {"swuart0", "swuart0_synced"}},
         DOMAIN unit1 \in {{"swuart1"}, {"swuart1", "swuart1_synced"}}
  PROVE  \/ "error" \in DOMAIN new /\ ~ (Complete(uarts[0]) /\ Complete(uarts[1]))
         \/ /\ Complete(uarts[0]) /\ Complete(uarts[1])
            /\ DOMAIN new \subseteq UartFields
            /\ "swuart0" \in DOMAIN new <=> Works(uarts[0])
            /\ "swuart1" \in DOMAIN new <=> Works(uarts[1])
  <1>1. DOMAIN new = DOMAIN a \cup DOMAIN b
    BY OverDomain
  <1>2. /\ ~ Complete(uarts[0]) => a = Refused
        /\ Complete(uarts[0]) /\ Works(uarts[0]) => a = unit0
        /\ Complete(uarts[0]) /\ ~ Works(uarts[0]) => DOMAIN a = {}
    <2>1. \A s \in {"compare", "pin_txd", "pin_rxd"} \cap DOMAIN uarts[0] :
            uarts[0][s] \in {"object", "nothing"}
      BY DEF Board
    <2> QED
      BY <2>1, SwuartFound
  <1>3. /\ ~ Complete(uarts[1]) => b = Refused
        /\ Complete(uarts[1]) /\ Works(uarts[1]) => b = unit1
        /\ Complete(uarts[1]) /\ ~ Works(uarts[1]) => DOMAIN b = {}
    <2>1. \A s \in {"compare", "pin_txd", "pin_rxd"} \cap DOMAIN uarts[1] :
            uarts[1][s] \in {"object", "nothing"}
      BY DEF Board
    <2> QED
      BY <2>1, SwuartFound
  <1>4. DOMAIN Refused = {"error"}
    BY DEF Refused
  <1>5. CASE ~ (Complete(uarts[0]) /\ Complete(uarts[1]))
    BY <1>1, <1>2, <1>3, <1>4, <1>5
  <1>6. CASE Complete(uarts[0]) /\ Complete(uarts[1])
    <2>1. DOMAIN a \subseteq {"swuart0", "swuart0_synced"}
          /\ ("swuart0" \in DOMAIN a <=> Works(uarts[0]))
      BY <1>2, <1>6
    <2>2. DOMAIN b \subseteq {"swuart1", "swuart1_synced"}
          /\ ("swuart1" \in DOMAIN b <=> Works(uarts[1]))
      BY <1>3, <1>6
    <2> QED
      BY <1>1, <1>6, <2>1, <2>2 DEF UartFields
  <1> QED
    BY <1>5, <1>6

LEMMA SwuartsStep == ASSUME IInv, Swuarts PROVE IInv'
  <1>1. PICK new : Define(new) /\ new = OnDevice(SwuartX5, SwuartX4, SwuartX8)
    BY DEF Swuarts
  <1>2. /\ at = "swuart" /\ at' = "end" /\ SameBoard /\ read' = read
        /\ Board /\ AsAskedSoFar
    BY Reads DEF Swuarts, Then, SameBoard
  <1>3. \/ "error" \in DOMAIN new /\ ~ (Complete(uarts[0]) /\ Complete(uarts[1]))
        \/ /\ Complete(uarts[0]) /\ Complete(uarts[1])
           /\ DOMAIN new \subseteq UartFields
           /\ "swuart0" \in DOMAIN new <=> Works(uarts[0])
           /\ "swuart1" \in DOMAIN new <=> Works(uarts[1])
    <2>1. CASE device = "attinyx5"
      <3>1. new = Over(Swuart(uarts[0], [swuart0 |-> 130]), Swuart(uarts[1], [swuart1 |-> 131]))
        BY <1>1, <2>1 DEF OnDevice, SwuartX5
      <3> QED
        BY <1>2, <3>1, SwuartsFound
    <2>2. CASE device = "attinyx4"
      <3>1. new = Over(Swuart(uarts[0], [swuart0 |-> 137, swuart0_synced |-> 0]),
                       Swuart(uarts[1], [swuart1 |-> 138, swuart1_synced |-> 0]))
        BY <1>1, <2>2 DEF OnDevice, SwuartX4
      <3> QED
        BY <1>2, <3>1, SwuartsFound
    <2>3. CASE device = "atmegax8"
      <3>1. new = Over(Swuart(uarts[0], [swuart0 |-> 153, swuart0_synced |-> 0]),
                       Swuart(uarts[1], [swuart1 |-> 154, swuart1_synced |-> 0]))
        BY <1>1, <2>3 DEF OnDevice, SwuartX8
      <3> QED
        BY <1>2, <3>1, SwuartsFound
    <2> QED
      BY <1>2, <2>1, <2>2, <2>3 DEF Board, Devices
  <1>4. CASE "error" \in DOMAIN new /\ ~ (Complete(uarts[0]) /\ Complete(uarts[1]))
    <2>1. Unwelcome
      BY <1>4 DEF Unwelcome, Documented
    <2> QED
      BY <1>1, <1>2, <1>4, <2>1, Stopped DEF Sections
  <1>5. CASE /\ Complete(uarts[0]) /\ Complete(uarts[1])
             /\ DOMAIN new \subseteq UartFields
             /\ "swuart0" \in DOMAIN new <=> Works(uarts[0])
             /\ "swuart1" \in DOMAIN new <=> Works(uarts[1])
    <2>1. ~ Has("swuart0") /\ ~ Has("swuart1")
      BY <1>2 DEF AsAskedSoFar, UartsRead
    <2>2. UartsRead'
      <3>1. /\ Has("swuart0")' <=> Works(uarts[0])
            /\ Has("swuart1")' <=> Works(uarts[1])
        BY <1>1, <1>5, <2>1, Defined
      <3> QED
        BY <1>2, <1>5, <3>1 DEF UartsRead, SameBoard, Complete, Works
    <2>3. Untouched(new, {"BOOTSZ", "CKDIV8", "syshz", "SUT10", "CKSEL0", "error", "BODLEVEL"}
                           \cup SourceFields \cup FuseFields)
      BY <1>5 DEF Untouched, UartFields, SourceFields, FuseFields
    <2>4. BootRead'
      BY <1>1, <1>2, <2>3, BootStays DEF AsAskedSoFar, Untouched
    <2>5. SourceRead'
      BY <1>1, <1>2, <2>3, SourceStays DEF AsAskedSoFar, Untouched
    <2>6. PrescalerRead'
      BY <1>1, <1>2, <2>3, PrescalerStays DEF AsAskedSoFar, Untouched
    <2>7. StartupRead'
      BY <1>1, <1>2, <2>3, StartupStays DEF AsAskedSoFar, Untouched, Later
    <2>8. FusesRead'
      <3>1. read = 8
        BY <1>2 DEF AsAskedSoFar, FusesRead
      <3> QED
        BY <1>1, <1>2, <2>3, <3>1, FusesReadStays DEF AsAskedSoFar, Untouched
    <2>9. PllRead'
      <3>1. Field("BODLEVEL")' = Field("BODLEVEL")
        BY <1>1, <2>3, Defined DEF Untouched
      <3> QED
        BY <1>2, <3>1, HzKept DEF AsAskedSoFar, PllRead, SameBoard
    <2>10. ~ Has("error")'
      BY <1>1, <2>3, Defined, NoError DEF Swuarts, Untouched
    <2> QED
      BY <1>2, <2>2, <2>4, <2>5, <2>6, <2>7, <2>8, <2>9, <2>10, GoesOn DEF AsAskedSoFar, Sections
  <1> QED
    BY <1>3, <1>4, <1>5

LEMMA Initially == ASSUME Init PROVE IInv
  <1>1. PICK b \in Boards : device = b[1] /\ settings = b[2] /\ uarts = b[3]
    BY DEF Init
  <1>2. at = "source" /\ read = 0 /\ DOMAIN defs = {}
    BY DEF Init, Nothing
  <1>3. Board
    BY <1>1, BoardAssumption DEF Board, HzGiven
  <1>4. AsAskedSoFar
    BY <1>2 DEF AsAskedSoFar, BootRead, SourceRead, PrescalerRead, StartupRead, FusesRead,
         PllRead, UartsRead, Has
  <1> QED
    BY <1>2, <1>3, <1>4 DEF IInv, Sections, Has


-----------------------------------------------------------------------------
(* The bytes.                                                              *)

IsLowByte(byte, div, out, sut, c31, c0) ==
  byte = 128 * div + 64 * out + 16 * sut + 2 * c31 + c0

IsUpperHalf(byte, rst, dw, spi, wdt, ee, low) ==
  byte = 128 * rst + 64 * dw + 32 * spi + 16 * wdt + 8 * ee + low

LEMMA LowByteFields ==
  ASSUME NEW div \in 0 .. 1, NEW out \in 0 .. 1, NEW sut \in 0 .. 3,
         NEW c31 \in 0 .. 7, NEW c0 \in 0 .. 1,
         NEW byte, IsLowByte(byte, div, out, sut, c31, c0)
  PROVE  /\ byte % 16 = 2 * c31 + c0 /\ byte % 2 = c0 /\ (byte \div 16) % 4 = sut
         /\ (byte \div 128) % 2 = div /\ (byte \div 64) % 2 = out
  BY SMT DEF IsLowByte

LEMMA HighByteFields ==
  ASSUME NEW rst \in 0 .. 1, NEW dw \in 0 .. 1, NEW spi \in 0 .. 1, NEW wdt \in 0 .. 1,
         NEW ee \in 0 .. 1, NEW low \in 0 .. 7,
         NEW byte, IsUpperHalf(byte, rst, dw, spi, wdt, ee, low)
  PROVE  /\ (byte \div 128) % 2 = rst /\ (byte \div 64) % 2 = dw /\ (byte \div 32) % 2 = spi
         /\ (byte \div 16) % 2 = wdt /\ (byte \div 8) % 2 = ee /\ byte % 8 = low
         /\ (byte \div 2) % 4 = low \div 2 /\ (byte \div 1) % 2 = low % 2
  BY SMT DEF IsUpperHalf

AllRead == Board /\ Listed /\ \A i \in 1 .. 8 : FuseRead(i)

Row(s, f, default, words) == \E i \in 1 .. 8 : Others[i] = <<s, f, default, words>>

\* What a row of the list says of its field.
LEMMA RowRead ==
  ASSUME AllRead, NEW s, NEW f, NEW default, NEW words,
         Row(s, f, default, words)
  PROVE  /\ Setting(s, default) \in DOMAIN words
         /\ Field(f) = words[Setting(s, default)]
  <1>1. PICK i \in 1 .. 8 : Others[i] = <<s, f, default, words>>
    BY DEF Row
  <1>2. FuseRead(i) /\ DOMAIN words = WordsTaken(s)
    BY <1>1 DEF AllRead, Listed, Proper
  <1> QED
    BY <1>1, <1>2 DEF FuseRead, Word

LEMMA Rows ==
  ASSUME Board
  PROVE  /\ Row("CLOCK_OUTPUT", "CKOUT", "disabled", Enable)
         /\ Row("EXTERNAL_RESET", "RSTDISBL", "enabled", Disable)
         /\ Row("DEBUG_WIRE", "DWEN", "disabled", Enable)
         /\ Row("SERIAL_PROGRAMMING", "SPIEN", "enabled", Enable)
         /\ Row("WATCHDOG_ALWAYS_ON", "WDTON", "no", YesNo)
         /\ Row(Eesave, "EESAVE", "no", YesNo)
         /\ Row("BROWNOUT_DETECTION", "BODLEVEL", "off", Brownout)
         /\ device # "atmegax8" => Row("SELF_PROGRAMMING", "SELFPRGEN", "enabled", Enable)
         /\ device = "atmegax8" => Row("BOOT", "BOOTRST", "application",
                                       [application |-> 1, bootloader |-> 0])
  <1>1. CASE device = "attinyx5"
    <2>1. Others = OthersX5 /\ Eesave = "PRESERVE_EEPROM_FROM_CHIP_ERASE"
      BY <1>1 DEF Others, Eesave, OnDevice
    <2>2. 1 \in 1 .. 8 /\ 2 \in 1 .. 8 /\ 3 \in 1 .. 8 /\ 4 \in 1 .. 8 /\ 5 \in 1 .. 8
          /\ 6 \in 1 .. 8 /\ 7 \in 1 .. 8 /\ 8 \in 1 .. 8
      OBVIOUS
    <2> QED
      BY <1>1, <2>1, <2>2 DEF Row, OthersX5
  <1>2. CASE device = "attinyx4"
    <2>1. Others = OthersX4 /\ Eesave = "PRESERVE_EEPROM_FROM_CHIP_ERASE"
      BY <1>2 DEF Others, Eesave, OnDevice
    <2>2. 1 \in 1 .. 8 /\ 2 \in 1 .. 8 /\ 3 \in 1 .. 8 /\ 4 \in 1 .. 8 /\ 5 \in 1 .. 8
          /\ 6 \in 1 .. 8 /\ 7 \in 1 .. 8 /\ 8 \in 1 .. 8
      OBVIOUS
    <2> QED
      BY <1>2, <2>1, <2>2 DEF Row, OthersX4
  <1>3. CASE device = "atmegax8"
    <2>1. Others = OthersX8 /\ Eesave = "PRESERVE_EEPROM_THROUGH_CHIP_ERASE"
      BY <1>3 DEF Others, Eesave, OnDevice
    <2>2. 1 \in 1 .. 8 /\ 2 \in 1 .. 8 /\ 3 \in 1 .. 8 /\ 4 \in 1 .. 8 /\ 5 \in 1 .. 8
          /\ 6 \in 1 .. 8 /\ 7 \in 1 .. 8 /\ 8 \in 1 .. 8
      OBVIOUS
    <2> QED
      BY <1>3, <2>1, <2>2 DEF Row, OthersX8
  <1> QED
    BY <1>1, <1>2, <1>3 DEF Board, Devices


\* The fields of the fuses, and the words they stand for.
LEMMA SwitchesRead ==
  ASSUME AllRead
  PROVE  /\ Field("CKOUT") \in 0 .. 1
         /\ Field("CKOUT") = 0 <=> Setting("CLOCK_OUTPUT", "disabled") = "enabled"
         /\ Field("RSTDISBL") \in 0 .. 1
         /\ Field("RSTDISBL") = 0 <=> Setting("EXTERNAL_RESET", "enabled") = "disabled"
         /\ Field("DWEN") \in 0 .. 1
         /\ Field("DWEN") = 0 <=> Setting("DEBUG_WIRE", "disabled") = "enabled"
         /\ Field("SPIEN") \in 0 .. 1
         /\ Field("SPIEN") = 0 <=> Setting("SERIAL_PROGRAMMING", "enabled") = "enabled"
         /\ Field("WDTON") \in 0 .. 1
         /\ Field("WDTON") = 0 <=> Setting("WATCHDOG_ALWAYS_ON", "no") = "yes"
         /\ Field("EESAVE") \in 0 .. 1
         /\ Field("EESAVE") = 0 <=> Setting(Eesave, "no") = "yes"
  <1>1. /\ Setting("CLOCK_OUTPUT", "disabled") \in DOMAIN Enable
        /\ Field("CKOUT") = Enable[Setting("CLOCK_OUTPUT", "disabled")]
    BY Rows, RowRead DEF AllRead
  <1>2. /\ Setting("EXTERNAL_RESET", "enabled") \in DOMAIN Disable
        /\ Field("RSTDISBL") = Disable[Setting("EXTERNAL_RESET", "enabled")]
    BY Rows, RowRead DEF AllRead
  <1>3. /\ Setting("DEBUG_WIRE", "disabled") \in DOMAIN Enable
        /\ Field("DWEN") = Enable[Setting("DEBUG_WIRE", "disabled")]
    BY Rows, RowRead DEF AllRead
  <1>4. /\ Setting("SERIAL_PROGRAMMING", "enabled") \in DOMAIN Enable
        /\ Field("SPIEN") = Enable[Setting("SERIAL_PROGRAMMING", "enabled")]
    BY Rows, RowRead DEF AllRead
  <1>5. /\ Setting("WATCHDOG_ALWAYS_ON", "no") \in DOMAIN YesNo
        /\ Field("WDTON") = YesNo[Setting("WATCHDOG_ALWAYS_ON", "no")]
    BY Rows, RowRead DEF AllRead
  <1>6. /\ Setting(Eesave, "no") \in DOMAIN YesNo
        /\ Field("EESAVE") = YesNo[Setting(Eesave, "no")]
    BY Rows, RowRead DEF AllRead
  <1> QED
    BY <1>1, <1>2, <1>3, <1>4, <1>5, <1>6, WordValues

\* The EEPROM is preserved when the board says so by the setting that is read.
LEMMA EepromRead ==
  ASSUME AllRead, Unread = {}
  PROVE  Field("EESAVE") = 0 <=> PreservesEeprom
  <1>1. /\ Setting(Eesave, "no") \in {"yes", "no"}
        /\ Field("EESAVE") = 0 <=> Setting(Eesave, "no") = "yes"
    BY Rows, RowRead, SwitchesRead, WordValues DEF AllRead
  <1>2. ASSUME NEW s \in DOMAIN settings,
               s \in {"PRESERVE_EEPROM_FROM_CHIP_ERASE", "PRESERVE_EEPROM_THROUGH_CHIP_ERASE"}
        PROVE  s = Eesave
    <2>1. s \in ReadBy(device)
      BY DEF Unread
    <2> QED
      BY <1>2, <2>1 DEF ReadBy, Eesave, OnDevice, AllRead, Board, Devices
  <1>3. Eesave \in {"PRESERVE_EEPROM_FROM_CHIP_ERASE", "PRESERVE_EEPROM_THROUGH_CHIP_ERASE"}
    BY DEF Eesave, OnDevice, AllRead, Board, Devices
  <1> QED
    BY <1>1, <1>2, <1>3 DEF PreservesEeprom, Setting

LEMMA LevelRead ==
  ASSUME AllRead
  PROVE  /\ Field("BODLEVEL") \in 4 .. 7
         /\ Setting("BROWNOUT_DETECTION", "off") =
              CASE Field("BODLEVEL") = 7 -> "off" [] Field("BODLEVEL") = 6 -> "1700_2000mV"
                [] Field("BODLEVEL") = 5 -> "2500_2900mV" [] Field("BODLEVEL") = 4 -> "4100_4500mV"
  <1>1. /\ Setting("BROWNOUT_DETECTION", "off") \in DOMAIN Brownout
        /\ Field("BODLEVEL") = Brownout[Setting("BROWNOUT_DETECTION", "off")]
    BY Rows, RowRead DEF AllRead
  <1> QED
    BY <1>1, WordValues

LEMMA ProgramRead ==
  ASSUME AllRead
  PROVE  /\ device # "atmegax8" =>
              /\ Field("SELFPRGEN") \in 0 .. 1
              /\ Field("SELFPRGEN") = 0 <=> Setting("SELF_PROGRAMMING", "enabled") = "enabled"
         /\ device = "atmegax8" =>
              /\ Field("BOOTRST") \in 0 .. 1
              /\ Field("BOOTRST") = 0 <=> Setting("BOOT", "application") = "bootloader"
  <1>1. ASSUME device # "atmegax8"
        PROVE  /\ Field("SELFPRGEN") \in 0 .. 1
               /\ Field("SELFPRGEN") = 0 <=> Setting("SELF_PROGRAMMING", "enabled") = "enabled"
    <2>1. /\ Setting("SELF_PROGRAMMING", "enabled") \in DOMAIN Enable
          /\ Field("SELFPRGEN") = Enable[Setting("SELF_PROGRAMMING", "enabled")]
      BY <1>1, Rows, RowRead DEF AllRead
    <2> QED
      BY <2>1, WordValues
  <1>2. ASSUME device = "atmegax8"
        PROVE  /\ Field("BOOTRST") \in 0 .. 1
               /\ Field("BOOTRST") = 0 <=> Setting("BOOT", "application") = "bootloader"
    <2> DEFINE boot == [application |-> 1, bootloader |-> 0]
    <2>1. /\ Setting("BOOT", "application") \in DOMAIN boot
          /\ Field("BOOTRST") = boot[Setting("BOOT", "application")]
      BY <1>2, Rows, RowRead DEF AllRead
    <2>2. /\ DOMAIN boot = {"application", "bootloader"}
          /\ boot["application"] = 1 /\ boot["bootloader"] = 0
      OBVIOUS
    <2> HIDE DEF boot
    <2> QED
      BY <2>1, <2>2
  <1> QED
    BY <1>1, <1>2

-----------------------------------------------------------------------------
(* What the device makes of the bytes.                                     *)

\* The fields of an accepted board are those of its low byte.
AtEnd == Board /\ AsAskedSoFar /\ at = "end"

LEMMA AllReadAtEnd == AtEnd => AllRead
  BY FusesListed DEF AtEnd, AsAskedSoFar, FusesRead, AllRead

\* CKSEL3..1 are three bits, CKSEL0 one.
LEMMA SelectsBits ==
  ASSUME Board, NEW src, NEW c31, NEW c0, Selects(src, c31, c0) \/ Becomes8MHz(src, c31, c0)
  PROVE  c31 \in 0 .. 7 /\ c0 \in 0 .. 1
  <1>1. CASE Becomes8MHz(src, c31, c0)
    BY <1>1 DEF Becomes8MHz
  <1>2. CASE SelectsX5(src, c31, c0)
    BY <1>2, RangeOfCrystal DEF SelectsX5
  <1>3. CASE SelectsX4(src, c31, c0)
    BY <1>3, RangeOfCrystal DEF SelectsX4
  <1>4. CASE SelectsX8(src, c31, c0)
    BY <1>4, RangeOfCrystal DEF SelectsX8
  <1> QED
    BY <1>1, <1>2, <1>3, <1>4 DEF Selects

LEMMA LowByteAtEnd ==
  ASSUME AtEnd
  PROVE  /\ Bytes.LB % 16 = 2 * Field("CKSEL31") + Field("CKSEL0")
         /\ Bytes.LB % 2 = Field("CKSEL0")
         /\ (Bytes.LB \div 16) % 4 = Field("SUT10")
         /\ Bit("LB", 128) = Field("CKDIV8")
         /\ Bit("LB", 64) = Field("CKOUT")
  <1>1. Bytes.LB = LowByte
    BY DEF AtEnd, Board, Devices, Bytes, OnDevice, BytesX5, BytesX4, BytesX8
  <1>2. Field("CKSEL31") \in 0 .. 7 /\ Field("CKSEL0") \in 0 .. 1
    BY SelectsBits DEF AtEnd, AsAskedSoFar, SourceRead, Selected
  <1>3. Field("SUT10") \in 0 .. 3
    BY DEF AtEnd, AsAskedSoFar, StartupRead
  <1>4. Field("CKDIV8") \in 0 .. 1
    BY DEF AtEnd, AsAskedSoFar, PrescalerRead
  <1>5. Field("CKOUT") \in 0 .. 1
    BY SwitchesRead, AllReadAtEnd
  <1>6. IsLowByte(Bytes.LB, Field("CKDIV8"), Field("CKOUT"), Field("SUT10"),
                  Field("CKSEL31"), Field("CKSEL0"))
    BY <1>1 DEF LowByte, IsLowByte
  <1> QED
    BY <1>2, <1>3, <1>4, <1>5, <1>6, LowByteFields DEF Bit


\* The low bits of the high byte are the brown-out level, or the boot section.
LowBits == IF device = "atmegax8" THEN 2 * Field("BOOTSZ") + Field("BOOTRST")
           ELSE Field("BODLEVEL")

LEMMA BootAtEnd ==
  ASSUME AtEnd, device = "atmegax8"
  PROVE  /\ Field("BOOTSZ") \in 0 .. 3
         /\ Field("BOOTRST") \in 0 .. 1
         /\ BootSizeOf = <<4096, 2048, 1024, 512>>[1 + Field("BOOTSZ")]
         /\ LowBits \in 0 .. 7 /\ LowBits \div 2 = Field("BOOTSZ") /\ LowBits % 2 = Field("BOOTRST")
  <1>1. BootSizeOf \in {512, 1024, 2048, 4096} /\ Field("BOOTSZ") = BootSizes[BootSizeOf]
    BY SMT DEF AtEnd, AsAskedSoFar, BootRead, BootSizes
  <1>2. BootSizes[512] = 3 /\ BootSizes[1024] = 2 /\ BootSizes[2048] = 1 /\ BootSizes[4096] = 0
    BY SMT DEF BootSizes
  <1>3. Field("BOOTRST") \in 0 .. 1
    BY ProgramRead, AllReadAtEnd
  <1>4. /\ Field("BOOTSZ") \in 0 .. 3
        /\ BootSizeOf = <<4096, 2048, 1024, 512>>[1 + Field("BOOTSZ")]
    BY <1>1, <1>2, SMT
  <1>5. LowBits = 2 * Field("BOOTSZ") + Field("BOOTRST")
    BY DEF LowBits
  <1> QED
    BY <1>3, <1>4, <1>5, SMT

LEMMA HighByteAtEnd ==
  ASSUME AtEnd
  PROVE  /\ Bit("HB", 128) = Field("RSTDISBL") /\ Bit("HB", 64) = Field("DWEN")
         /\ Bit("HB", 32) = Field("SPIEN") /\ Bit("HB", 16) = Field("WDTON")
         /\ Bit("HB", 8) = Field("EESAVE") /\ Bit("HB", 1) = LowBits % 2
         /\ Bytes.HB % 8 = LowBits /\ (Bytes.HB \div 2) % 4 = LowBits \div 2
  <1>1. Bytes.HB = UpperHalf + LowBits
    <2>1. CASE device = "atmegax8"
      <3>1. Bytes.HB = UpperHalf + 2 * Field("BOOTSZ") + Field("BOOTRST")
        BY <2>1 DEF Bytes, OnDevice, BytesX8
      <3>2. UpperHalf \in Int
        BY SwitchesRead, AllReadAtEnd DEF UpperHalf
      <3> QED
        BY <2>1, <3>1, <3>2, BootAtEnd DEF LowBits
    <2>2. CASE device # "atmegax8"
      BY <2>2 DEF AtEnd, Board, Devices, Bytes, OnDevice, BytesX5, BytesX4, LowBits
    <2> QED
      BY <2>1, <2>2
  <1>2. LowBits \in 0 .. 7
    BY BootAtEnd, LevelRead, AllReadAtEnd DEF LowBits
  <1>3. /\ Field("RSTDISBL") \in 0 .. 1 /\ Field("DWEN") \in 0 .. 1 /\ Field("SPIEN") \in 0 .. 1
        /\ Field("WDTON") \in 0 .. 1 /\ Field("EESAVE") \in 0 .. 1
    BY SwitchesRead, AllReadAtEnd
  <1>4. IsUpperHalf(Bytes.HB, Field("RSTDISBL"), Field("DWEN"), Field("SPIEN"),
                    Field("WDTON"), Field("EESAVE"), LowBits)
    BY <1>1, <1>2, <1>3 DEF UpperHalf, IsUpperHalf
  <1> QED
    BY <1>2, <1>3, <1>4, HighByteFields DEF Bit

\* The extended byte is the brown-out level, or the programming of itself.
LEMMA ExtendedByteAtEnd ==
  ASSUME AtEnd
  PROVE  /\ device = "atmegax8" => Bytes.EB % 8 = Field("BODLEVEL")
         /\ device # "atmegax8" => Bit("EB", 1) = Field("SELFPRGEN")
  <1>1. ASSUME device = "atmegax8"
        PROVE  Bytes.EB % 8 = Field("BODLEVEL")
    <2>1. Bytes.EB = Field("BODLEVEL")
      BY <1>1 DEF Bytes, OnDevice, BytesX8
    <2>2. Field("BODLEVEL") \in 4 .. 7
      BY LevelRead, AllReadAtEnd
    <2> QED
      BY <2>1, <2>2, SMT
  <1>2. ASSUME device # "atmegax8"
        PROVE  Bit("EB", 1) = Field("SELFPRGEN")
    <2>1. Bytes["EB"] = 254 + Field("SELFPRGEN")
      BY <1>2 DEF AtEnd, Board, Devices, Bytes, OnDevice, BytesX5, BytesX4
    <2>2. Field("SELFPRGEN") \in 0 .. 1
      BY <1>2, ProgramRead, AllReadAtEnd
    <2> QED
      BY <2>1, <2>2, SMT DEF Bit
  <1> QED
    BY <1>1, <1>2

\* The device runs from the source the board names.
LEMMA DeviceSelects ==
  ASSUME Board, NEW src, NEW c31, NEW c0, Bytes.LB % 16 = 2 * c31 + c0
  PROVE  /\ Selects(src, c31, c0) => DeviceSource = src
         /\ Becomes8MHz(src, c31, c0) => DeviceSource = "rc_8MHz"
  <1>1. CASE device = "attinyx5"
    <2> DEFINE names == <<"external", "rc_pll_16MHz", "rc_8MHz", "rc_1600kHz",
                          "rc_128kHz", "reserved", "low_freq_xosc", "reserved">>
    <2>1. DeviceSource = IF 2 * c31 + c0 < 8 THEN names[2 * c31 + c0 + 1] ELSE "xosc"
      BY <1>1 DEF DeviceSource, OnDevice
    <2> QED
      BY <1>1, <2>1, RangeOfCrystal DEF Selects, SelectsX5, Becomes8MHz
  <1>2. CASE device = "attinyx4"
    <2> DEFINE names == <<"external", "reserved", "rc_8MHz", "reserved",
                          "rc_128kHz", "reserved", "low_freq_xosc", "reserved">>
    <2>1. DeviceSource = IF 2 * c31 + c0 < 8 THEN names[2 * c31 + c0 + 1] ELSE "xosc"
      BY <1>2 DEF DeviceSource, OnDevice
    <2> QED
      BY <1>2, <2>1, RangeOfCrystal DEF Selects, SelectsX4, Becomes8MHz
  <1>3. CASE device = "atmegax8"
    <2> DEFINE names == <<"external", "reserved", "rc_8MHz", "rc_128kHz",
                          "low_freq_xosc", "low_freq_xosc", "full_swing_xosc",
                          "full_swing_xosc">>
    <2>1. DeviceSource = IF 2 * c31 + c0 < 8 THEN names[2 * c31 + c0 + 1] ELSE "low_power_xosc"
      BY <1>3 DEF DeviceSource, OnDevice
    <2> QED
      BY <1>3, <2>1, RangeOfCrystal DEF Selects, SelectsX8, Becomes8MHz
  <1> QED
    BY <1>1, <1>2, <1>3 DEF Board, Devices


\* The source, as the bytes of an accepted board select it.
LEMMA SourceAtEnd ==
  ASSUME AtEnd
  PROVE  \/ /\ Selects(Source0, Field("CKSEL31"), Field("CKSEL0"))
            /\ DeviceSource = Source0
         \/ /\ Misselects /\ Source0 = "rc_128kHz" /\ DeviceSource = "rc_8MHz"
            /\ 2 * Field("CKSEL31") + Field("CKSEL0") = 2
  <1>1. Bytes.LB % 16 = 2 * Field("CKSEL31") + Field("CKSEL0")
    BY LowByteAtEnd
  <1>2. CASE Selects(Source0, Field("CKSEL31"), Field("CKSEL0"))
    BY <1>1, <1>2, DeviceSelects DEF AtEnd
  <1>3. CASE Becomes8MHz(Source0, Field("CKSEL31"), Field("CKSEL0")) /\ HasDelays
    <2>1. DeviceSource = "rc_8MHz"
      BY <1>1, <1>3, DeviceSelects DEF AtEnd
    <2> QED
      BY <1>3, <2>1 DEF Becomes8MHz, Misselects, HasDelays
  <1> QED
    BY <1>2, <1>3 DEF AtEnd, AsAskedSoFar, SourceRead, Selected

LEMMA DividerAtEnd ==
  ASSUME AtEnd
  PROVE  /\ Divider \in {1, 8}
         /\ Bit("LB", 128) = 0 <=> Divider = 8
  BY LowByteAtEnd DEF AtEnd, AsAskedSoFar, PrescalerRead

LEMMA ClockAtEnd == ASSUME AtEnd PROVE ClockAsAsked
  <1>1. CASE Misselects
    BY <1>1 DEF ClockAsAsked
  <1>2. CASE DeviceSource = Source0 /\ Selects(Source0, Field("CKSEL31"), Field("CKSEL0"))
    <2>1. DeviceHz = BaseHz(Source0)
      BY <1>2, SMT DEF DeviceHz, BaseHz
    <2>2. Divider = IF Bit("LB", 128) = 0 THEN 8 ELSE 1
      BY DividerAtEnd
    <2>3. CASE KnownHz(Source0)
      <3>1. Field("syshz") = BaseHz(Source0) \div Divider
        BY <2>3 DEF AtEnd, AsAskedSoFar, PrescalerRead
      <3> QED
        BY <2>1, <2>2, <3>1 DEF ClockAsAsked
    <2>4. CASE ~ KnownHz(Source0)
      <3>1. "syshz" \notin DOMAIN defs
        BY <2>4 DEF AtEnd, AsAskedSoFar, PrescalerRead, Has
      <3>2. Source0 = "external" \/ (device = "attinyx5" /\ Source0 = "low_freq_xosc")
        BY <1>2, <2>4, HzRange DEF AtEnd, KnownHz, Selects, SelectsX4, SelectsX8
      <3> QED
        BY <3>1, <3>2 DEF ClockAsAsked
    <2> QED
      BY <2>3, <2>4
  <1> QED
    BY <1>1, <1>2, SourceAtEnd

\* A crystal whose frequency the board gives is in the range of its fuses.
LEMMA RangeAtEnd == ASSUME AtEnd, HzGiven PROVE DeviceRange[1] <= Hz /\ Hz <= DeviceRange[2]
  <1> DEFINE cksel == 2 * Field("CKSEL31") + Field("CKSEL0")
  <1>1. Bytes.LB % 16 = cksel
    BY LowByteAtEnd
  <1>2. /\ Hz \in Nat /\ Hz <= MaxHz
        /\ CrystalRange \in 4 .. 7
        /\ Hz < 900000 <=> CrystalRange = 4
        /\ Hz >= 900000 /\ Hz < 3000000 <=> CrystalRange = 5
        /\ Hz >= 3000000 /\ Hz < 8000000 <=> CrystalRange = 6
        /\ Hz >= 8000000 <=> CrystalRange = 7
    BY HzRange, RangeOfCrystal DEF AtEnd
  <1>3. \/ cksel \in 0 .. 7
        \/ Field("CKSEL31") = CrystalRange /\ Field("CKSEL0") \in 0 .. 1
    <2>1. CASE 2 * Field("CKSEL31") + Field("CKSEL0") = 2
      BY <2>1
    <2>2. CASE Selects(Source0, Field("CKSEL31"), Field("CKSEL0"))
      BY <2>2 DEF Selects, SelectsX5, SelectsX4, SelectsX8
    <2> QED
      BY <2>1, <2>2, SourceAtEnd
  <1>4. CASE cksel \in 0 .. 7
    <2>1. DeviceRange = <<0, MaxHz>>
      BY <1>1, <1>4, SMT DEF DeviceRange
    <2> QED
      BY <1>2, <2>1
  <1>5. CASE Field("CKSEL31") = CrystalRange /\ Field("CKSEL0") \in 0 .. 1
    <2>1. CASE CrystalRange = 4
      <3>1. DeviceRange = <<0, 899999>>
        BY <1>1, <1>5, <2>1, SMT DEF DeviceRange
      <3> QED
        BY <1>2, <2>1, <3>1, SMT
    <2>2. CASE CrystalRange = 5
      <3>1. DeviceRange = <<900000, 2999999>>
        BY <1>1, <1>5, <2>2, SMT DEF DeviceRange
      <3> QED
        BY <1>2, <2>2, <3>1, SMT
    <2>3. CASE CrystalRange = 6
      <3>1. DeviceRange = <<3000000, 7999999>>
        BY <1>1, <1>5, <2>3, SMT DEF DeviceRange
      <3> QED
        BY <1>2, <2>3, <3>1, SMT
    <2>4. CASE CrystalRange = 7
      <3>1. DeviceRange = <<8000000, MaxHz>>
        BY <1>1, <1>5, <2>4, SMT DEF DeviceRange
      <3> QED
        BY <1>2, <2>4, <3>1, SMT
    <2> QED
      BY <1>2, <2>1, <2>2, <2>3, <2>4, SMT
  <1> QED
    BY <1>3, <1>4, <1>5

LEMMA DelayAtEnd ==
  ASSUME AtEnd, HasDelays
  PROVE  DeviceDelay = settings["STARTUP_DELAYS"]
  <1>1. Delays(DeviceSource) = Delays(Source0)
    <2>1. CASE DeviceSource = Source0
      BY <2>1
    <2>2. CASE Source0 = "rc_128kHz" /\ DeviceSource = "rc_8MHz"
      BY <2>2 DEF Delays
    <2> QED
      BY <2>1, <2>2, SourceAtEnd
  <1>2. settings["STARTUP_DELAYS"] = DelayAt(Delays(Source0), Field("SUT10"), Field("CKSEL0"))
    BY DEF AtEnd, AsAskedSoFar, StartupRead
  <1>3. /\ Bytes.LB % 2 = Field("CKSEL0")
        /\ (Bytes.LB \div 16) % 4 = Field("SUT10")
    BY LowByteAtEnd
  <1> QED
    BY <1>1, <1>2, <1>3 DEF DeviceDelay, DelayAt

\* The bytes of the factory.
LEMMA DefaultsAtEnd ==
  ASSUME AtEnd, DOMAIN settings = {}
  PROVE  Bytes.LB = 98 /\ Bytes.HB = OnDevice(223, 223, 217)
  <1>1. \A s, d : Setting(s, d) = d
    BY DEF Setting
  <1>2. /\ Field("CKDIV8") = 0 /\ Field("SUT10") = 2
    BY <1>1 DEF AtEnd, AsAskedSoFar, PrescalerRead, StartupRead, Divider, HasDelays
  <1>3. Field("CKSEL31") = 1 /\ Field("CKSEL0") = 0
    <2>1. Source0 = "rc_8MHz" /\ ~ HasDelays
      BY <1>1 DEF Source0, HasDelays
    <2> QED
      BY <2>1, SourceAtEnd DEF Selects, SelectsX5, SelectsX4, SelectsX8
  <1>4. /\ Field("CKOUT") = 1 /\ Field("RSTDISBL") = 1 /\ Field("DWEN") = 1
        /\ Field("SPIEN") = 0 /\ Field("WDTON") = 1 /\ Field("EESAVE") = 1
    BY <1>1, SwitchesRead, AllReadAtEnd
  <1>5. Field("BODLEVEL") = 7
    BY <1>1, LevelRead, AllReadAtEnd
  <1>6. device = "atmegax8" => Field("BOOTSZ") = 0 /\ Field("BOOTRST") = 1
    <2>1. ASSUME device = "atmegax8"
          PROVE  Field("BOOTRST") = 1
      BY <1>1, <2>1, ProgramRead, AllReadAtEnd
    <2>2. ASSUME device = "atmegax8"
          PROVE  Field("BOOTSZ") = 0
      <3>1. BootSizeOf = 4096
        BY <1>1 DEF BootSizeOf
      <3> QED
        BY <2>2, <3>1, SMT DEF AtEnd, AsAskedSoFar, BootRead, BootSizes
    <2> QED
      BY <2>1, <2>2
  <1>7. LowByte = 98 /\ UpperHalf = 216
    BY <1>2, <1>3, <1>4 DEF LowByte, UpperHalf
  <1>8. Bytes.LB = LowByte
    BY DEF AtEnd, Board, Devices, Bytes, OnDevice, BytesX5, BytesX4, BytesX8
  <1>9. Bytes.HB = OnDevice(223, 223, 217)
    <2>1. CASE device = "atmegax8"
      BY <1>6, <1>7, <2>1 DEF Bytes, OnDevice, BytesX8
    <2>2. CASE device # "atmegax8"
      BY <1>5, <1>7, <2>2 DEF AtEnd, Board, Devices, Bytes, OnDevice, BytesX5, BytesX4
    <2> QED
      BY <2>1, <2>2
  <1> QED
    BY <1>7, <1>8, <1>9


\* What an accepted board has is documented.
LEMMA SizeAtEnd ==
  ASSUME AtEnd
  PROVE  BootSizeOf \in {512, 1024, 2048, 4096}
  <1>1. CASE device = "atmegax8"
    BY <1>1, SMT DEF AtEnd, AsAskedSoFar, BootRead, BootSizes
  <1>2. CASE device # "atmegax8"
    <2>1. "BOOTSECTION_SIZE" \notin DOMAIN settings
      BY <1>2 DEF AtEnd, Board, Settings, ReadBy
    <2> QED
      BY <2>1 DEF BootSizeOf, Setting
  <1> QED
    BY <1>1, <1>2

LEMMA NamesAtEnd ==
  ASSUME AtEnd
  PROVE  Setting("STARTUP_DELAYS", Delays(Source0)[1]) \in Names(Delays(Source0))
  <1>1. CASE HasDelays
    BY <1>1 DEF AtEnd, AsAskedSoFar, StartupRead, HasDelays, Setting
  <1>2. CASE ~ HasDelays
    <2>1. 1 \in DOMAIN Delays(Source0)
      BY DEF Delays, OnDevice, AtEnd, Board, Devices
    <2>2. Delays(Source0)[1] \in Names(Delays(Source0))
      BY <2>1, Zenon DEF Names
    <2> QED
      BY <1>2, <2>2 DEF Setting, HasDelays
  <1> QED
    BY <1>1, <1>2

LEMMA WordsAtEnd ==
  ASSUME AtEnd, AllRead
  PROVE  FusesTaken
  <1>1. \A s \in DOMAIN settings \ Clocking : settings[s] \in WordsOf(s) \/ TakesAlso(s)
    BY WordsDocumented DEF AllRead
  <1>2. ASSUME Source0 = "rc_pll_16MHz", Setting("BROWNOUT_DETECTION", "off") = "1700_2000mV"
        PROVE  FALSE
    <2>1. device = "attinyx5"
      BY <1>2, SourceAtEnd DEF Selects, SelectsX4, SelectsX8
    <2>2. Field("BODLEVEL") = 6
      BY <1>2, LevelRead
    <2> QED
      BY <1>2, <2>1, <2>2 DEF AtEnd, AsAskedSoFar, PllRead
  <1> QED
    BY <1>1, <1>2 DEF FusesTaken, LevelDocumented

LEMMA KnownAtEnd == ASSUME AtEnd PROVE ClockTaken
  <1>1. HzGiven => Hz \in Nat
    BY HzRange DEF AtEnd
  <1>2. Hz # 0 => HzGiven
    BY HzRange DEF AtEnd
  <1>3. Misselects => device = "atmegax8"
    BY DEF Misselects
  <1>4. CASE device = "attinyx5"
    BY <1>1, <1>2, <1>3, <1>4, SourceAtEnd
    DEF Selects, SelectsX5, ClockTaken, ClockDocumented, OnDevice, Crystals
  <1>5. CASE device = "attinyx4"
    BY <1>1, <1>2, <1>3, <1>5, SourceAtEnd
    DEF Selects, SelectsX4, ClockTaken, ClockDocumented, OnDevice, Crystals
  <1>6. CASE device = "atmegax8"
    BY <1>1, <1>2, <1>3, <1>6, SourceAtEnd
    DEF Selects, SelectsX8, ClockTaken, ClockDocumented, OnDevice, Crystals
  <1> QED
    BY <1>4, <1>5, <1>6 DEF AtEnd, Board, Devices

LEMMA Unchanged == ASSUME IInv, UNCHANGED vars PROVE IInv'
  <1>1. SameBoard /\ at' = at /\ read' = read /\ defs' = defs
    BY DEF vars, SameBoard
  <1>2. ASSUME NEW f
        PROVE  (Has(f)' <=> Has(f)) /\ Field(f)' = Field(f)
    BY <1>1 DEF Has, Field
  <1>3. BootRead' <=> BootRead
    BY <1>1, <1>2, BoardKept DEF BootRead, BootSizes
  <1>4. SourceRead' <=> SourceRead
    <2>1. Selected(Field("CKSEL31"), Field("CKSEL0"))'
            <=> Selected(Field("CKSEL31"), Field("CKSEL0"))
      BY <1>1, <1>2, HzKept, BoardKept, SourceKept DEF Selected
    <2>2. (KnownHz(Source0)' <=> KnownHz(Source0)) /\ BaseHz(Source0)' = BaseHz(Source0)
      BY <1>1, HzKept, SourceKept
    <2> QED
      BY <1>1, <1>2, <2>1, <2>2 DEF SourceRead
  <1>5. PrescalerRead' <=> PrescalerRead
    <2>1. (KnownHz(Source0)' <=> KnownHz(Source0)) /\ BaseHz(Source0)' = BaseHz(Source0)
      BY <1>1, HzKept, SourceKept
    <2> QED
      BY <1>1, <1>2, <2>1, BoardKept DEF PrescalerRead
  <1>6. StartupRead' <=> StartupRead
    <2>1. Delays(Source0)' = Delays(Source0)
      BY <1>1, DelaysKept, HzKept
    <2> QED
      BY <1>1, <1>2, <2>1, BoardKept DEF StartupRead, DelayAt, Names
  <1>7. FusesRead' <=> FusesRead
    <2>1. ASSUME NEW i
          PROVE  FuseRead(i)' <=> FuseRead(i)
      <3>1. PICK f : f = Others[i][2]
        OBVIOUS
      <3>2. (Has(f)' <=> Has(f)) /\ Field(f)' = Field(f)
        BY <1>2
      <3> QED
        BY <1>1, <3>1, <3>2, FuseKept
    <2> QED
      BY <1>1, <2>1 DEF FusesRead
  <1>8. PllRead' <=> PllRead
    BY <1>1, <1>2, HzKept DEF PllRead, SameBoard
  <1>9. UartsRead' <=> UartsRead
    BY <1>1, <1>2 DEF UartsRead, SameBoard, Complete, Works
  <1>10. Has("error")' <=> Has("error")
    BY <1>2
  <1> QED
    BY <1>1, <1>3, <1>4, <1>5, <1>6, <1>7, <1>8, <1>9, <1>10, BoardKept, UnwelcomeKept
    DEF IInv, AsAskedSoFar, Sections

-----------------------------------------------------------------------------
(* The theorems.                                                           *)

\* What has been read so far is what the board asks for, and a header that
\* stops does so at a board that the documentation does not allow.
THEOREM SettingsCorrect == Spec => []IInv
  <1>1. Init => IInv
    BY Initially
  <1>2. IInv /\ [Next]_vars => IInv'
    <2> SUFFICES ASSUME IInv, [Next]_vars
                 PROVE  IInv'
      OBVIOUS
    <2>1. CASE BootSize
      BY <2>1, BootSizeStep
    <2>2. CASE Source
      BY <2>2, SourceStep
    <2>3. CASE Prescaler
      BY <2>3, PrescalerStep
    <2>4. CASE Startup
      BY <2>4, StartupStep
    <2>5. CASE Other
      BY <2>5, OtherStep
    <2>6. CASE OthersEnd
      BY <2>6, OthersEndStep
    <2>7. CASE Swuarts
      BY <2>7, SwuartsStep
    <2>8. CASE UNCHANGED vars
      BY <2>8, Unchanged
    <2> QED
      BY <2>1, <2>2, <2>3, <2>4, <2>5, <2>6, <2>7, <2>8 DEF Next
  <1> QED
    BY <1>1, <1>2, PTL DEF Spec

\* The bytes of an accepted board header make a device run from the clock,
\* after the delays, with the protections and the start that header asks for,
\* at the frequency the program is compiled with.
LEMMA ComposedAsAsked ==
  ASSUME IInv, Accepted
  PROVE  AsAsked
  <1>1. AtEnd /\ AllRead
    BY AllReadAtEnd DEF IInv, Accepted, Has, AtEnd
  <1>2. ClockAsAsked
    BY <1>1, ClockAtEnd
  <1>3. Misselects \/ DeviceSource = Source0
    BY <1>1, SourceAtEnd
  <1>4. CrystalAsAsked
    BY <1>1, RangeAtEnd DEF CrystalAsAsked
  <1>5. DelaysAsAsked
    BY <1>1, DelayAtEnd DEF DelaysAsAsked, HasDelays
  <1>6. SwitchesAsAsked
    BY <1>1, DividerAtEnd, LowByteAtEnd, HighByteAtEnd, SwitchesRead, EepromRead DEF SwitchesAsAsked, Divider
  <1>7. LevelAsAsked
    <2>1. OnDevice(Bytes.HB % 8, Bytes.HB % 8, Bytes.EB % 8) = Field("BODLEVEL")
      BY <1>1, HighByteAtEnd, ExtendedByteAtEnd DEF AtEnd, Board, Devices, OnDevice, LowBits
    <2> QED
      BY <1>1, <2>1, LevelRead DEF LevelAsAsked
  <1>8. ProgramAsAsked
    <2>1. CASE device = "atmegax8"
      BY <1>1, <2>1, HighByteAtEnd, BootAtEnd, ProgramRead DEF ProgramAsAsked, BootSizeOf
    <2>2. CASE device # "atmegax8"
      BY <1>1, <2>2, ExtendedByteAtEnd, ProgramRead DEF ProgramAsAsked
    <2> QED
      BY <2>1, <2>2
  <1>9. FactoryAsAsked
    BY <1>1, DefaultsAtEnd DEF FactoryAsAsked
  <1> QED
    BY <1>2, <1>3, <1>4, <1>5, <1>6, <1>7, <1>8, <1>9 DEF AsAsked

\* A device the makefiles burn with these bytes does so.
THEOREM FusesCorrect == Spec => []FusesAsAsked
  <1>1. IInv => FusesAsAsked
    BY ComposedAsAsked DEF FusesAsAsked
  <1> QED
    BY <1>1, SettingsCorrect, PTL

\* The ATmegax8 would do so with those its header composes under other names.
THEOREM ComposesCorrect == Spec => []ComposesAsAsked
  <1>1. IInv => ComposesAsAsked
    BY ComposedAsAsked DEF ComposesAsAsked
  <1> QED
    BY <1>1, SettingsCorrect, PTL

\* A board header is refused only if the documentation does not allow it, and
\* accepted only if it does, with the exceptions the property names; an
\* accepted one has the software UARTs it configures.
THEOREM AcceptsCorrect == Spec => []AcceptsDocumented
  <1>1. IInv => AcceptsDocumented
    <2> SUFFICES ASSUME IInv
                 PROVE  AcceptsDocumented
      OBVIOUS
    <2>1. "error" \in DOMAIN defs => Unwelcome
      BY DEF IInv, Has
    <2>2. Accepted => AtEnd /\ AllRead
      BY AllReadAtEnd DEF IInv, Accepted, Has, AtEnd
    <2>3. ASSUME AtEnd, AllRead
          PROVE  /\ "swuart0" \in DOMAIN defs <=> Works(uarts[0])
                 /\ "swuart1" \in DOMAIN defs <=> Works(uarts[1])
                 /\ Complete(uarts[0]) /\ Complete(uarts[1])
      BY <2>3 DEF AtEnd, AsAskedSoFar, UartsRead, Has
    <2>4. ASSUME AtEnd, AllRead
          PROVE  StartDocumented
      <3>1. Divider \in {1, 8}
        BY <2>4, DividerAtEnd
      <3>2. BootSizeOf \in {512, 1024, 2048, 4096}
        BY <2>4, SizeAtEnd
      <3>3. Setting("STARTUP_DELAYS", Delays(Source0)[1]) \in Names(Delays(Source0))
        BY <2>4, NamesAtEnd
      <3> QED
        BY <3>1, <3>2, <3>3 DEF StartDocumented
    <2>5. ASSUME AtEnd, AllRead
          PROVE  FusesTaken
      BY <2>5, WordsAtEnd
    <2>6. ASSUME AtEnd
          PROVE  ClockTaken
      BY <2>6, KnownAtEnd
    <2> QED
      BY <2>1, <2>2, <2>3, <2>4, <2>5, <2>6, Zenon DEF AcceptsDocumented, Unwelcome
  <1> QED
    BY <1>1, SettingsCorrect, PTL

=============================================================================
