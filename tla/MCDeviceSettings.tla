---- MODULE MCDeviceSettings ----
(* Board headers: every clock with every startup delay; every pair of      *)
(* other settings; every way to configure a software UART.                 *)
EXTENDS DeviceSettings, TLC

None == << >>
NoUart == [n \in 0..1 |-> None]

Sources == {"rc_pll_16MHz", "rc_8MHz", "rc_1600kHz", "rc_128kHz", "unknown"}
Driven  == {"external", "low_freq_xosc", "xosc", "low_power_xosc", "full_swing_xosc"}
Frequencies == {0, 32768, 899999, 900000, 2999999, 3000000, 7999999, 8000000, 16000000}
DelayNames == {"6CK_14CK", "6CK_14CK_4ms", "6CK_14CK_64ms", "1KCK_4ms", "1KCK_64ms",
               "32KCK_64ms", "258CK_14CK_4ms", "258CK_14CK_64ms", "1KCK_14CK",
               "1KCK_14CK_4ms", "1KCK_14CK_64ms", "16KCK_14CK", "16KCK_14CK_4ms",
               "16KCK_14CK_64ms", "4CK", "4CK_4ms", "4CK_64ms", "1CK_14CK",
               "14CK_1KCK_4ms", "14CK_16KCK_4ms", "14CK_1KCK_64ms", "14CK_16KCK_64ms"}

Optional(s, values) == {None} \cup {s :> v : v \in values}

(* Every source and frequency with every divider, and with every delay. *)
Clocked == {("CLK_SRC" :> s) @@ f : s \in Driven, f \in Optional("CLK_SRC_HZ", Frequencies)}
             \cup Optional("CLK_SRC", Sources)
Clocks == {a @@ b : a \in Clocked,
                    b \in UNION {Optional("CLK_PSC", {1, 4, 8}),
                                 Optional("STARTUP_DELAYS", DelayNames)}}

Words == [SELF_PROGRAMMING |-> {"enabled", "disabled", "unknown"},
          EXTERNAL_RESET |-> {"enabled", "disabled", "unknown"},
          DEBUG_WIRE |-> {"enabled", "disabled", "unknown"},
          SERIAL_PROGRAMMING |-> {"enabled", "disabled", "unknown"},
          CLOCK_OUTPUT |-> {"enabled", "disabled", "unknown"},
          WATCHDOG_ALWAYS_ON |-> {"yes", "no", "unknown"},
          PRESERVE_EEPROM_FROM_CHIP_ERASE |-> {"enabled", "disabled", "yes", "no", "unknown"},
          PRESERVE_EEPROM_THROUGH_CHIP_ERASE |-> {"enabled", "yes", "no", "unknown"},
          BROWNOUT_DETECTION |-> {"off", "1700_2000mV", "2500_2900mV", "4100_4500mV", "unknown"},
          BOOT |-> {"application", "bootloader", "unknown"},
          BOOTSECTION_SIZE |-> {512, 1024, 2048, 4096, 8192},
          CLK_SRC |-> {"rc_pll_16MHz"}]

Pairs == UNION {{a @@ b : a \in Optional(p[1], Words[p[1]]), b \in Optional(p[2], Words[p[2]])} :
                  p \in (DOMAIN Words) \X (DOMAIN Words)}

Units == {a @@ b @@ c @@ d @@ e : a \in Optional("compare", {"object", "nothing"}),
                                  b \in Optional("clk_div", {"value"}),
                                  c \in Optional("pin_txd", {"object", "nothing"}),
                                  d \in Optional("pin_rxd", {"object", "nothing"}),
                                  e \in Optional("starter", {"object"})}

MCBoards == UNION
  {{<<d, s, NoUart>> : d \in Devices, s \in Clocks},
   {b \in {<<d, s, NoUart>> : d \in Devices, s \in Pairs} :
      DOMAIN b[2] \subseteq Settings(b[1])},
   {<<d, None, (n :> u) @@ NoUart>> : d \in Devices, n \in 0..1, u \in Units}}
====
