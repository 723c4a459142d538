----------------------------- MODULE DevEsp8266 -----------------------------
(***************************************************************************)
(* The tables of src/espressif/devices/esp8266.h and of its classes in the *)
(* vocabulary of DeviceTable, and the lists of its context.  gpio16 is of  *)
(* a class that is not defined, and is left out.  The object os stands for *)
(* the mask of ets_isr_mask() and ets_isr_unmask().                        *)
(***************************************************************************)
EXTENDS DeviceTable

All32 == 0 .. 31
Low(n) == 0 .. n - 1

\* The bits names[1], names[2]... of register reg, from bit 0 up
Flags(reg, names) ==
  [f \in ToSet(names) |-> F(reg, 1, (CHOOSE i \in DOMAIN names : names[i] = f) - 1)]

\* Shared registers
Shared ==
  [shared |-> Object("esp_shared", \h3FF00000,
                     [_edgeie |-> R32(4, All32), _swap |-> R32(\h28, All32)], NoBits)]

\* Port
Port0 ==
  [port0 |-> Object("esp_p16a", \h60000300,
      [_out |-> R32(0, All32), _outw1ts |-> R32(4, Low(16)), _outw1tc |-> R32(8, Low(16)),
       _enb |-> R32(12, Low(22)), _enbw1ts |-> R32(16, Low(16)), _enbw1tc |-> R32(20, Low(16)),
       _in |-> R32(24, {}), _ie |-> R32(28, Low(16)), _iew1ts |-> R32(32, Low(16)),
       _iew1tc |-> R32(36, Low(16))],
      [btsel |-> F("_out", 16, 16), out |-> F("_out", 16, 0), outw1ts |-> F("_outw1ts", 16, 0),
       outw1tc |-> F("_outw1tc", 16, 0), sdiosel |-> F("_enb", 6, 16), enb |-> F("_enb", 16, 0),
       enbw1ts |-> F("_enbw1ts", 16, 0), enbw1tc |-> F("_enbw1tc", 16, 0),
       strapping |-> F("_in", 16, 16), in |-> F("_in", 16, 0), ie |-> F("_ie", 16, 16),
       iew1ts |-> F("_iew1ts", 16, 16), iew1tc |-> F("_iew1tc", 16, 16)])]

\* Pins
PinNames ==
  <<"gpio0", "gpio1", "gpio2", "gpio3", "gpio4", "gpio5", "gpio6", "gpio7", "gpio8", "gpio9",
    "gpio10", "gpio11", "gpio12", "gpio13", "gpio14", "gpio15">>

Pins ==
  [p \in ToSet(PinNames) |->
     Pin("port0", 1, (CHOOSE i \in DOMAIN PinNames : PinNames[i] = p) - 1, NoBits, "none")]

\* Class _pcfa: configuration of a pin
Pcfa(address) ==
  Object("esp_pcfa", address, [_reg |-> R32(0, BitsOf(\h1BB))],
         [fn |-> F2("_reg", 1, 8, 2, "_reg", 2, 4, 0), pu |-> F("_reg", 1, 7),
          spu |-> F("_reg", 1, 3), pux |-> F2("_reg", 1, 7, 1, "_reg", 1, 3, 0),
          soe |-> F("_reg", 1, 1), oe |-> F("_reg", 1, 0), oex |-> F("_reg", 2, 0)])

PinConfigurations ==
  [gpio12_cf |-> Pcfa(\h60000804), gpio13_cf |-> Pcfa(\h60000808),
   gpio14_cf |-> Pcfa(\h6000080C), gpio15_cf |-> Pcfa(\h60000810),
   gpio3_cf |-> Pcfa(\h60000814), gpio1_cf |-> Pcfa(\h60000818),
   gpio6_cf |-> Pcfa(\h6000081C), gpio7_cf |-> Pcfa(\h60000820),
   gpio8_cf |-> Pcfa(\h60000824), gpio9_cf |-> Pcfa(\h60000828),
   gpio10_cf |-> Pcfa(\h6000082C), gpio11_cf |-> Pcfa(\h60000830),
   gpio0_cf |-> Pcfa(\h60000834), gpio2_cf |-> Pcfa(\h60000838),
   gpio4_cf |-> Pcfa(\h6000083C), gpio5_cf |-> Pcfa(\h60000840)]

\* Hardware timers: timer2 is in no context
TimerBits ==
  [int |-> F("_ctrl", 1, 8), en |-> F("_ctrl", 1, 7), arl |-> F("_ctrl", 1, 6),
   psc |-> F("_ctrl", 2, 2), irqtype |-> F("_ctrl", 1, 0), ifclr |-> F("_flags", 1, 0)]

Timer1 ==
  [timer1 |-> Object("esp_tm23a", \h60000600,
      [_load |-> R32(0, Low(23)), _count |-> R32(4, {}), _ctrl |-> R32(8, BitsOf(\hCD)),
       _flags |-> R32F(12, {0}, {0})],
      Merge([load |-> F("_load", 23, 0), count |-> F("_count", 23, 0),
             ie |-> X("shared", "_edgeie", 1, 1)], TimerBits))]

Timer2 ==
  [timer2 |-> Object("tm32a", \h60000620,
      [_load |-> R32(0, All32), _count |-> R32(4, {}), _ctrl |-> R32(8, BitsOf(\hCD)),
       _flags |-> R32F(12, {0}, {0}), _alarm |-> R32(16, All32)],
      Merge([load |-> F("_load", 32, 0), count |-> F("_count", 32, 0)], TimerBits))]

\* Class _uarta: interrupts, in the order of their bits
UartRegs ==
  [_fifo |-> R32(0, {}), _ir |-> R32(4, {}), _if |-> R32(8, {}), _ie |-> R32(12, Low(9)),
   _ic |-> R32F(16, Low(9), Low(9)), _clkdiv |-> R32(20, Low(20)),
   _autobaud |-> R32(24, BitsOf(\hFF01)), _stat |-> R32(28, {}),
   _conf0 |-> R32(32, BitsOf(\h01FE61FF)), _conf1 |-> R32(36, All32 \ {7, 15}),
   _lopulse |-> R32(40, {}), _hipulse |-> R32(44, {}), _pulsnum |-> R32(48, {}),
   _date |-> R32(\h78, All32), _id |-> R32(\h7C, All32)]

UartIrqBits ==
  MergeAll(<<Flags("_ir", <<"irrxqf", "irtxqe", "irrxpe", "irrxfe", "irrxof", "irdsr", "ircts",
                            "irrxbrk", "irrxto">>),
             Flags("_if", <<"ifrxqf", "iftxqe", "ifrxpe", "ifrxfe", "ifrxof", "ifdsr", "ifcts",
                            "ifrxbrk", "ifrxto">>),
             Flags("_ie", <<"ierxqf", "ietxqe", "ierxpe", "ierxfe", "ierxof", "iedsr", "iects",
                            "ierxbrk", "ierxto">>),
             Flags("_ic", <<"icrxqf", "ictxqe", "icrxpe", "icrxfe", "icrxof", "icdsr", "iccts",
                            "icrxbrk", "icrxto">>)>>)

UartBits ==
  [rxqcnt |-> F("_fifo", 8, 0), clkdiv |-> F("_clkdiv", 20, 0), stxd |-> F("_stat", 1, 31),
   srtsn |-> F("_stat", 1, 30), sdtrn |-> F("_stat", 1, 29), stxcnt |-> F("_stat", 8, 16),
   srxd |-> F("_stat", 1, 15), sctsn |-> F("_stat", 1, 14), sdsrn |-> F("_stat", 1, 13),
   srxcnt |-> F("_stat", 8, 0), cdtri |-> F("_conf0", 1, 24), crtsi |-> F("_conf0", 1, 23),
   ctxi |-> F("_conf0", 1, 22), cdsri |-> F("_conf0", 1, 21), cctsi |-> F("_conf0", 1, 20),
   crxi |-> F("_conf0", 1, 19), ctxrst |-> F("_conf0", 1, 18), crxrst |-> F("_conf0", 1, 17),
   ctxhfe |-> F("_conf0", 1, 15), clbe |-> F("_conf0", 1, 14), cbrk |-> F("_conf0", 1, 8),
   cswdtr |-> F("_conf0", 1, 7), cswrts |-> F("_conf0", 1, 6), csbn |-> F("_conf0", 2, 4),
   cbn |-> F("_conf0", 2, 2), cpae |-> F("_conf0", 1, 1), cpa |-> F("_conf0", 1, 0),
   cpx |-> F("_conf0", 2, 0), ctoe |-> F("_conf1", 1, 31), ctot |-> F("_conf1", 7, 24),
   crxhfe |-> F("_conf1", 1, 23), crxhft |-> F("_conf1", 7, 16), cfet |-> F("_conf1", 7, 8),
   cfft |-> F("_conf1", 7, 0), swap |-> X("shared", "_swap", 1, 2)]

Uart(address) == Object("esp_uarta", address, UartRegs, Merge(UartBits, UartIrqBits))

Uarts == [uart0 |-> Uart(\h60000000), uart1 |-> Uart(\h60000F00)]

\* Interrupts of the system: the bit 9 of its mask is that of timer1
Os == [os |-> Object("os", -1, [isr |-> R32(0, All32)], [timer1 |-> F("isr", 1, 9)])]

\* Interrupts: the vector of the first is nmi, here 0
Irqs == {Irq(0, "timer1", "ie", "none"), Irq(9, "timer1", "ie", "none")}

\* _hwa_setup_context
ObjectsInContext ==
  {"shared", "port0", "gpio0_cf", "gpio1_cf", "gpio2_cf", "gpio3_cf", "gpio4_cf", "gpio5_cf",
   "gpio6_cf", "gpio7_cf", "gpio8_cf", "gpio9_cf", "gpio10_cf", "gpio11_cf", "gpio12_cf",
   "gpio13_cf", "gpio14_cf", "gpio15_cf", "timer1", "uart0"}

\* _hwa_commit_context
CommitOrder ==
  <<All("gpio0_cf"), All("gpio1_cf"), All("gpio2_cf"), All("gpio3_cf"), All("gpio4_cf"),
    All("gpio5_cf"), All("gpio6_cf"), All("gpio7_cf"), All("gpio8_cf"), All("gpio9_cf"),
    All("gpio10_cf"), All("gpio11_cf"), All("gpio12_cf"), All("gpio13_cf"), All("gpio14_cf"),
    All("gpio15_cf"), All("port0"), All("timer1"), All("uart0"), All("shared")>>

Objects ==
  MergeAll(<<Shared, Port0, PinConfigurations, Timer1, Timer2, Uarts, Os>>)

Device ==
  [objects |-> Objects, pins |-> Pins, named |-> NoBits, irqs |-> Irqs, shared |-> {},
   inContext |-> ObjectsInContext, commit |-> CommitOrder,
   copies |-> Copies(Objects, {}, ObjectsInContext)]
=============================================================================
