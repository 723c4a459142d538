---------------------------- MODULE DevStm32f103 ----------------------------
(***************************************************************************)
(* The tables of src/st/stm32/devices/stm32f103.h and of its classes in    *)
(* the vocabulary of DeviceTable, and the lists of its context.  A         *)
(* register is 32 bits.  TLC's integers are signed: the address of the     *)
(* SysTick timer is the one of the header minus 2^32.                      *)
(***************************************************************************)
EXTENDS DeviceTable

All32 == 0 .. 31

\* Class _rcca: reset and clock control
RccaRegs ==
  [cr |-> R32(0, BitsOf(\h010D00F9)), cfgr |-> R32(4, BitsOf(\h077FFFF3)),
   apb2enr |-> R32(\h18, BitsOf(\h0038FFFD))]

RccaBits ==
  [pllrdy |-> F("cr", 1, 25), pllon |-> F("cr", 1, 24), csson |-> F("cr", 1, 19),
   hsebyp |-> F("cr", 1, 18), hserdy |-> F("cr", 1, 17), hseon |-> F("cr", 1, 16),
   hsical |-> F("cr", 8, 8), hsitrim |-> F("cr", 5, 3), hsirdy |-> F("cr", 1, 1),
   hsion |-> F("cr", 1, 0), mco |-> F("cfgr", 3, 24), usbpre |-> F("cfgr", 1, 22),
   pllmul |-> F("cfgr", 4, 18), pllxtpre |-> F("cfgr", 1, 17), pllsrc |-> F("cfgr", 1, 16),
   pllxtpresrc |-> F("cfgr", 2, 16), adcpre |-> F("cfgr", 2, 14), ppre2 |-> F("cfgr", 3, 11),
   apb2 |-> F("cfgr", 3, 11), apb2prescaler |-> F("cfgr", 3, 11), ppre1 |-> F("cfgr", 3, 8),
   apb1 |-> F("cfgr", 3, 8), apb1prescaler |-> F("cfgr", 3, 8), hpre |-> F("cfgr", 4, 4),
   sws |-> F("cfgr", 2, 2), sw |-> F("cfgr", 2, 0)]

Clocks ==
  [rcc |-> Object("stm_rcca", \h40021000, RccaRegs, RccaBits),
   hse |-> Object("obj", 0, NoRegs, [cken |-> X("rcc", "cr", 1, 16)]),
   hsi |-> Object("obj", 0, NoRegs, [cken |-> X("rcc", "cr", 1, 0)])]

\* Class _p16a: ports
P16aRegs ==
  [crl |-> R32(0, All32), crh |-> R32(4, All32), idr |-> R32(8, {}),
   odr |-> R32(12, 0 .. 15), bsrr |-> R32(16, All32), brr |-> R32(20, All32),
   lckr |-> R32(24, 0 .. 16)]

Port(base, bp) ==
  Object("stm_p16a", base, P16aRegs, [cken |-> X("rcc", "apb2enr", 1, bp)])

Ports ==
  [port0 |-> Port(\h40010800, 2), port1 |-> Port(\h40010C00, 3), port2 |-> Port(\h40011000, 4),
   port3 |-> Port(\h40011400, 5), port4 |-> Port(\h40011800, 6)]

\* Pins of a port: 16 of one bit, and the whole port
PortPins(port, names, whole) ==
  [p \in ToSet(names) \cup {whole} |->
     IF p = whole THEN Pin(port, 16, 0, NoBits, "none")
     ELSE Pin(port, 1, (CHOOSE i \in DOMAIN names : names[i] = p) - 1, NoBits, "none")]

PinsA == PortPins("port0", <<"pa0", "pa1", "pa2", "pa3", "pa4", "pa5", "pa6", "pa7", "pa8",
           "pa9", "pa10", "pa11", "pa12", "pa13", "pa14", "pa15">>, "porta")
PinsB == PortPins("port1", <<"pb0", "pb1", "pb2", "pb3", "pb4", "pb5", "pb6", "pb7", "pb8",
           "pb9", "pb10", "pb11", "pb12", "pb13", "pb14", "pb15">>, "portb")
PinsC == PortPins("port2", <<"pc0", "pc1", "pc2", "pc3", "pc4", "pc5", "pc6", "pc7", "pc8",
           "pc9", "pc10", "pc11", "pc12", "pc13", "pc14", "pc15">>, "portc")
PinsD == PortPins("port3", <<"pd0", "pd1", "pd2", "pd3", "pd4", "pd5", "pd6", "pd7", "pd8",
           "pd9", "pd10", "pd11", "pd12", "pd13", "pd14", "pd15">>, "portd")
PinsE == PortPins("port4", <<"pe0", "pe1", "pe2", "pe3", "pe4", "pe5", "pe6", "pe7", "pe8",
           "pe9", "pe10", "pe11", "pe12", "pe13", "pe14", "pe15">>, "porte")

\* Class _stka: SysTick timer
Systick ==
  [systick |-> Object("stm_stka", -536813552,
      [ctrl |-> R32(0, BitsOf(\h00010007)), load |-> R32(4, BitsOf(\h00FFFFFF)),
       val |-> R32(8, BitsOf(\h00FFFFFF)), calib |-> R32(12, {})],
      [countflag |-> F("ctrl", 1, 16), if |-> F("ctrl", 1, 16), clksource |-> F("ctrl", 1, 2),
       tickint |-> F("ctrl", 1, 1), ie |-> F("ctrl", 1, 1), enable |-> F("ctrl", 1, 0),
       reload |-> F("load", 24, 0), current |-> F("val", 24, 0), noref |-> F("calib", 1, 31),
       skew |-> F("calib", 1, 30), tenms |-> F("calib", 24, 0), onems |-> F("calib", 24, 0)])]

\* Interrupts: esr_systick is the exception 15 of the core
Irqs == {Irq(15, "systick", "ie", "if")}

\* _hwa_setup_context, _hwa_init_context and _hwa_commit_context: all three
\* name the same objects
ObjectsInContext == {"rcc", "port0", "port1", "port2", "port3", "port4", "systick"}

CommitOrder ==
  <<All("rcc"), All("port0"), All("port1"), All("port2"), All("port3"), All("port4"),
    All("systick")>>

Objects == MergeAll(<<Clocks, Ports, Systick>>)

Device ==
  [objects |-> Objects, pins |-> MergeAll(<<PinsA, PinsB, PinsC, PinsD, PinsE>>),
   named |-> NoBits, irqs |-> Irqs, shared |-> {}, inContext |-> ObjectsInContext,
   commit |-> CommitOrder, copies |-> Copies(Objects, {}, ObjectsInContext)]
=============================================================================
