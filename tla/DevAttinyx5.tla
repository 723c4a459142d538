----------------------------- MODULE DevAttinyx5 ----------------------------
(***************************************************************************)
(* The tables of src/atmel/avr/devices/attinyx5.h (ATtiny25, 45, 85)       *)
(* in the vocabulary of DeviceTable, and the lists of its context.  Of     *)
(* rows under #if the configuration is the one where every pin is          *)
(* available.                                                              *)
(***************************************************************************)
EXTENDS DeviceTable

\* Shared registers
Shared ==
  [shared |-> Object("shared", 0,
      [gimsk |-> R8(\h5B, \h60), gifr |-> R8F(\h5A, \h60, \h60),
       timsk |-> R8(\h59, \h7E), tifr |-> R8F(\h58, \h7E, \h7E),
       gtccr |-> R8(\h4C, \hFF), prr |-> R8(\h40, \hF), gpior2 |-> R8(\h33, \hFF),
       gpior1 |-> R8(\h32, \hFF), gpior0 |-> R8(\h31, \hFF), did |-> R8(\h34, \h3F)], NoBits)]

\* Ports and pins
Ports ==
  [port0 |-> Object("p8a", \h36, NoRegs, NoBits)]

Pins ==
  [pb0 |-> Pin("port0", 1, 0, X("shared", "did", 1, 0), "pcic0"),
   pb1 |-> Pin("port0", 1, 1, X("shared", "did", 1, 1), "pcic0"),
   pb2 |-> Pin("port0", 1, 2, X("shared", "did", 1, 4), "pcic0"),
   pb3 |-> Pin("port0", 1, 3, X("shared", "did", 1, 2), "pcic0"),
   pb4 |-> Pin("port0", 1, 4, X("shared", "did", 1, 3), "pcic0"),
   pb5 |-> Pin("port0", 1, 5, X("shared", "did", 1, 5), "pcic0"),
   portb |-> Pin("port0", 6, 0, NoBits, "none")]

\* Core
Core0 ==
  [core0 |-> Object("corea", 0,
      [sreg |-> R8(\h5F, \hFF), sph |-> R8(\h5E, \h3), spl |-> R8(\h5D, \hFF),
       mcucr |-> R8(\h55, \hFF), mcusr |-> R8(\h54, \hF), osccal |-> R8(\h51, \hFF)],
      [bods |-> F("mcucr", 1, 7), pud |-> F("mcucr", 1, 6), se |-> F("mcucr", 1, 5),
       sm |-> F("mcucr", 2, 3), bodse |-> F("mcucr", 1, 2), isc0 |-> F("mcucr", 2, 0),
       wdrf |-> F("mcusr", 1, 3), borf |-> F("mcusr", 1, 2), extrf |-> F("mcusr", 1, 1),
       porf |-> F("mcusr", 1, 0), allrf |-> F("mcusr", 4, 0)])]

\* External interrupt controller
Int0 ==
  [int0 |-> Object("inta", 0, NoRegs,
      [sc |-> X("core0", "mcucr", 2, 0), ie |-> X("shared", "gimsk", 1, 6),
       if |-> X("shared", "gifr", 1, 6)])]

\* Pin-change interrupt controller
Pcic0 ==
  [pcic0 |-> Object("pcica", 0,
      [msk |-> R8(\h35, \h3F)],
      [ie |-> X("shared", "gimsk", 1, 5), if |-> X("shared", "gifr", 1, 5)])]

\* Watchdog
Watchdog0 ==
  [watchdog0 |-> Object("wdoga", 0,
      [csr |-> R8F(\h41, \hFF, \h80)],
      [if |-> F("csr", 1, 7), ie |-> F("csr", 1, 6),
       wdp |-> F2("csr", 1, 5, 3, "csr", 3, 0, 0), wdce |-> F("csr", 1, 4),
       wde |-> F("csr", 1, 3), eie |-> F2("csr", 1, 3, 1, "csr", 1, 6, 0),
       ifie |-> F("csr", 2, 6), wdrf |-> X("core0", "mcusr", 1, 3)])]

\* Counter 0 counting unit
Counter0 ==
  [counter0 |-> Object("c8a", 0,
      [ccra |-> R8(\h4A, \hF3), ccrb |-> R8(\h53, \hCF), count |-> R8(\h52, \hFF),
       imsk |-> R8(-1, 0), ifr |-> R8(-1, 0)],
      [wgm |-> F2("ccra", 2, 0, 0, "ccrb", 1, 3, 2), cs |-> F("ccrb", 3, 0),
       ie |-> X("shared", "timsk", 1, 1), if |-> X("shared", "tifr", 1, 1)])]

\* Counter 0 prescaler
Prescaler0 ==
  [prescaler0 |-> Object("psca", 0, NoRegs,
      [tsm |-> X("shared", "gtccr", 1, 7), psr |-> X("shared", "gtccr", 1, 0),
       tsmpsr |-> X2("shared", "gtccr", 1, 7, 1, "gtccr", 1, 0, 0)])]

\* Counter 0 compare units OCR0A and OCR0B
Counter0Compares ==
  [counter0compare0 |-> Object("cmp8a", 0,
      [reg |-> R8(\h49, \hFF)],
      [com |-> X("counter0", "ccra", 2, 6), force |-> X("counter0", "ccrb", 1, 7),
       ie |-> X("shared", "timsk", 1, 4), if |-> X("shared", "tifr", 1, 4)]),
   counter0compare1 |-> Object("cmp8a", 0,
      [reg |-> R8(\h48, \hFF)],
      [com |-> X("counter0", "ccra", 2, 4), force |-> X("counter0", "ccrb", 1, 6),
       ie |-> X("shared", "imsk", 1, 3), if |-> X("shared", "ifr", 1, 3)])]

\* Timer/Counter 1 counting unit
Counter1 ==
  [counter1 |-> Object("c8b", 0,
      [ccr |-> R8(\h50, \hFF), count |-> R8(\h4F, \hFF), compare2 |-> R8(\h4D, \hFF)],
      [ctc |-> F("ccr", 1, 7), cs |-> F("ccr", 4, 0), ie |-> X("shared", "timsk", 1, 2),
       if |-> X("shared", "tifr", 1, 2)])]

\* Counter 1 prescaler
Prescaler1 ==
  [prescaler1 |-> Object("pscb", 0,
      [pllcsr |-> R8(\h47, \h86)],
      [psr |-> X("shared", "gtccr", 1, 1), lsm |-> F("pllcsr", 1, 7),
       pcke |-> F("pllcsr", 1, 2), plle |-> F("pllcsr", 1, 1),
       plock |-> F("pllcsr", 1, 0)])]

\* Counter 1 compare units OCR1A OCR1B
Counter1Compares ==
  [counter1compare0 |-> Object("cmp8b", 0,
      [reg |-> R8(\h4E, \hFF)],
      [pwm |-> X("counter1", "ccr", 1, 6), mode |-> X("counter1", "ccr", 2, 4),
       force |-> X("counter1", "ccr", 1, 2), ie |-> X("shared", "timsk", 1, 6),
       if |-> X("shared", "tifr", 1, 6)]),
   counter1compare1 |-> Object("cmp8b", 0,
      [reg |-> R8(\h4B, \hFF)],
      [pwm |-> X("shared", "gtccr", 1, 6), mode |-> X("shared", "gtccr", 2, 4),
       force |-> X("shared", "gtccr", 1, 3), ie |-> X("shared", "timsk", 1, 5),
       if |-> X("shared", "tifr", 1, 5)])]

\* Counter 1 dead time generator
Dtg1 ==
  [dtg1 |-> Object("dtga", 0,
      [dtps |-> R8(\h43, \h3), dta |-> R8(\h45, \hFF), dtb |-> R8(\h44, \hFF)],
      [psc |-> F("dtps", 2, 0), compare0_h |-> F("dta", 4, 4),
       compare0_l |-> F("dta", 4, 0), compare1_h |-> F("dtb", 4, 4),
       compare1_l |-> F("dtb", 4, 0)])]

\* Universal Serial Interface
Usi0 ==
  [usi0 |-> Object("usia", 0,
      [dr |-> R8(\h2F, \hFF), br |-> R8(\h30, \hFF), sr |-> R8F(\h2E, \hFF, \hE0),
       cr |-> R8(\h2D, \hFF)],
      [ies |-> F("cr", 1, 7), ieov |-> F("cr", 1, 6), iep |-> F("cr", 1, 5),
       wm |-> F("cr", 2, 4), cs |-> F("cr", 2, 2), clk |-> F("cr", 1, 1),
       tc |-> F("cr", 1, 0), ifs |-> F("sr", 1, 7), ifov |-> F("sr", 1, 6),
       ifp |-> F("sr", 1, 5), dc |-> F("sr", 1, 4), cnt |-> F("sr", 4, 0)])]

\* Analog Comparator
Acmp0 ==
  [acmp0 |-> Object("acmpb", 0,
      [csr |-> R8F(\h28, \hDF, \h10)],
      [acd |-> F("csr", 1, 7), acbg |-> F("csr", 1, 6), aco |-> F("csr", 1, 5),
       if |-> F("csr", 1, 4), ie |-> F("csr", 1, 3), acis |-> F("csr", 2, 0),
       acme |-> X("adc0", "srb", 1, 6), aden |-> X("adc0", "sra", 1, 7),
       admux |-> X("adc0", "admux", 4, 0)])]

\* Analog-to-Digital Converter
Adc0 ==
  [adc0 |-> Object("ad10c", 0,
      [admux |-> R8(\h27, \hFF), sra |-> R8F(\h26, \hFF, \h10), adc |-> R16(\h24, \h0),
       adch |-> R8(\h25, \h0), srb |-> R8(\h23, \hE7)],
      [refs |-> F2("admux", 2, 6, 0, "admux", 1, 4, 2), lar |-> F("admux", 1, 5),
       mux |-> F("admux", 4, 0), en |-> F("sra", 1, 7), sc |-> F("sra", 1, 6),
       ate |-> F("sra", 1, 5), if |-> F("sra", 1, 4), ie |-> F("sra", 1, 3),
       ps |-> F("sra", 3, 0), bin |-> F("srb", 1, 7), ipr |-> F("srb", 1, 5),
       ts |-> F("srb", 3, 0)])]

\* EEPROM
Eeprom0 ==
  [eeprom0 |-> Object("eeproma", 0,
      [ar |-> R16(\h3E, \h1FF), dr |-> R8(\h3D, \hFF), cr |-> R8(\h3C, \h3F)],
      [pm |-> F("cr", 2, 4), rie |-> F("cr", 1, 3), mpe |-> F("cr", 1, 2),
       pe |-> F("cr", 1, 1), re |-> F("cr", 1, 0)])]

\* Flash memory
Flash0 ==
  [flash0 |-> Object("flasha", 0,
      [csr |-> R8(\h57, \h3F)],
      [sigrd |-> F("csr", 1, 5), rsig |-> F("csr", 1, 5), rwwsre |-> F("csr", 1, 4),
       ctpb |-> F("csr", 1, 4), blbset |-> F("csr", 1, 3), rflb |-> F("csr", 1, 3),
       pgwrt |-> F("csr", 1, 2), pgers |-> F("csr", 1, 1), spmen |-> F("csr", 1, 0)])]

\* Interrupts
Irqs ==
  {Irq(1, "core0", "ie", "if"), Irq(2, "pcic0", "ie", "if"),
   Irq(3, "counter1compare0", "ie", "if"), Irq(4, "counter1", "ie", "if"),
   Irq(5, "counter0", "ie", "if"), Irq(6, "eeprom0", "ie", "none"),
   Irq(7, "acmp0", "ie", "if"), Irq(8, "adc0", "ie", "if"),
   Irq(9, "counter1compare1", "ie", "if"), Irq(10, "counter0compare0", "ie", "if"),
   Irq(11, "counter0compare1", "ie", "if"), Irq(12, "watchdog0", "ie", "if"),
   Irq(13, "usi0", "ies", "ifs"), Irq(14, "usi0", "ieov", "ifov")}

\* Synonyms of the pins
PinNamed ==
  [compare0a |-> "pb0", compare0b |-> "pb1", compare1a |-> "pb1", compare1an |-> "pb0",
   compare1b |-> "pb4", compare1bn |-> "pb3", usck |-> "pb2", do |-> "pb1",
   di |-> "pb0", usi0_ck |-> "pb2", usi0_do |-> "pb1", usi0_di |-> "pb0",
   adc0 |-> "pb5", adc1 |-> "pb2", adc2 |-> "pb4", adc3 |-> "pb3", ain1 |-> "pb1",
   ain0 |-> "pb0"]

\* _hwa_setup_context, _hwa_init_context: both lists name the same objects
SharedInContext ==
  {"gimsk", "gifr", "prr", "gtccr", "timsk", "tifr", "did"}
ObjectsInContext ==
  {"core0", "port0", "pcic0", "watchdog0", "counter0compare0", "counter0compare1",
   "counter0", "prescaler1", "dtg1", "counter1compare0", "counter1compare1", "counter1",
   "usi0", "acmp0", "adc0"}

\* _hwa_commit_context
CommitOrder ==
  <<Reg("gimsk"), Reg("gifr"), All("core0"), Reg("prr"), All("watchdog0"),
    All("pcic0"), All("port0"), All("counter0compare0"), All("counter0compare1"),
    Reg("gtccr"), All("counter0"), Reg("timsk"), Reg("tifr"),
    All("prescaler1"), All("dtg1"), All("counter1compare0"), All("counter1compare1"),
    All("counter1"), All("usi0"), All("acmp0"), All("adc0"), Reg("did")>>

Objects ==
  MergeAll(<<Shared, Ports, Core0, Int0, Pcic0, Watchdog0, Counter0, Prescaler0,
             Counter0Compares, Counter1, Prescaler1, Counter1Compares, Dtg1, Usi0,
             Acmp0, Adc0, Eeprom0, Flash0>>)

Device ==
  [objects |-> Objects, pins |-> Pins, named |-> PinNamed, irqs |-> Irqs,
   shared |-> SharedInContext, inContext |-> ObjectsInContext, commit |-> CommitOrder,
   copies |-> Copies(Objects, SharedInContext, ObjectsInContext)]
=============================================================================
