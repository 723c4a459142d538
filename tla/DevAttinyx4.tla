----------------------------- MODULE DevAttinyx4 ----------------------------
(***************************************************************************)
(* The tables of src/atmel/avr/devices/attinyx4.h (ATtiny24, 44, 84)       *)
(* in the vocabulary of DeviceTable, and the lists of its context.  Of     *)
(* rows under #if the configuration is the one where every pin is          *)
(* available.                                                              *)
(***************************************************************************)
EXTENDS DeviceTable

\* Shared registers
Shared ==
  [shared |-> Object("shared", 0,
      [gimsk |-> R8(\h5B, \h70), gifr |-> R8F(\h5A, \h70, \h70),
       timsk |-> R8(\h59, \h7E), tifr |-> R8F(\h58, \h7E, \h7E),
       gtccr |-> R8(\h43, \h81), prr |-> R8(\h40, \hF), gpior2 |-> R8(\h35, \hFF),
       gpior1 |-> R8(\h34, \hFF), gpior0 |-> R8(\h33, \hFF), did |-> R8(\h21, \hFF)], NoBits)]

\* Ports and pins
Ports ==
  [port0 |-> Object("p8a", \h39, NoRegs, NoBits),
   port1 |-> Object("p8a", \h36, NoRegs, NoBits)]

Pins ==
  [pa0 |-> Pin("port0", 1, 0, X("shared", "did", 1, 0), "pcic0"),
   pa1 |-> Pin("port0", 1, 1, X("shared", "did", 1, 1), "pcic0"),
   pa2 |-> Pin("port0", 1, 2, X("shared", "did", 1, 2), "pcic0"),
   pa3 |-> Pin("port0", 1, 3, X("shared", "did", 1, 3), "pcic0"),
   pa4 |-> Pin("port0", 1, 4, X("shared", "did", 1, 4), "pcic0"),
   pa5 |-> Pin("port0", 1, 5, X("shared", "did", 1, 5), "pcic0"),
   pa6 |-> Pin("port0", 1, 6, X("shared", "did", 1, 6), "pcic0"),
   pa7 |-> Pin("port0", 1, 7, X("shared", "did", 1, 7), "pcic0"),
   porta |-> Pin("port0", 8, 0, NoBits, "none"),
   pb0 |-> Pin("port1", 1, 0, NoBits, "pcic1"),
   pb1 |-> Pin("port1", 1, 1, NoBits, "pcic1"),
   pb2 |-> Pin("port1", 1, 2, NoBits, "pcic1"),
   pb3 |-> Pin("port1", 1, 3, NoBits, "pcic1"),
   portb |-> Pin("port1", 4, 0, NoBits, "none")]

\* Core
Core0 ==
  [core0 |-> Object("corea", 0,
      [sreg |-> R8(\h5F, \hFF), sph |-> R8(\h5E, \h3), spl |-> R8(\h5D, \hFF),
       mcucr |-> R8(\h55, \hFF), mcusr |-> R8(\h54, \hF), osccal |-> R8(\h51, \hFF)],
      [bods |-> F("mcucr", 1, 7), pud |-> F("mcucr", 1, 6), se |-> F("mcucr", 1, 5),
       sm |-> F("mcucr", 2, 3), bodse |-> F("mcucr", 1, 2), wdrf |-> F("mcusr", 1, 3),
       borf |-> F("mcusr", 1, 2), extrf |-> F("mcusr", 1, 1), porf |-> F("mcusr", 1, 0),
       allrf |-> F("mcusr", 4, 0)])]

\* External interrupt controller
Int0 ==
  [int0 |-> Object("inta", 0, NoRegs,
      [sc |-> X("core0", "mcucr", 2, 0), ie |-> X("shared", "gimsk", 1, 6),
       if |-> X("shared", "gifr", 1, 6)])]

\* Pin-change interrupt controllers
Pcics ==
  [pcic0 |-> Object("pcica", 0,
      [msk |-> R8(\h32, \hFF)],
      [ie |-> X("shared", "gimsk", 1, 4), if |-> X("shared", "gifr", 1, 4)]),
   pcic1 |-> Object("pcica", 0,
      [msk |-> R8(\h40, \hF)],
      [ie |-> X("shared", "gimsk", 1, 5), if |-> X("shared", "gifr", 1, 5)])]

\* Watchdog
Watchdog0 ==
  [watchdog0 |-> Object("wdoga", 0,
      [csr |-> R8F(\h41, \hFF, \h80)],
      [if |-> F("csr", 1, 7), ie |-> F("csr", 1, 6),
       wdp |-> F2("csr", 1, 5, 3, "csr", 3, 0, 0), wdce |-> F("csr", 1, 4),
       wde |-> F("csr", 1, 3), eie |-> F2("csr", 1, 3, 1, "csr", 1, 6, 0),
       ifie |-> F("csr", 2, 6), wdrf |-> X("core0", "mcusr", 1, 3)])]

\* Counter 0/1 prescaler
Prescaler0 ==
  [prescaler0 |-> Object("psca", 0, NoRegs,
      [tsm |-> X("shared", "gtccr", 1, 7), psr |-> X("shared", "gtccr", 1, 0),
       tsmpsr |-> X2("shared", "gtccr", 1, 7, 1, "gtccr", 1, 0, 0)])]

\* Counter 0 counting unit
Counter0 ==
  [counter0 |-> Object("c8a", 0,
      [imsk |-> R8(\h59, \h7), ifr |-> R8F(\h58, \h7, \h7), ccrb |-> R8(\h53, \hCF),
       count |-> R8(\h52, \hFF), ccra |-> R8(\h50, \hF3)],
      [wgm |-> F2("ccra", 2, 0, 0, "ccrb", 1, 3, 2), cs |-> F("ccrb", 3, 0),
       ie |-> F("imsk", 1, 0), if |-> F("ifr", 1, 0)])]

\* Counter 0 compare units (OCR0A, OCR0B)
Counter0Compares ==
  [counter0compare0 |-> Object("cmp8a", 0,
      [reg |-> R8(\h56, \hFF)],
      [com |-> X("counter0", "ccra", 2, 6), force |-> X("counter0", "ccrb", 1, 7),
       ie |-> X("counter0", "imsk", 1, 1), if |-> X("counter0", "ifr", 1, 1)]),
   counter0compare1 |-> Object("cmp8a", 0,
      [reg |-> R8(\h5C, \hFF)],
      [com |-> X("counter0", "ccra", 2, 4), force |-> X("counter0", "ccrb", 1, 6),
       ie |-> X("counter0", "imsk", 1, 2), if |-> X("counter0", "ifr", 1, 2)])]

\* Counter 1 counting unit
Counter1 ==
  [counter1 |-> Object("c16a", 0,
      [ccra |-> R8(\h4F, \hF3), ccrb |-> R8(\h4E, \hDF), ccrc |-> R8(\h42, \hC0),
       count |-> R16(\h4C, \hFFFF), imsk |-> R8(\h2C, \h27),
       ifr |-> R8F(\h2B, \h27, \h27)],
      [cs |-> F("ccrb", 3, 0), wgm |-> F2("ccrb", 2, 3, 2, "ccra", 2, 0, 0),
       ie |-> F("imsk", 1, 0), if |-> F("ifr", 1, 0)])]

\* Counter 1 compare units hw_counter1compare0, hw_counter1compare1 (OCR1A, OCR1B)
Counter1Compares ==
  [counter1compare0 |-> Object("cmp16a", 0,
      [reg |-> R16(\h4A, \hFFFF)],
      [com |-> X("counter1", "ccra", 2, 6), force |-> X("counter1", "ccrc", 1, 7),
       ie |-> X("counter1", "imsk", 1, 1), if |-> X("counter1", "ifr", 1, 1)]),
   counter1compare1 |-> Object("cmp16a", 0,
      [reg |-> R16(\h48, \hFFFF)],
      [com |-> X("counter1", "ccra", 2, 4), force |-> X("counter1", "ccrc", 1, 6),
       ie |-> X("counter1", "imsk", 1, 2), if |-> X("counter1", "ifr", 1, 2)])]

\* Counter 1 capture unit
Counter1Capture0 ==
  [counter1capture0 |-> Object("cap16a", 0,
      [reg |-> R16(\h44, \hFFFF)],
      [acic |-> X("acmp0", "csr", 1, 2), icnc |-> X("counter1", "ccrb", 1, 7),
       ices |-> X("counter1", "ccrb", 1, 6), ie |-> X("counter1", "imsk", 1, 5),
       if |-> X("counter1", "ifr", 1, 5)])]

\* Universal Serial Interface
Usi0 ==
  [usi0 |-> Object("usia", 0,
      [cr |-> R8(\h2D, \hFF), sr |-> R8F(\h2E, \hFF, \hE0), dr |-> R8(\h2F, \hFF),
       br |-> R8(\h30, \hFF)],
      [ies |-> F("cr", 1, 7), ieov |-> F("cr", 1, 6), wm |-> F("cr", 2, 4),
       cs |-> F("cr", 2, 2), clk |-> F("cr", 1, 1), tc |-> F("cr", 1, 0),
       ifs |-> F("sr", 1, 7), ifov |-> F("sr", 1, 6), pf |-> F("sr", 1, 5),
       dc |-> F("sr", 1, 4), cnt |-> F("sr", 4, 0)])]

\* Analog Comparator
Acmp0 ==
  [acmp0 |-> Object("acmpa", 0,
      [csr |-> R8F(\h28, \hDF, \h10)],
      [acme |-> X("adc0", "srb", 1, 6), aden |-> X("adc0", "sra", 1, 7),
       admux |-> X("adc0", "admux", 6, 0)])]

\* Analog-to-Digital Converter
Adc0 ==
  [adc0 |-> Object("ad10a", 0,
      [admux |-> R8(\h27, \hFF), sra |-> R8F(\h26, \hFF, \h10), adc |-> R16(\h24, \h0),
       adch |-> R8(\h25, \h0), adcl |-> R8(\h24, \h0), srb |-> R8(\h23, \hD7)],
      [refs |-> F("admux", 2, 6), mux |-> F("admux", 6, 0), en |-> F("sra", 1, 7),
       sc |-> F("sra", 1, 6), ate |-> F("sra", 1, 5), if |-> F("sra", 1, 4),
       ie |-> F("sra", 1, 3), ps |-> F("sra", 3, 0), bin |-> F("srb", 1, 7),
       lar |-> F("srb", 1, 4), ts |-> F("srb", 3, 0)])]

\* EEPROM memory
Eeprom0 ==
  [eeprom0 |-> Object("eeproma", 0,
      [arh |-> R8(\h3F, \h1), arl |-> R8(\h3E, \hFF), ar |-> R16(\h3E, \h1FF),
       dr |-> R8(\h3D, \hFF), cr |-> R8(\h3C, \h3F)],
      [pm |-> F("cr", 2, 4), rie |-> F("cr", 1, 3), mpe |-> F("cr", 1, 2),
       pe |-> F("cr", 1, 1), re |-> F("cr", 1, 0)])]

\* Flash memory
Flash0 ==
  [flash0 |-> Object("flasha", 0,
      [csr |-> R8(\h57, \h3F)],
      [sigrd |-> F("csr", 1, 5), rsig |-> F("csr", 1, 5), rwwsre |-> F("csr", 1, 4),
       ctpb |-> F("csr", 1, 4), blbset |-> F("csr", 1, 3), rflb |-> F("csr", 1, 3),
       pgwrt |-> F("csr", 1, 2), pgers |-> F("csr", 1, 1), spmen |-> F("csr", 1, 0)])]

\* Interrupts
Irqs ==
  {Irq(1, "core0", "ie", "if"), Irq(2, "pcic0", "ie", "if"),
   Irq(3, "pcic1", "ie", "if"), Irq(4, "watchdog0", "ie", "if"),
   Irq(5, "counter1capture0", "ie", "if"), Irq(6, "counter1compare0", "ie", "if"),
   Irq(7, "counter1compare1", "ie", "if"), Irq(8, "counter1", "ie", "if"),
   Irq(9, "counter0compare0", "ie", "if"), Irq(10, "counter0compare1", "ie", "if"),
   Irq(11, "counter0", "ie", "if"), Irq(12, "acmp0", "ie", "if"),
   Irq(13, "adc0", "ie", "if"), Irq(14, "eeprom0", "sie", "none"),
   Irq(15, "usi0", "ies", "ifs"), Irq(16, "usi0", "ieov", "ifov")}

\* Synonyms of the pins
PinNamed ==
  [ain0 |-> "pa1", ain1 |-> "pa2", usck |-> "pa4", do |-> "pa5", di |-> "pa6",
   usi0_ck |-> "pa4", usi0_do |-> "pa5", usi0_di |-> "pa6", counter0compare0 |-> "pb2",
   counter0compare1 |-> "pa7", counter1compare0 |-> "pa6", counter1compare1 |-> "pa5",
   counter1capture0 |-> "pa7", icp |-> "pa7", adc0 |-> "pa0", adc1 |-> "pa1",
   adc2 |-> "pa2", adc3 |-> "pa3", adc4 |-> "pa4", adc5 |-> "pa5", adc6 |-> "pa6",
   adc7 |-> "pa7"]

\* _hwa_setup_context, _hwa_init_context: both lists name the same objects
SharedInContext ==
  {"gimsk", "gifr", "prr", "gtccr", "timsk", "tifr", "did"}
ObjectsInContext ==
  {"core0", "port0", "port1", "pcic0", "pcic1", "watchdog0", "counter0compare0",
   "counter0compare1", "counter0", "counter1compare0", "counter1compare1",
   "counter1capture0", "counter1", "usi0", "adc0", "acmp0"}

\* _hwa_commit_context
CommitOrder ==
  <<Reg("gimsk"), Reg("gifr"), All("core0"), Reg("prr"), All("watchdog0"),
    All("port0"), All("port1"), All("pcic0"), All("pcic1"), Reg("gtccr"),
    All("counter0"), All("counter0compare0"), All("counter0compare1"), All("counter1"),
    All("counter1compare0"), All("counter1compare1"), All("counter1capture0"),
    All("usi0"), All("adc0"), Reg("did"), All("acmp0")>>

Objects ==
  MergeAll(<<Shared, Ports, Core0, Int0, Pcics, Watchdog0, Prescaler0, Counter0,
             Counter0Compares, Counter1, Counter1Compares, Counter1Capture0, Usi0,
             Acmp0, Adc0, Eeprom0, Flash0>>)

Device ==
  [objects |-> Objects, pins |-> Pins, named |-> PinNamed, irqs |-> Irqs,
   shared |-> SharedInContext, inContext |-> ObjectsInContext, commit |-> CommitOrder,
   copies |-> Copies(Objects, SharedInContext, ObjectsInContext)]
=============================================================================
