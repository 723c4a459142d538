----------------------------- MODULE DevAtmegax8 ----------------------------
(***************************************************************************)
(* The tables of src/atmel/avr/devices/atmegax8.h (ATmega48 to 328)        *)
(* in the vocabulary of DeviceTable, and the lists of its context.  Of     *)
(* rows under #if the configuration is the one where every pin is          *)
(* available.                                                              *)
(***************************************************************************)
EXTENDS DeviceTable

\* Shared registers
Shared ==
  [shared |-> Object("shared", 0,
      [did1 |-> R8(\h7F, \h3), did0 |-> R8(\h7E, \h3F), eicr |-> R8(\h69, \hF),
       pcicr |-> R8(\h68, \h7), prr |-> R8(\h64, \hEF), gpior2 |-> R8(\h4B, \hFF),
       gpior1 |-> R8(\h4A, \hFF), gtccr |-> R8(\h43, \h83), gpior0 |-> R8(\h3E, \hFF),
       eimsk |-> R8(\h3D, \h3), eifr |-> R8F(\h3C, \h3, \h3),
       pcifr |-> R8F(\h3B, \h7, \h7)], NoBits)]

\* Ports and pins
Ports ==
  [port0 |-> Object("p8a", \h23, NoRegs, NoBits),
   port1 |-> Object("p8a", \h26, NoRegs, NoBits),
   port2 |-> Object("p8a", \h29, NoRegs, NoBits)]

Pins ==
  [pb0 |-> Pin("port0", 1, 0, NoBits, "pcic0"),
   pb1 |-> Pin("port0", 1, 1, NoBits, "pcic0"),
   pb2 |-> Pin("port0", 1, 2, NoBits, "pcic0"),
   pb3 |-> Pin("port0", 1, 3, NoBits, "pcic0"),
   pb4 |-> Pin("port0", 1, 4, NoBits, "pcic0"),
   pb5 |-> Pin("port0", 1, 5, NoBits, "pcic0"),
   pb6 |-> Pin("port0", 1, 6, NoBits, "pcic0"),
   pb7 |-> Pin("port0", 1, 7, NoBits, "pcic0"),
   portb |-> Pin("port0", 8, 0, NoBits, "none"),
   pc0 |-> Pin("port1", 1, 0, X("shared", "did0", 1, 0), "pcic1"),
   pc1 |-> Pin("port1", 1, 1, X("shared", "did0", 1, 1), "pcic1"),
   pc2 |-> Pin("port1", 1, 2, X("shared", "did0", 1, 2), "pcic1"),
   pc3 |-> Pin("port1", 1, 3, X("shared", "did0", 1, 3), "pcic1"),
   pc4 |-> Pin("port1", 1, 4, X("shared", "did0", 1, 4), "pcic1"),
   pc5 |-> Pin("port1", 1, 5, X("shared", "did0", 1, 5), "pcic1"),
   pc6 |-> Pin("port1", 1, 6, NoBits, "pcic1"),
   portc |-> Pin("port1", 7, 0, NoBits, "none"),
   pd0 |-> Pin("port2", 1, 0, NoBits, "pcic2"),
   pd1 |-> Pin("port2", 1, 1, NoBits, "pcic2"),
   pd2 |-> Pin("port2", 1, 2, NoBits, "pcic2"),
   pd3 |-> Pin("port2", 1, 3, NoBits, "pcic2"),
   pd4 |-> Pin("port2", 1, 4, NoBits, "pcic2"),
   pd5 |-> Pin("port2", 1, 5, NoBits, "pcic2"),
   pd6 |-> Pin("port2", 1, 6, X("shared", "did1", 1, 0), "pcic2"),
   pd7 |-> Pin("port2", 1, 7, X("shared", "did1", 1, 1), "pcic2"),
   portd |-> Pin("port2", 8, 0, NoBits, "none")]

\* Core
Core0 ==
  [core0 |-> Object("coreb", 0,
      [osccal |-> R8(\h66, \hFF), sreg |-> R8(\h5F, \hFF), sph |-> R8(\h5E, \h3),
       spl |-> R8(\h5D, \hFF), mcucr |-> R8(\h55, \h73), mcusr |-> R8(\h54, \hF),
       smcr |-> R8(\h53, \hF)],
      [bods |-> F("mcucr", 1, 6), bodse |-> F("mcucr", 1, 5), pud |-> F("mcucr", 1, 4),
       ivsel |-> F("mcucr", 1, 1), ivce |-> F("mcucr", 1, 0), wdrf |-> F("mcusr", 1, 3),
       borf |-> F("mcusr", 1, 2), extrf |-> F("mcusr", 1, 1), porf |-> F("mcusr", 1, 0),
       allrf |-> F("mcusr", 4, 0), sm |-> F("smcr", 3, 1), se |-> F("smcr", 1, 0)])]

\* External interrupt controllers
Ints ==
  [int0 |-> Object("inta", 0, NoRegs,
      [sc |-> X("shared", "eicr", 2, 0), ie |-> X("shared", "eimsk", 1, 0),
       if |-> X("shared", "eifr", 1, 0)]),
   int1 |-> Object("inta", 0, NoRegs,
      [sc |-> X("shared", "eicr", 2, 2), ie |-> X("shared", "eimsk", 1, 1),
       if |-> X("shared", "eifr", 1, 1)])]

\* Pin-change interrupt controller
Pcics ==
  [pcic0 |-> Object("pcica", 0,
      [msk |-> R8(\h6B, \hFF)],
      [ie |-> X("shared", "pcicr", 1, 0), if |-> X("shared", "pcifr", 1, 0)]),
   pcic1 |-> Object("pcica", 0,
      [msk |-> R8(\h6C, \h7F)],
      [ie |-> X("shared", "pcicr", 1, 1), if |-> X("shared", "pcifr", 1, 1)]),
   pcic2 |-> Object("pcica", 0,
      [msk |-> R8(\h6D, \hFF)],
      [ie |-> X("shared", "pcicr", 1, 2), if |-> X("shared", "pcifr", 1, 2)])]

\* hw_watchdog0: watchdog
Watchdog0 ==
  [watchdog0 |-> Object("wdogb", 0,
      [csr |-> R8F(\h60, \hFF, \h80)],
      [wdrf |-> X("core0", "mcusr", 1, 3)])]

\* Counter 0/1 prescaler
Prescaler0 ==
  [prescaler0 |-> Object("psca", 0, NoRegs,
      [tsm |-> X("shared", "gtccr", 1, 7), psr |-> X("shared", "gtccr", 1, 0),
       tsmpsr |-> X2("shared", "gtccr", 1, 7, 1, "gtccr", 1, 0, 0)])]

\* Counter 0 counting unit
Counter0 ==
  [counter0 |-> Object("c8a", 0,
      [ccra |-> R8(\h44, \hF3), ccrb |-> R8(\h45, \hCF), count |-> R8(\h46, \hFF),
       imsk |-> R8(\h6E, \h7), ifr |-> R8F(\h35, \h7, \h7)],
      [wgm |-> F2("ccra", 2, 0, 0, "ccrb", 1, 3, 2), cs |-> F("ccrb", 3, 0),
       ie |-> F("imsk", 1, 0), if |-> F("ifr", 1, 0), prr |-> X("shared", "prr", 1, 5)])]

\* Counter 0 compare units hw_counter0compare0, hw_counter0compare1 (OCR0A, OCR0B)
Counter0Compares ==
  [counter0compare0 |-> Object("cmp8a", 0,
      [reg |-> R8(\h47, \hFF)],
      [com |-> X("counter0", "ccra", 2, 6), force |-> X("counter0", "ccrb", 1, 7),
       ie |-> X("counter0", "imsk", 1, 1), if |-> X("counter0", "ifr", 1, 1)]),
   counter0compare1 |-> Object("cmp8a", 0,
      [reg |-> R8(\h48, \hFF)],
      [com |-> X("counter0", "ccra", 2, 4), force |-> X("counter0", "ccrb", 1, 6),
       ie |-> X("counter0", "imsk", 1, 2), if |-> X("counter0", "ifr", 1, 2)])]

\* hw_counter1: counter 1 counting unit
Counter1 ==
  [counter1 |-> Object("c16a", 0,
      [ccra |-> R8(\h80, \hF3), ccrb |-> R8(\h81, \hDF), ccrc |-> R8(\h82, \hC0),
       count |-> R16(\h84, \hFFFF), imsk |-> R8(\h6F, \h27),
       ifr |-> R8F(\h36, \h27, \h27)],
      [cs |-> F("ccrb", 3, 0), wgm |-> F2("ccrb", 2, 3, 2, "ccra", 2, 0, 0),
       ie |-> F("imsk", 1, 0), if |-> F("ifr", 1, 0), prr |-> X("shared", "prr", 1, 3)])]

\* Counter 1 compare units hw_counter1compare0, hw_counter1compare1 (OCR1A, OCR1B)
Counter1Compares ==
  [counter1compare0 |-> Object("cmp16a", 0,
      [reg |-> R16(\h88, \hFFFF)],
      [com |-> X("counter1", "ccra", 2, 6), force |-> X("counter1", "ccrc", 1, 7),
       ie |-> X("counter1", "imsk", 1, 1), if |-> X("counter1", "ifr", 1, 1)]),
   counter1compare1 |-> Object("cmp16a", 0,
      [reg |-> R16(\h8A, \hFFFF)],
      [com |-> X("counter1", "ccra", 2, 4), force |-> X("counter1", "ccrc", 1, 6),
       ie |-> X("counter1", "imsk", 1, 2), if |-> X("counter1", "ifr", 1, 2)])]

\* Counter 1 capture unit counter1capture0
Counter1Capture0 ==
  [counter1capture0 |-> Object("cap16a", 0,
      [reg |-> R16(\h86, \hFFFF)],
      [acic |-> X("acmp0", "csr", 1, 2), icnc |-> X("counter1", "ccrb", 1, 7),
       ices |-> X("counter1", "ccrb", 1, 6), ie |-> X("counter1", "imsk", 1, 5),
       if |-> X("counter1", "ifr", 1, 5)])]

\* hw_prescaler2: hw_counter2 prescaler
Prescaler2 ==
  [prescaler2 |-> Object("psca", 0, NoRegs,
      [tsm |-> X("shared", "gtccr", 1, 7), psr |-> X("shared", "gtccr", 1, 1),
       tsmpsr |-> X2("shared", "gtccr", 1, 7, 1, "gtccr", 1, 1, 0)])]

\* Counter 2 counting unit
Counter2 ==
  [counter2 |-> Object("c8c", 0,
      [ccra |-> R8(\hB0, \hF3), ccrb |-> R8(\hB1, \hCF), count |-> R8(\hB2, \hFF),
       imsk |-> R8(\h70, \h7), ifr |-> R8F(\h37, \h7, \h7), assr |-> R8(\hB6, \h60)],
      [wgm |-> F2("ccra", 2, 0, 0, "ccrb", 1, 3, 2), cs |-> F("ccrb", 3, 0),
       ie |-> F("imsk", 1, 0), if |-> F("ifr", 1, 0), prr |-> X("shared", "prr", 1, 6)])]

\* Counter 2 compare units hw_counter2compare0, hw_counter2compare1 (OCR2A, OCR2B)
Counter2Compares ==
  [counter2compare0 |-> Object("cmp8a", 0,
      [reg |-> R8(\hB3, \hFF)],
      [com |-> X("counter2", "ccra", 2, 6), force |-> X("counter2", "ccrb", 1, 7),
       ie |-> X("counter2", "imsk", 1, 1), if |-> X("counter2", "ifr", 1, 1)]),
   counter2compare1 |-> Object("cmp8a", 0,
      [reg |-> R8(\hB4, \hFF)],
      [com |-> X("counter2", "ccra", 2, 4), force |-> X("counter2", "ccrb", 1, 6),
       ie |-> X("counter2", "imsk", 1, 2), if |-> X("counter2", "ifr", 1, 2)])]

\* Serial Peripheral Interface
Spi0 ==
  [spi0 |-> Object("spia", 0,
      [dr |-> R8(\h4E, \hFF), sr |-> R8(\h4D, \hFF), cr |-> R8(\h4C, \hFF)],
      [ie |-> F("cr", 1, 7), en |-> F("cr", 1, 6), dord |-> F("cr", 1, 5),
       mstr |-> F("cr", 1, 4), cpol |-> F("cr", 1, 3), cpha |-> F("cr", 1, 2),
       if |-> F("sr", 1, 7), wpol |-> F("sr", 1, 6),
       xpr |-> F2("sr", 1, 0, 2, "cr", 2, 0, 0)])]

\* UART
Uart0 ==
  [uart0 |-> Object("uarta", \h0,
      [dr |-> R8(\hC6, \hFF), ubrr |-> R16(\hC4, \hFFF), csrc |-> R8(\hC2, \hFF),
       csrb |-> R8(\hC1, \hFD), csra |-> R8F(\hC0, \h43, \h40)],
      [brr |-> F("ubrr", 12, 0), ifrxc |-> F("csra", 1, 7), iftxc |-> F("csra", 1, 6),
       iftxqnf |-> F("csra", 1, 5), fe |-> F("csra", 1, 4), dor |-> F("csra", 1, 3),
       pe |-> F("csra", 1, 2), 2x |-> F("csra", 1, 1), mpcm |-> F("csra", 1, 0),
       ierxc |-> F("csrb", 1, 7), ietxc |-> F("csrb", 1, 6),
       ietxqnf |-> F("csrb", 1, 5), rxen |-> F("csrb", 1, 4), txen |-> F("csrb", 1, 3),
       rxb8 |-> F("csrb", 1, 1), txb8 |-> F("csrb", 1, 0), msel |-> F("csrc", 2, 6),
       pm |-> F("csrc", 2, 4), sbs |-> F("csrc", 1, 3), cpol |-> F("csrc", 1, 0),
       csz |-> F2("csrb", 1, 2, 2, "csrc", 2, 1, 0), prr |-> X("shared", "prr", 1, 1)])]

\* 2-wire interface
Twi0 ==
  [twi0 |-> Object("twia", \h0,
      [br |-> R8(\hB8, \hFF), cr |-> R8F(\hBC, \hF5, \h80), sr |-> R8(\hB9, \h3),
       dr |-> R8(\hBB, \hFF), ar |-> R8(\hBA, \hFF), amr |-> R8(\hBD, \hFE)], NoBits)]

\* acmp0: analog comparator
Acmp0 ==
  [acmp0 |-> Object("acmpa", 0,
      [csr |-> R8F(\h50, \hDF, \h10)],
      [acme |-> X("adc0", "srb", 1, 6), aden |-> X("adc0", "sra", 1, 7),
       admux |-> X("adc0", "admux", 4, 0)])]

\* Analog-to-Digital Converter
Adc0 ==
  [adc0 |-> Object("ad10b", 0,
      [admux |-> R8(\h7C, \hEF), sra |-> R8F(\h7A, \hFF, \h10), adc |-> R16(\h78, \h0),
       adch |-> R8(\h79, \h0), adcl |-> R8(\h78, \h0), srb |-> R8(\h7B, \h47)],
      [refs |-> F("admux", 2, 6), lar |-> F("admux", 1, 5), mux |-> F("admux", 4, 0),
       en |-> F("sra", 1, 7), sc |-> F("sra", 1, 6), ate |-> F("sra", 1, 5),
       if |-> F("sra", 1, 4), ie |-> F("sra", 1, 3), ps |-> F("sra", 3, 0),
       me |-> F("srb", 1, 6), ts |-> F("srb", 3, 0), prr |-> X("shared", "prr", 1, 0)])]

\* EEPROM memory
Eeprom0 ==
  [eeprom0 |-> Object("eeproma", 0,
      [arh |-> R8(\h42, \h3), arl |-> R8(\h41, \hFF), ar |-> R16(\h41, \h3FF),
       dr |-> R8(\h40, \hFF), cr |-> R8(\h3F, \h3F)],
      [pm |-> F("cr", 2, 4), rie |-> F("cr", 1, 3), mpe |-> F("cr", 1, 2),
       pe |-> F("cr", 1, 1), re |-> F("cr", 1, 0)])]

\* Flash memory
Flash0 ==
  [flash0 |-> Object("flasha", 0,
      [csr |-> R8(\h57, \hBF)],
      [spmie |-> F("csr", 1, 7), rwwsb |-> F("csr", 1, 6), sigrd |-> F("csr", 1, 5),
       rwwsre |-> F("csr", 1, 4), blbset |-> F("csr", 1, 3), pgwrt |-> F("csr", 1, 2),
       pgers |-> F("csr", 1, 1), spmen |-> F("csr", 1, 0)])]

\* Interrupts
Irqs ==
  {Irq(1, "int0", "ie", "if"), Irq(2, "int1", "ie", "if"), Irq(3, "pcic0", "ie", "if"),
   Irq(4, "pcic1", "ie", "if"), Irq(5, "pcic2", "ie", "if"),
   Irq(6, "watchdog0", "ie", "if"), Irq(7, "counter2compare0", "ie", "if"),
   Irq(8, "counter2compare1", "ie", "if"), Irq(9, "counter2", "ie", "if"),
   Irq(10, "counter1capture0", "ie", "if"), Irq(11, "counter1compare0", "ie", "if"),
   Irq(12, "counter1compare1", "ie", "if"), Irq(13, "counter1", "ie", "if"),
   Irq(14, "counter0compare0", "ie", "if"), Irq(15, "counter0compare1", "ie", "if"),
   Irq(16, "counter0", "ie", "if"), Irq(17, "spi0", "ie", "if"),
   Irq(18, "uart0", "ierxc", "ifrxc"), Irq(19, "uart0", "ietxqe", "iftxqnf"),
   Irq(20, "uart0", "ietxc", "iftxc"), Irq(21, "adc0", "ie", "if"),
   Irq(22, "eeprom0", "ie", "none"), Irq(23, "acmp0", "ie", "if"),
   Irq(24, "twi0", "ie", "if"), Irq(25, "flash0", "ie", "if")}

\* Synonyms of the pins
PinNamed ==
  [sck |-> "pb5", miso |-> "pb4", mosi |-> "pb3", ss |-> "pb2",
   counter0compare0 |-> "pd6", counter0compare1 |-> "pd5", counter1compare0 |-> "pb1",
   counter1compare1 |-> "pb2", counter1capture0 |-> "pb0", counter2compare0 |-> "pb3",
   counter2compare1 |-> "pd3", adc0 |-> "pc0", adc1 |-> "pc1", adc2 |-> "pc2",
   adc3 |-> "pc3", adc4 |-> "pc4", adc5 |-> "pc5", ain1 |-> "pd7", ain0 |-> "pd6",
   scl |-> "pc5", sda |-> "pc4", txd |-> "pd1", rxd |-> "pd0"]

\* _hwa_setup_context, _hwa_init_context: both lists name the same objects
SharedInContext ==
  {"eimsk", "eifr", "eicr", "gtccr", "prr", "did1", "did0", "pcicr", "pcifr"}
ObjectsInContext ==
  {"core0", "port0", "port1", "port2", "pcic0", "pcic1", "pcic2", "watchdog0",
   "counter0compare0", "counter0compare1", "counter0", "counter1compare0",
   "counter1compare1", "counter1capture0", "counter1", "counter2compare0",
   "counter2compare1", "counter2", "spi0", "uart0", "twi0", "acmp0", "adc0"}

\* _hwa_commit_context
CommitOrder ==
  <<Reg("eimsk"), Reg("eifr"), Reg("eicr"), All("core0"), Reg("prr"),
    All("watchdog0"), All("port0"), All("port1"), All("port2"), Reg("pcifr"),
    Reg("pcicr"), All("pcic0"), All("pcic1"), All("pcic2"), Reg("gtccr"),
    All("counter0"), All("counter0compare0"), All("counter0compare1"), All("counter1"),
    All("counter1compare0"), All("counter1compare1"), All("counter1capture0"),
    All("counter2"), All("counter2compare0"), All("counter2compare1"), All("spi0"),
    All("uart0"), All("twi0"), All("acmp0"), Reg("did1"), All("adc0"), Reg("did0")>>

Objects ==
  MergeAll(<<Shared, Ports, Core0, Ints, Pcics, Watchdog0, Prescaler0, Counter0,
             Counter0Compares, Counter1, Counter1Compares, Counter1Capture0, Prescaler2,
             Counter2, Counter2Compares, Spi0, Uart0, Twi0, Acmp0, Adc0, Eeprom0, Flash0>>)

Device ==
  [objects |-> Objects, pins |-> Pins, named |-> PinNamed, irqs |-> Irqs,
   shared |-> SharedInContext, inContext |-> ObjectsInContext, commit |-> CommitOrder,
   copies |-> Copies(Objects, SharedInContext, ObjectsInContext)]
=============================================================================
