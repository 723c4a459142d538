---------------------------- MODULE DeviceTable ----------------------------
(***************************************************************************)
(* What the device headers declare, in the vocabulary of the HWA tables    *)
(* (src/hwa/hwa_1.h): objects of a class that hold hardware registers      *)
(* (_r8, _r16), logical registers made of one or two groups of bits of     *)
(* the object itself (_ob1, _ob2, _cb1, _cb2) or of another object (_xob1, *)
(* _xob2), pins, interrupts; and, for each class, the registers that a     *)
(* context copies, their reset values and the order in which they are      *)
(* committed.                                                              *)
(***************************************************************************)
EXTENDS Integers, SequencesExt

\* Entries of a commit list: one shared register, or all those of an object.
Reg(r) == <<"shared", r>>
All(o) == <<o, "all">>

\* The content of a register as the set of its bits that are 1.
BitsOf(v) == {i \in 0 .. 30 : (v \div 2^i) % 2 = 1}

\* The bits of a group of bn bits at position bp.
Group(bn, bp) == bp .. bp + bn - 1

-----------------------------------------------------------------------------
(* Rows of the tables.                                                     *)

\* A hardware register: size, address, writeable bits, flags.
Register(size, addr, rwm, rfm) ==
  [size |-> size, addr |-> addr, rwm |-> BitsOf(rwm), rfm |-> BitsOf(rfm)]

R8(addr, rwm)       == Register(8, addr, rwm, 0)
R8F(addr, rwm, rfm) == Register(8, addr, rwm, rfm)
R16(addr, rwm)      == Register(16, addr, rwm, 0)

\* A register of 32 bits is given its writeable bits and its flags as sets.
R32(addr, rwm)       == [size |-> 32, addr |-> addr, rwm |-> rwm, rfm |-> {}]
R32F(addr, rwm, rfm) == [size |-> 32, addr |-> addr, rwm |-> rwm, rfm |-> rfm]

\* bn bits at bp in a register are the bits from vbp of the value.
Part(owner, reg, bn, bp, vbp) ==
  [owner |-> owner, reg |-> reg, bn |-> bn, bp |-> bp, vbp |-> vbp]

\* Logical registers: one group or two, of the object or of another object.
F(reg, bn, bp)        == <<Part("self", reg, bn, bp, 0)>>
X(owner, reg, bn, bp) == <<Part(owner, reg, bn, bp, 0)>>
F2(r1, bn1, bp1, vbp1, r2, bn2, bp2, vbp2) ==
  <<Part("self", r1, bn1, bp1, vbp1), Part("self", r2, bn2, bp2, vbp2)>>
X2(owner, r1, bn1, bp1, vbp1, r2, bn2, bp2, vbp2) ==
  <<Part(owner, r1, bn1, bp1, vbp1), Part(owner, r2, bn2, bp2, vbp2)>>

\* A pin: bn bits at bp of its port, the bit that disables its digital
\* input, and the pin-change controller that watches it.
Pin(port, bn, bp, did, pcic) ==
  [port |-> port, bn |-> bn, bp |-> bp, did |-> did, pcic |-> pcic]

\* An interrupt: vector, object, and its enable and flag logical registers.
Irq(vector, object, ie, if) ==
  [vector |-> vector, object |-> object, ie |-> ie, if |-> if]

NoRegs == <<>>
NoBits == <<>>

-----------------------------------------------------------------------------
(* Tables of the classes.                                                  *)

\* Ports: registers at an offset from the address of the object.
PortRegs == [port |-> R8(2, \hFF), ddr |-> R8(1, \hFF), pin |-> R8(0, \hFF)]

AcmpaBits ==
  [acd |-> F("csr", 1, 7), acbg |-> F("csr", 1, 6), aco |-> F("csr", 1, 5),
   if |-> F("csr", 1, 4), ie |-> F("csr", 1, 3), acic |-> F("csr", 1, 2),
   acis |-> F("csr", 2, 0)]

TwiaBits ==
  [if |-> F("cr", 1, 7), ack |-> F("cr", 1, 6), start |-> F("cr", 1, 5),
   stop |-> F("cr", 1, 4), collision |-> F("cr", 1, 3), en |-> F("cr", 1, 2),
   ie |-> F("cr", 1, 0), status |-> F("sr", 5, 3), psc |-> F("sr", 2, 0),
   sla |-> F("ar", 7, 1), gce |-> F("ar", 1, 0), slam |-> F("amr", 7, 1)]

WdogbBits ==
  [if |-> F("csr", 1, 7), ie |-> F("csr", 1, 6),
   wdp |-> F2("csr", 1, 5, 3, "csr", 3, 0, 0), wdce |-> F("csr", 1, 4),
   wde |-> F("csr", 1, 3), eie |-> F2("csr", 1, 3, 1, "csr", 1, 6, 0),
   ifie |-> F("csr", 2, 6), wdall |-> F("csr", 7, 0)]

ClassRegs(c) == IF c = "p8a" THEN PortRegs ELSE NoRegs

ClassBits(c) == CASE c = "acmpa" -> AcmpaBits
                  [] c = "twia"  -> TwiaBits
                  [] c = "wdogb" -> WdogbBits
                  [] OTHER       -> NoBits

Merge(f, g) == LET t == f @@ g IN [x \in DOMAIN t |-> t[x]]

MergeAll(tables) == FoldLeft(Merge, NoBits, tables)

\* A register is looked up in the class before the object.
Object(class, base, regs, bits) ==
  [class |-> class, base |-> base,
   regs |-> Merge(ClassRegs(class), regs), bits |-> Merge(ClassBits(class), bits)]

-----------------------------------------------------------------------------
(* The contexts of the classes: the registers _hwa_setup_ creates, the     *)
(* values _hwa_init_ gives some of them, the order of _hwa_commit_.        *)

Context(setup, init, commit) == [setup |-> setup, init |-> init, commit |-> commit]

\* All registers of the class are initialised to 0 and committed.
Plain(regs) == Context(regs, [r \in {regs[i] : i \in DOMAIN regs} |-> 0], regs)

CounterRegs == <<"ccra", "ccrb", "count", "imsk", "ifr">>
C8aContext  == Plain(CounterRegs)
C8cContext  == Plain(CounterRegs)
C8bContext  == Plain(<<"ccr", "count", "compare2">>)

\* ifr is in the context of a 16-bit counter, and is not committed.
C16Commit   == <<"ccra", "ccrb", "ccrc", "count", "imsk">>
C16aContext == Context(C16Commit \o <<"ifr">>, Plain(C16Commit \o <<"ifr">>).init, C16Commit)

CmpContext   == Plain(<<"reg">>)
DtgaContext  == Plain(<<"dtps", "dta", "dtb">>)
PortContext  == Plain(<<"port", "ddr">>)
PcicaContext == Plain(<<"msk">>)
PscbContext  == Plain(<<"pllcsr">>)
SpiaContext  == Plain(<<"cr", "sr">>)
AdcContext   == Plain(<<"admux", "sra", "srb">>)
AcmpContext  == Plain(<<"csr">>)
WdogContext  == Plain(<<"csr">>)
UsiaContext  == Plain(<<"cr">>)

\* mcusr holds the cause of the reset: no initial value.
CoreaContext == Context(<<"mcucr", "mcusr", "osccal">>,
                        [mcucr |-> 0, osccal |-> 0],
                        <<"mcucr", "mcusr", "osccal">>)
CorebContext == Context(<<"mcucr", "mcusr", "smcr", "osccal">>,
                        [mcucr |-> 0, smcr |-> 0, osccal |-> 0],
                        <<"mcucr", "mcusr", "smcr", "osccal">>)

TwiaRegs    == <<"br", "cr", "sr", "ar", "amr">>
TwiaContext == Context(TwiaRegs, [br |-> 0, cr |-> 0, sr |-> \hF8, ar |-> \hFE, amr |-> 0],
                       TwiaRegs)

UartaRegs    == <<"ubrr", "csra", "csrb", "csrc">>
UartaContext == Context(UartaRegs, [ubrr |-> 0, csra |-> \h20, csrb |-> 0, csrc |-> \h06],
                        UartaRegs)

\* STM32
StmRccaRegs    == <<"cr", "cfgr", "apb2enr">>
StmRccaContext == Context(StmRccaRegs, [cr |-> \h83, cfgr |-> 0, apb2enr |-> 0], StmRccaRegs)

StmP16aRegs    == <<"crl", "crh", "odr", "bsrr", "brr", "lckr">>
StmP16aContext ==
  Context(StmP16aRegs, Merge([crl |-> \h44444444, crh |-> \h44444444],
                             Plain(<<"odr", "bsrr", "brr", "lckr">>).init), StmP16aRegs)

StmStkaContext == Plain(<<"ctrl", "load", "val">>)

\* ESP8266.  Of its shared registers only _swap has a reset value; ports and
\* pin configurations have none.
EspSharedContext == Context(<<"_edgeie", "_swap">>, [_swap |-> 0], <<"_edgeie", "_swap">>)

EspP16aRegs    == <<"_out", "_enb", "_in", "_ie">>
EspP16aContext == Context(EspP16aRegs, <<>>, EspP16aRegs)
EspPcfaContext == Context(<<"_reg">>, <<>>, <<"_reg">>)

EspTm23aContext == Plain(<<"_load", "_ctrl">>)
EspUartaContext ==
  Context(<<"_ie", "_ic", "_clkdiv", "_conf0", "_conf1">>,
          [_ie |-> 0, _ic |-> 0, _clkdiv |-> 0, _conf0 |-> \h1C, _conf1 |-> \h6060],
          <<"_clkdiv", "_conf0", "_conf1", "_ic", "_ie">>)

ContextOf ==
  [c8a |-> C8aContext, c8b |-> C8bContext, c8c |-> C8cContext, c16a |-> C16aContext,
   cmp8a |-> CmpContext, cmp8b |-> CmpContext, cmp16a |-> CmpContext, cap16a |-> CmpContext,
   dtga |-> DtgaContext, p8a |-> PortContext, pcica |-> PcicaContext,
   pscb |-> PscbContext, spia |-> SpiaContext, ad10a |-> AdcContext, ad10b |-> AdcContext,
   ad10c |-> AdcContext, acmpa |-> AcmpContext, acmpb |-> AcmpContext,
   wdoga |-> WdogContext, wdogb |-> WdogContext, usia |-> UsiaContext,
   corea |-> CoreaContext, coreb |-> CorebContext, twia |-> TwiaContext,
   uarta |-> UartaContext,
   stm_rcca |-> StmRccaContext, stm_p16a |-> StmP16aContext, stm_stka |-> StmStkaContext,
   esp_shared |-> EspSharedContext, esp_p16a |-> EspP16aContext,
   esp_pcfa |-> EspPcfaContext, esp_tm23a |-> EspTm23aContext,
   esp_uarta |-> EspUartaContext]

\* The copies of hardware registers that the context of the device has.
Copies(objects, shared, inContext) ==
  {<<"shared", r>> : r \in shared}
    \cup UNION {{<<o, r>> : r \in ToSet(ContextOf[objects[o].class].setup)} : o \in inContext}
=============================================================================
