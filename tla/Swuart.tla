------------------------------- MODULE Swuart -------------------------------
(***************************************************************************)
(* The software UART of src/atmel/avr/swuarta/swuarta.sx: the START and    *)
(* COMPARE interrupt handlers, getbyte and putbyte, over one counter       *)
(* compare unit and one (ONEWIRE) or two pins, without AUTOSYNC.           *)
(*                                                                         *)
(* Time advances by half bits: dtn is 2 ticks and dt0 is 3.  The handlers  *)
(* and the timed part of putbyte are shorter than half a bit and are       *)
(* atomic: neither of the UART's two interrupts is enabled while they      *)
(* change its state.  The instructions of getbyte and putbyte interleave   *)
(* with interrupts and with time.  The status register is one that sbi,    *)
(* cbi and sbis reach (gpior0 on every device).                            *)
(***************************************************************************)
EXTENDS Integers, Sequences

CONSTANTS
  NB,     \* data bits of a frame (8 in the code)
  Modes   \* builds to be checked: records [onewire, checktx, polite]

ASSUME FrameAssumption == NB \in Nat \ {0}
ASSUME ModesAssumption ==
  Modes \subseteq [onewire : BOOLEAN, checktx : BOOLEAN, polite : BOOLEAN]

VARIABLES
  mode,     \* the build; polite: whether the peer waits for its turn
  stat,     \* status byte (F_RXC, F_TXC, F_STOP, F_RXTX, F_WBTX = F_SENT)
  data,     \* data register
  shift,    \* shift register, least significant bit first
  nbit,     \* number of bits to rx/tx
  startIE, startIF,   \* mask and flag of the pin-change interrupt
  matchIE, matchIF,   \* mask and flag of the compare-match interrupt
  toMatch,  \* half bits before count = comp, 0 when that is far away
  port, ddr,          \* the TXD pin's bits in the port registers
  main,     \* [pc, r24]: where the program is in the functions of the UART
  out       \* levels the peer still has to put on RXD, one per half bit

uart == <<mode, stat, data, shift, nbit, startIE, startIF, matchIE, matchIF,
          toMatch, port, ddr, main, out>>

Bit   == {0, 1}
Byte  == [1..NB -> Bit]
Zeros == [i \in 1..NB |-> 0]
One   == [i \in 1..NB |-> IF i = 1 THEN 1 ELSE 0]
Status == [rxc : BOOLEAN, txc : BOOLEAN, stop : BOOLEAN,
           rxtx : BOOLEAN, wbtx : BOOLEAN]

dt0 == 3
dtn == 2

\* lsr, then the carry or the T bit as the new most significant bit
Shifted(s, b) == Append(Tail(s), b)

-----------------------------------------------------------------------------
(* The line.                                                               *)

\* Half bits of a frame: start bit, data bits, stop bit.
Frame(b) == LET bits == <<0>> \o b \o <<1>>
            IN  [i \in 1..(2 * Len(bits)) |-> bits[(i + 1) \div 2]]

PeerLevel(o) == IF o = <<>> THEN 1 ELSE Head(o)

\* The TXD pin; when it is not driven a pull-up keeps it high.
Driven(p, d) == IF d = 1 THEN p ELSE 1

\* Two wires: the peer alone; one wire: a 0 of either side wins.
RxdLevel(p, d, o) ==
  IF mode.onewire /\ Driven(p, d) = 0 THEN 0 ELSE PeerLevel(o)
Rxd == RxdLevel(port, ddr, out)

\* What reading the TXD pin gives.
Txd == IF mode.onewire THEN Rxd ELSE Driven(port, ddr)

\* A change of the RXD pin raises the pin-change flag.
Edge(p, d, o) == startIF \/ RxdLevel(p, d, o) # Rxd

StartIRQ == startIE /\ startIF
MatchIRQ == matchIE /\ matchIF
Served   == ~ StartIRQ /\ ~ MatchIRQ   \* no interrupt stops the program

-----------------------------------------------------------------------------
(* START handler.                                                          *)

\* Not a falling edge: label st99.
StartIgnored ==
  /\ StartIRQ /\ Rxd = 1
  /\ startIF' = FALSE
  /\ UNCHANGED <<mode, stat, data, shift, nbit, startIE, matchIE, matchIF,
                 toMatch, port, ddr, main, out>>

\* Labels syn and st8.
StartBit ==
  /\ StartIRQ /\ Rxd = 0
  /\ startIF' = FALSE /\ startIE' = FALSE
  /\ toMatch' = dt0
  /\ nbit' = NB
  /\ matchIF' = FALSE /\ matchIE' = TRUE
  /\ UNCHANGED <<mode, stat, data, shift, port, ddr, main, out>>

-----------------------------------------------------------------------------
(* COMPARE handler.                                                        *)

\* A slip for FrameEnds to catch: comp keeps its value.
NextBitStuck == /\ MatchIRQ
                /\ matchIF' = FALSE
                /\ toMatch' = toMatch

\* Entry: the flag is cleared, the date of the next bit is computed.
NextBit == /\ MatchIRQ
           /\ matchIF' = FALSE
           /\ toMatch' = dtn

\* Every bit received goes through the shift register, the stop bit too.
Receiving == /\ NextBit /\ ~ stat.rxtx
             /\ shift' = Shifted(shift, Rxd)
             /\ nbit' = nbit - 1

\* A slip for ImplementsLink to catch: one bit is missing from the byte.
RxDataEarly ==
  /\ Receiving /\ nbit > 0
  /\ data' = IF nbit = 2 THEN Shifted(shift, Rxd) ELSE data
  /\ UNCHANGED <<mode, stat, startIE, startIF, matchIE, port, ddr, main, out>>

\* A data bit; the last one makes the data byte.
RxData ==
  /\ Receiving /\ nbit > 0
  /\ data' = IF nbit = 1 THEN Shifted(shift, Rxd) ELSE data
  /\ UNCHANGED <<mode, stat, startIE, startIF, matchIE, port, ddr, main, out>>

\* A slip for NeverDeaf to catch: the receiver is not armed again.
RxStopUnarmed ==
  /\ Receiving /\ nbit <= 0
  /\ stat' = [stat EXCEPT !.stop = (Rxd = 1), !.wbtx = TRUE, !.rxc = TRUE]
  /\ matchIE' = FALSE
  /\ startIF' = FALSE
  /\ UNCHANGED <<mode, data, startIE, port, ddr, main, out>>

\* Label rxsb: the stop bit has been sampled, in the middle of its slot.
RxStop ==
  /\ Receiving /\ nbit <= 0
  /\ stat' = [stat EXCEPT !.stop = (Rxd = 1), !.wbtx = TRUE, !.rxc = TRUE]
  /\ matchIE' = FALSE
  /\ startIF' = FALSE /\ startIE' = TRUE
  /\ UNCHANGED <<mode, data, port, ddr, main, out>>

\* CHECKTX: 1 was sent and the pin is at 0.
BusLost == mode.checktx /\ stat.wbtx /\ Txd = 0

Transmitting == /\ NextBit /\ stat.rxtx
                /\ nbit' = nbit - 1

\* A slip for Answers to catch: the stop bit is not prepared.
TxDataNoStop ==
  /\ Transmitting /\ nbit > 0 /\ ~ BusLost
  /\ port' = Head(shift)
  /\ stat' = IF mode.checktx
             THEN [stat EXCEPT !.wbtx = (Head(shift) = 1)] ELSE stat
  /\ shift' = Shifted(shift, 0)
  /\ startIF' = Edge(Head(shift), ddr, out)
  /\ UNCHANGED <<mode, data, startIE, matchIE, ddr, main, out>>

\* Label tx: a data bit goes out, F_SENT keeps what is to be checked next
\* time; after the last one the stop bit is prepared.
TxData ==
  /\ Transmitting /\ nbit > 0 /\ ~ BusLost
  /\ port' = Head(shift)
  /\ stat' = IF mode.checktx
             THEN [stat EXCEPT !.wbtx = (Head(shift) = 1)] ELSE stat
  /\ shift' = IF nbit = 1 THEN One ELSE Shifted(shift, 0)
  /\ startIF' = Edge(Head(shift), ddr, out)
  /\ UNCHANGED <<mode, data, startIE, matchIE, ddr, main, out>>

\* The bus is lost: the pin is released and zeros replace the data.  R30,
\* which XST stores in the status at label tx2, still holds the low byte of
\* the compare date: sbis did not load it.
TxLost ==
  /\ Transmitting /\ nbit > 0 /\ BusLost
  /\ port' = 0 /\ ddr' = 0
  /\ \E r30 \in Status : stat' = [r30 EXCEPT !.wbtx = FALSE]
  /\ shift' = IF nbit = 1 THEN One ELSE Zeros
  /\ startIF' = Edge(0, 0, out)
  /\ UNCHANGED <<mode, data, startIE, matchIE, main, out>>

\* A slip for TypeOK to catch: the frame goes on after its stop bit.
TxStopGoesOn ==
  /\ Transmitting /\ nbit <= 0
  /\ shift' = Shifted(shift, 0)
  /\ stat' = [stat EXCEPT !.txc = TRUE, !.wbtx = TRUE, !.rxtx = FALSE]
  /\ IF mode.onewire THEN ddr' = 0 /\ port' = 0
                     ELSE ddr' = ddr /\ port' = Head(shift)
  /\ startIF' = FALSE /\ startIE' = TRUE
  /\ UNCHANGED <<mode, data, matchIE, main, out>>

\* Label txsb: the stop bit is on its way, the line can be received from.
TxStop ==
  /\ Transmitting /\ nbit <= 0
  /\ shift' = IF BusLost THEN Zeros ELSE Shifted(shift, 0)
  /\ \E st \in IF BusLost THEN Status ELSE {stat} :
       stat' = [st EXCEPT !.txc = TRUE, !.wbtx = TRUE, !.rxtx = FALSE]
  /\ matchIE' = FALSE
  /\ IF mode.onewire THEN ddr' = 0 /\ port' = 0
                     ELSE ddr' = ddr /\ port' = Head(shift)
  /\ startIF' = FALSE /\ startIE' = TRUE
  /\ UNCHANGED <<mode, data, main, out>>

Handlers == \/ StartIgnored \/ StartBit \/ RxData \/ RxStop
            \/ TxData \/ TxLost \/ TxStop

-----------------------------------------------------------------------------
(* getbyte, putbyte: main.pc names the instruction to be executed.         *)

At(pc) == main.pc = pc
Goto(pc) == main' = [main EXCEPT !.pc = pc]

registers == <<data, shift, nbit, startIF, matchIE, matchIF, toMatch>>
pin       == <<port, ddr>>

\* 1: XSBIS R24, F_RXC
GetWait ==
  /\ At("get") /\ Served /\ stat.rxc
  /\ Goto("get_clear")
  /\ UNCHANGED <<mode, stat, registers, startIE, pin, out>>

\* XCBAS R24, R25, F_RXC
GetClear ==
  /\ At("get_clear") /\ Served
  /\ stat' = [stat EXCEPT !.rxc = FALSE]
  /\ Goto("get_load")
  /\ UNCHANGED <<mode, registers, startIE, pin, out>>

\* lds R24, data; ret
GetLoad ==
  /\ At("get_load") /\ Served
  /\ main' = [pc |-> "app", r24 |-> data]
  /\ UNCHANGED <<mode, stat, registers, startIE, pin, out>>

\* 1: XSBIC R26, MATCH_IE, then XCB R26, F_TXC
PutWait ==
  /\ At("put") /\ Served /\ ~ matchIE
  /\ stat' = [stat EXCEPT !.txc = FALSE]
  /\ Goto("put_slot")
  /\ UNCHANGED <<mode, registers, startIE, pin, out>>

\* A slip for NoOverlap to catch: F_WBTX is not tested.
PutNow ==
  /\ At("put_slot")
  /\ Goto("put_off")
  /\ UNCHANGED <<mode, stat, registers, startIE, pin, out>>

\* F_WBTX: wait one bit time.  The flag can be read as it rises, before the
\* interrupt it asks for is served.
PutSlot ==
  /\ At("put_slot")
  /\ stat.wbtx => matchIF
  /\ Goto("put_off")
  /\ UNCHANGED <<mode, stat, registers, startIE, pin, out>>

\* XCB R26, START_IE
PutOff ==
  /\ At("put_off") /\ Served
  /\ startIE' = FALSE
  /\ Goto("put_start")
  /\ UNCHANGED <<mode, stat, registers, pin, out>>

\* The rest of putbyte: no interrupt of the UART is enabled.
PutStart ==
  /\ At("put_start") /\ Served
  /\ shift' = main.r24 /\ nbit' = NB
  /\ stat' = [stat EXCEPT !.rxtx = TRUE, !.stop = TRUE,
                          !.wbtx = IF mode.checktx THEN FALSE ELSE @]
  /\ port' = 0
  /\ ddr' = IF mode.onewire THEN 1 ELSE ddr
  /\ startIF' = Edge(0, ddr', out)
  /\ toMatch' = dtn
  /\ matchIF' = FALSE /\ matchIE' = TRUE
  /\ Goto("app")
  /\ UNCHANGED <<mode, data, startIE, out>>

\* hw(clear, UART)
Clear ==
  /\ At("app") /\ Served
  /\ stat' = [stat EXCEPT !.rxc = FALSE, !.txc = FALSE]
  /\ UNCHANGED <<mode, registers, startIE, pin, main, out>>

\* The application calls a function of the UART.
CallGet ==
  /\ At("app") /\ Served
  /\ Goto("get")
  /\ UNCHANGED <<mode, stat, registers, startIE, pin, out>>

CallPut(b) ==
  /\ At("app") /\ Served
  /\ main' = [pc |-> "put", r24 |-> b]
  /\ UNCHANGED <<mode, stat, registers, startIE, pin, out>>

-----------------------------------------------------------------------------
(* Time, and the peer's transmitter.                                       *)

\* Half a bit later.
Elapse ==
  /\ Served
  /\ toMatch' = IF toMatch = 0 THEN 0 ELSE toMatch - 1
  /\ matchIF' = (matchIF \/ toMatch = 1)
  /\ out' = IF out = <<>> THEN <<>> ELSE Tail(out)
  /\ startIF' = Edge(port, ddr, out')
  /\ UNCHANGED <<mode, stat, data, shift, nbit, startIE, matchIE, pin, main>>

\* The peer starts a frame.
PeerStart(b) ==
  /\ Served /\ out = <<>>
  /\ out' = Frame(b)
  /\ startIF' = Edge(port, ddr, out')
  /\ UNCHANGED <<mode, stat, data, shift, nbit, startIE, matchIE, matchIF,
                 toMatch, pin, main>>

\* hwa(configure, UART, bps, ...) was committed: the counter runs, RXD is
\* listened to.
UartInit ==
  /\ mode \in Modes
  /\ stat = [rxc |-> FALSE, txc |-> FALSE, stop |-> FALSE,
             rxtx |-> FALSE, wbtx |-> FALSE]
  /\ data = Zeros /\ shift = Zeros /\ nbit = 0
  /\ startIE = TRUE /\ startIF = FALSE
  /\ matchIE = FALSE /\ matchIF \in BOOLEAN /\ toMatch = 0
  /\ IF mode.onewire THEN port = 0 /\ ddr = 0 ELSE port = 1 /\ ddr = 1
  /\ main = [pc |-> "app", r24 |-> Zeros]
  /\ out = <<>>

UartTypeOK ==
  /\ mode \in Modes /\ stat \in Status
  /\ data \in Byte /\ shift \in Byte /\ nbit \in -1..NB
  /\ {startIE, startIF, matchIE, matchIF} \subseteq BOOLEAN
  /\ toMatch \in 0..dt0
  /\ port \in Bit /\ ddr \in Bit
  /\ main \in [pc : {"app", "get", "get_clear", "get_load", "put",
                     "put_slot", "put_off", "put_start"}, r24 : Byte]
  /\ out \in Seq(Bit) /\ Len(out) <= 2 * (NB + 2)
=============================================================================
